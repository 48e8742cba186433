------------------------ MODULE MorningDigestProofs ------------------------
(***************************************************************************)
(* Proofs about MorningDigest, for any dialogs, page size, length of a day *)
(* and number of days made up for.                                         *)
(*                                                                         *)
(* One job at a time holds the lock, and only for a day that has no digest *)
(* (Fresh).   What the holder has read is complete above the page it is at *)
(* (PassInv), so that a stored digest is complete.  As long as the digest  *)
(* time does not change, each target is a multiple of a day away from each *)
(* other (Aligned), and no day between two digests is missing (NoGap); for *)
(* that, a job that waited must not come days too late (Recent).           *)
(***************************************************************************)
EXTENDS MorningDigest, FiniteSetTheorems, NaturalsInduction, WellFoundedInduction, TLAPS

Active(j) == phase[j] # "idle"
Holds(j) == phase[j] \in {"dialogs", "rows", "generating"}

------------------------------------------------------------------------------
\* Days.

LEMMA DayOfCutoff ==
    ASSUME digestTime \in 0..(Slots - 1), NEW d \in Int
    PROVE  CutoffOf(d) \in Int /\ Day(CutoffOf(d)) = d
  BY ConstantsAssumption DEF CutoffOf, Day

LEMMA DayOf ==
    ASSUME NEW x \in Int
    PROVE  /\ Day(x) \in Int /\ Slots \in Nat \ {0}
           /\ Day(x) * Slots <= x /\ x < Day(x) * Slots + Slots
           /\ x >= 0 => Day(x) >= 0
  BY ConstantsAssumption DEF Day

LEMMA DaysInOrder ==
    ASSUME digestTime \in 0..(Slots - 1), NEW d \in Int, NEW e \in Int
    PROVE  /\ d <= e <=> CutoffOf(d) <= CutoffOf(e)
           /\ d < e <=> CutoffOf(d) < CutoffOf(e)
           /\ d < e => CutoffOf(d) <= CutoffOf(e) - Slots
           /\ CutoffOf(d + 1) = CutoffOf(d) + Slots
  BY ConstantsAssumption DEF CutoffOf

LEMMA DaysGoOn ==
    ASSUME NEW x \in Int, NEW y \in Int, x <= y
    PROVE  Day(x) <= Day(y)
  <1>1. /\ Day(x) \in Int /\ Day(y) \in Int /\ Slots \in Nat \ {0}
        /\ Day(x) * Slots < (Day(y) + 1) * Slots
    BY DayOf
  <1>2. Day(x) < Day(y) + 1
    BY <1>1
  <1>3. QED
    BY <1>1, <1>2

\* The latest cut-off that is due.
LEMMA LatestCutoff ==
    ASSUME digestTime \in 0..(Slots - 1), NEW x \in Int, NEW d \in Int, CutoffOf(d) <= x
    PROVE  d <= Day(x)
  BY ConstantsAssumption DEF CutoffOf, Day

LEMMA LeastOfInts ==
    ASSUME NEW S \in SUBSET Int, NEW b \in Int, \A x \in S : b <= x, S # {}
    PROVE  Least(S) \in S /\ \A y \in S : Least(S) <= y
  <1> DEFINE T == {n \in Nat : b + n \in S}
  <1>1. T # {}
    <2>1. PICK x \in S : TRUE
      OBVIOUS
    <2>2. x - b \in Nat /\ b + (x - b) = x
      BY <2>1
    <2>3. QED
      BY <2>1, <2>2
  <1>2. PICK n \in T : \A m \in T : ~(<<m, n>> \in OpToRel(<, Nat))
    BY <1>1, NatLessThanWellFounded, WFMin
  <1>3. \A m \in T : n <= m
    <2> HIDE DEF T
    <2>1. n \in Nat /\ T \subseteq Nat
      BY <1>2 DEF T
    <2>2. \A m \in T : ~(m < n)
      BY <1>2, <2>1 DEF OpToRel
    <2>3. QED
      BY <2>1, <2>2
  <1>4. ASSUME NEW y \in S PROVE b + n <= y
    <2>1. y - b \in Nat /\ b + (y - b) = y
      OBVIOUS
    <2>2. n <= y - b
      BY <1>3, <2>1
    <2>3. QED
      BY <2>1, <2>2
  <1>5. \E x \in S : \A y \in S : x <= y
    BY <1>2, <1>4
  <1>6. QED
    BY <1>5 DEF Least

LEMMA GreatestOfInts ==
    ASSUME NEW S \in SUBSET Int, NEW b \in Int, \A x \in S : x <= b, S # {}
    PROVE  Greatest(S) \in S /\ \A y \in S : y <= Greatest(S)
  <1> DEFINE T == {n \in Nat : b - n \in S}
  <1>1. T # {}
    <2>1. PICK x \in S : TRUE
      OBVIOUS
    <2>2. b - x \in Nat /\ b - (b - x) = x
      BY <2>1
    <2>3. QED
      BY <2>1, <2>2
  <1>2. PICK n \in T : \A m \in T : ~(<<m, n>> \in OpToRel(<, Nat))
    BY <1>1, NatLessThanWellFounded, WFMin
  <1>3. \A m \in T : n <= m
    <2> HIDE DEF T
    <2>1. n \in Nat /\ T \subseteq Nat
      BY <1>2 DEF T
    <2>2. \A m \in T : ~(m < n)
      BY <1>2, <2>1 DEF OpToRel
    <2>3. QED
      BY <2>1, <2>2
  <1>4. ASSUME NEW y \in S PROVE y <= b - n
    <2>1. b - y \in Nat /\ b - (b - y) = y
      OBVIOUS
    <2>2. n <= b - y
      BY <1>3, <2>1
    <2>3. QED
      BY <2>1, <2>2
  <1>5. \E x \in S : \A y \in S : y <= x
    BY <1>2, <1>4
  <1>6. QED
    BY <1>5 DEF Greatest

LEMMA GreatestOfTwo ==
    ASSUME NEW a \in Int, NEW b \in Int
    PROVE  /\ Greatest({a, b}) \in {a, b}
           /\ Greatest({a, b}) >= a /\ Greatest({a, b}) >= b
  <1>1. \E x \in {a, b} : \A y \in {a, b} : y <= x
    OBVIOUS
  <1>2. QED
    BY <1>1 DEF Greatest

------------------------------------------------------------------------------
\* The day that is missing.

Ends == {r.end : r \in records}

\* The digest of the latest day, if there is none yet; otherwise the first day without
\* one among the last Limit days and those after the newest digest.
LEMMA MissingDay ==
    ASSUME TypeOK, Missing # None
    PROVE  /\ Missing \in Cutoffs /\ Missing <= now /\ ~Succeeded(Missing)
           /\ \E d \in Int :
                /\ Missing = CutoffOf(d) /\ d <= Day(now)
                /\ (\A e \in Ends : CutoffOf(Day(now)) < e) => d = Day(now)
                /\ \A e \in Ends : e <= CutoffOf(Day(now)) =>
                     \E g \in Ends :
                       /\ e <= g /\ g <= CutoffOf(Day(now)) /\ Day(g) < d
                       /\ \A c \in Int : /\ Day(g) < c /\ c < d /\ c > Day(now) - Limit
                                         => Succeeded(CutoffOf(c))
  <1> DEFINE latest == CutoffOf(Day(now))
             ends == {r.end : r \in {q \in records : q.end <= latest}}
             low == Greatest({Day(Greatest(ends)) + 1, Day(latest) - (Limit - 1)})
             days == {low..Day(latest)}
             missing == {d \in UNION days : ~Succeeded(CutoffOf(d))}
  <1>1. /\ now \in 0..MaxTime /\ now \in Int /\ digestTime \in 0..(Slots - 1)
        /\ \A r \in records : r.end \in Cutoffs
    BY ConstantsAssumption DEF TypeOK
  <1>2. Day(now) \in Nat /\ latest \in Int /\ Day(latest) = Day(now)
    BY <1>1, DayOf, DayOfCutoff
  <1>3. now >= latest /\ Missing = EarliestMissing(latest)
    BY DEF Missing, Desired
  <1>4. latest \in Cutoffs
    <2>1. latest >= 0
      BY <1>1, <1>2, ConstantsAssumption DEF CutoffOf
    <2>2. 0 - Limit * Slots <= 0
      BY ConstantsAssumption
    <2>3. QED
      BY <1>1, <1>2, <1>3, <2>1, <2>2, ConstantsAssumption DEF Cutoffs
  <1>5. ends = {e \in Ends : e <= latest} /\ Ends \subseteq Int
    BY <1>1, ConstantsAssumption DEF Ends, Cutoffs
  <1>6. EarliestMissing(latest) = IF ends = {} THEN latest
                                  ELSE IF missing = {} THEN None
                                  ELSE CutoffOf(Least(missing))
    BY Zenon DEF EarliestMissing
  <1>7. CASE ends = {}
    <2>1. Missing = latest
      BY <1>3, <1>6, <1>7
    <2>2. ~Succeeded(latest)
      BY <1>2, <1>7 DEF Succeeded
    <2>3. \A e \in Ends : ~(e <= latest)
      BY <1>5, <1>7
    <2>4. QED
      BY <1>2, <1>3, <1>4, <2>1, <2>2, <2>3
  <1>8. CASE ends # {} /\ missing # {}
    <2> DEFINE g == Greatest(ends)
               d == Least(missing)
    <2>1. g \in ends /\ \A e \in ends : e <= g
      BY <1>2, <1>5, <1>8, GreatestOfInts
    <2>2. g \in Int /\ Day(g) \in Int /\ Limit \in Nat \ {0}
      BY <1>5, <2>1, DayOf, ConstantsAssumption
    <2> HIDE DEF ends, g
    <2>3. /\ low \in {Day(g) + 1, Day(latest) - (Limit - 1)} /\ low \in Int
          /\ low >= Day(g) + 1 /\ low >= Day(latest) - (Limit - 1)
      <3>1. Day(g) + 1 \in Int /\ Day(latest) - (Limit - 1) \in Int
        BY <1>2, <2>2
      <3>2. low = Greatest({Day(g) + 1, Day(latest) - (Limit - 1)})
        BY DEF g
      <3>3. QED
        BY <3>1, <3>2, GreatestOfTwo
    <2> HIDE DEF low
    <2>4. missing = {x \in low..Day(latest) : ~Succeeded(CutoffOf(x))}
      OBVIOUS
    <2>5. missing \in SUBSET Int /\ \A x \in missing : low <= x /\ x <= Day(now)
      BY <1>2, <2>3, <2>4
    <2> HIDE DEF missing
    <2>6. d \in missing /\ \A x \in missing : d <= x
      BY <1>8, <2>3, <2>5, LeastOfInts
    <2>7. d \in Int /\ low <= d /\ d <= Day(now) /\ ~Succeeded(CutoffOf(d))
      BY <2>4, <2>5, <2>6
    <2>8. Missing = CutoffOf(d)
      BY <1>3, <1>6, <1>8
    <2> HIDE DEF d
    <2>9. CutoffOf(d) \in Cutoffs /\ CutoffOf(d) <= now
      <3>1. CutoffOf(d) <= latest
        BY <1>1, <1>2, <2>7, DaysInOrder
      <3>2. d >= 0 - Limit
        BY <1>2, <2>2, <2>3, <2>7
      <3>3. d * Slots >= (0 - Limit) * Slots /\ (0 - Limit) * Slots = 0 - Limit * Slots
            /\ d * Slots \in Int /\ Limit * Slots \in Int
        BY <2>2, <2>7, <3>2, ConstantsAssumption
      <3>4. CutoffOf(d) \in Int /\ CutoffOf(d) >= 0 - Limit * Slots
        BY <1>1, <2>7, <3>3, ConstantsAssumption DEF CutoffOf
      <3>5. QED
        BY <1>1, <1>2, <1>3, <3>1, <3>3, <3>4, ConstantsAssumption DEF Cutoffs
    <2>10. ASSUME NEW c \in Int, Day(g) < c, c < d, c > Day(now) - Limit
           PROVE  Succeeded(CutoffOf(c))
      <3>1. c >= low /\ c <= Day(latest) /\ c \notin missing
        BY <1>2, <2>2, <2>3, <2>6, <2>7, <2>10
      <3>2. QED
        BY <2>3, <2>4, <3>1
    <2>11. g \in Ends /\ g <= latest /\ \A e \in Ends : e <= latest => e <= g
      BY <1>5, <2>1
    <2>12. ~(\A e \in Ends : latest < e)
      BY <1>2, <2>2, <2>11
    <2>13. Day(g) < d
      BY <2>2, <2>3, <2>7
    <2>14. QED
      BY <2>7, <2>8, <2>9, <2>10, <2>11, <2>12, <2>13
  <1>9. QED
    BY <1>3, <1>6, <1>7, <1>8

------------------------------------------------------------------------------
\* Types.

LEMMA InitTypes ==
    Init => TypeOK
  <1> SUFFICES ASSUME Init PROVE TypeOK
    OBVIOUS
  <1>1. 0 \in 0..MaxTime /\ 0 \in 0..MaxRestarts /\ 0 \in 0..MaxFaults
    BY ConstantsAssumption, HistoryAssumption
  <1>2. HistoryTypeOK
    <2>1. /\ served = Peers /\ selected = Peers /\ blocked = FALSE
          /\ task = [p \in Peers |-> "none"] /\ below = [p \in Dialogs |-> 0]
          /\ rows = {} /\ orphans = {} /\ lost = {} /\ faults = 0
      BY DEF Init, HistoryInit
    <2>2. task \in [Peers -> Tasks]
      BY <2>1 DEF Tasks
    <2>3. below \in [Dialogs -> Int]
      BY <2>1
    <2>4. rows \subseteq Dialogs \X Nat
      BY <2>1
    <2>5. QED
      BY <1>1, <2>1, <2>2, <2>3, <2>4 DEF HistoryTypeOK
  <1>3. QED
    <2>1. now = 0 /\ digestTime \in DigestTimes /\ records = {} /\ permanent = {}
      BY DEF Init
    <2>2. /\ phase = [j \in Jobs |-> "idle"] /\ target = [j \in Jobs |-> None]
          /\ lock = None /\ held = 0 /\ restarts = 0
      BY DEF Init
    <2>3. phase \in [Jobs -> Phases] /\ target \in [Jobs -> Cutoffs \cup {None}]
      BY <2>2 DEF Phases
    <2>4. \A j \in Jobs : phase[j] = "idle" /\ target[j] = None
      BY <2>2
    <2>5. QED
      BY <1>1, <1>2, <2>1, <2>2, <2>3, <2>4 DEF TypeOK

\* A step of the jobs that leaves the rest of the types alone.
JobTypes ==
    /\ phase \in [Jobs -> Phases]
    /\ target \in [Jobs -> Cutoffs \cup {None}]
    /\ \A j \in Jobs : phase[j] = "idle" <=> target[j] = None
    /\ lock \in Jobs \cup {None}
    /\ held \in 0..MaxTime
    /\ \A j \in Jobs : Holds(j) => lock = j

RecordTypes ==
    \A r \in records :
      /\ r.start \in Int /\ r.end \in Cutoffs
      /\ r.rows \subseteq Dialogs \X Nat /\ r.lost \subseteq Peers

LEMMA TypeParts ==
    TypeOK <=> /\ now \in 0..MaxTime /\ digestTime \in DigestTimes /\ HistoryTypeOK
               /\ RecordTypes /\ permanent \subseteq Cutoffs /\ JobTypes
               /\ restarts \in 0..MaxRestarts
  BY DEF TypeOK, RecordTypes, JobTypes, Holds

LEMMA TypePartsNext ==
    TypeOK' <=> (/\ now \in 0..MaxTime /\ digestTime \in DigestTimes /\ HistoryTypeOK
                 /\ RecordTypes /\ permanent \subseteq Cutoffs /\ JobTypes
                 /\ restarts \in 0..MaxRestarts)'
  BY TypeParts, PTL

LEMMA ReleaseFacts ==
    ASSUME JobTypes, NEW j \in Jobs, Idle(j)
    PROVE  /\ phase'[j] = "idle" /\ target'[j] = None
           /\ \A i \in Jobs \ {j} :
                /\ target'[i] = target[i]
                /\ phase'[i] = IF phase[i] = "waiting" THEN "woken" ELSE phase[i]
           /\ \A i \in Jobs : phase'[i] \in Phases /\ target'[i] \in Cutoffs \cup {None}
           /\ phase' = [i \in Jobs |-> phase'[i]] /\ target' = [i \in Jobs |-> target'[i]]
  <1>1. /\ phase' = [i \in Jobs |-> IF i = j THEN "idle"
                                    ELSE IF phase[i] = "waiting" THEN "woken"
                                    ELSE phase[i]]
        /\ target' = [target EXCEPT ![j] = None]
    BY DEF Idle
  <1>2. target \in [Jobs -> Cutoffs \cup {None}] /\ phase \in [Jobs -> Phases]
    BY DEF JobTypes
  <1>3. QED
    BY <1>1, <1>2 DEF Phases

\* Every step of a pass and of Telegram keeps the types of DigestHistory.
LEMMA FaultTypes ==
    ASSUME HistoryTypeOK, Fault
    PROVE  faults' \in 0..MaxFaults
  BY HistoryAssumption DEF HistoryTypeOK, Fault

LEMMA RefuseTypes ==
    ASSUME HistoryTypeOK, Refuse
    PROVE  faults' \in 0..MaxFaults /\ blocked' \in BOOLEAN
  <1>1. CASE Fault /\ blocked' \in {TRUE, blocked}
    BY <1>1, FaultTypes DEF HistoryTypeOK
  <1>2. CASE blocked /\ UNCHANGED <<blocked, faults>>
    BY <1>2 DEF HistoryTypeOK
  <1>3. QED
    BY <1>1, <1>2 DEF Refuse

LEMMA ForgetTypes ==
    ASSUME Forget
    PROVE  /\ task' \in [Peers -> Tasks] /\ below' \in [Dialogs -> Int]
           /\ rows' \subseteq Dialogs \X Nat /\ lost' \subseteq Peers
           /\ rows' = {} /\ lost' = {} /\ \A p \in Peers : task'[p] = "none"
  <1>1. /\ task' = [p \in Peers |-> "none"] /\ below' = [p \in Dialogs |-> 0]
        /\ rows' = {} /\ lost' = {}
    BY DEF Forget
  <1>2. task' \in [Peers -> Tasks]
    BY <1>1 DEF Tasks
  <1>3. QED
    BY <1>1, <1>2

LEMMA ListTypes ==
    ASSUME HistoryTypeOK, NEW end \in Int, ListDialogs(end)
    PROVE  HistoryTypeOK'
  <1>1. PICK marked \in SUBSET (Dialogs \ served) :
          /\ task' = [p \in Peers |-> IF p \in marked THEN "gone"
                                      ELSE IF p \in Dialogs \cup selected THEN "running"
                                      ELSE "none"]
          /\ below' = [p \in Dialogs |-> end + 1]
          /\ selected' = selected \ marked
          /\ rows' = {}
          /\ lost' = Peers \ served
          /\ UNCHANGED <<served, blocked, orphans, faults>>
    BY Zenon DEF ListDialogs
  <1>2. task' \in [Peers -> Tasks]
    BY <1>1 DEF Tasks
  <1>3. below' \in [Dialogs -> Int]
    BY <1>1
  <1>4. rows' \subseteq Dialogs \X Nat
    BY <1>1
  <1>5. QED
    BY <1>1, <1>2, <1>3, <1>4 DEF HistoryTypeOK

LEMMA FetchTypes ==
    ASSUME HistoryTypeOK, NEW p \in Peers, NEW start \in Int, NEW end \in Int,
           FetchPage(p, start, end)
    PROVE  HistoryTypeOK'
  <1>1. /\ p \in Dialogs
        /\ rows' = rows \cup {<<p, i>> : i \in {m \in Page(p) : start < m /\ m <= end}}
        /\ \/ task' = [task EXCEPT ![p] = "done"] /\ below' = below
           \/ task' = task /\ below' = [below EXCEPT ![p] = below[p] - PageSize]
        /\ UNCHANGED <<served, selected, blocked, orphans, lost, faults>>
    BY Zenon DEF FetchPage
  <1>2. Page(p) \subseteq Nat /\ below[p] \in Int /\ PageSize \in Int
    BY <1>1, HistoryAssumption DEF Page, HistoryTypeOK
  <1>3. rows' \subseteq Dialogs \X Nat
    <2>1. ASSUME NEW i \in {m \in Page(p) : start < m /\ m <= end}
          PROVE  <<p, i>> \in Dialogs \X Nat
      BY <1>1, <1>2
    <2>2. QED
      BY <1>1, <2>1 DEF HistoryTypeOK
  <1>4. task' \in [Peers -> Tasks] /\ below' \in [Dialogs -> Int]
    <2>1. CASE task' = [task EXCEPT ![p] = "done"] /\ below' = below
      BY <2>1 DEF HistoryTypeOK, Tasks
    <2>2. CASE task' = task /\ below' = [below EXCEPT ![p] = below[p] - PageSize]
      <3>1. below[p] - PageSize \in Int
        BY <1>2
      <3>2. QED
        BY <2>2, <3>1 DEF HistoryTypeOK
    <2>3. QED
      BY <1>1, <2>1, <2>2
  <1>5. QED
    BY <1>1, <1>3, <1>4 DEF HistoryTypeOK

LEMMA TaskTypes ==
    ASSUME HistoryTypeOK, NEW p \in Peers,
           Probe(p) \/ PeerGone(p) \/ CallFails(p)
    PROVE  HistoryTypeOK'
  <1>1. /\ \E t \in Tasks : task' = [task EXCEPT ![p] = t]
        /\ selected' \subseteq selected
        /\ UNCHANGED <<served, below, rows, orphans, lost>>
    BY DEF Probe, PeerGone, CallFails, Tasks
  <1>2. task' \in [Peers -> Tasks]
    BY <1>1 DEF HistoryTypeOK
  <1>3. faults' \in 0..MaxFaults /\ blocked' \in BOOLEAN
    <2>1. CASE Probe(p) \/ PeerGone(p)
      BY <2>1 DEF Probe, PeerGone, HistoryTypeOK
    <2>2. CASE CallFails(p)
      BY <2>2, RefuseTypes DEF CallFails
    <2>3. QED
      BY <2>1, <2>2
  <1>4. QED
    BY <1>1, <1>2, <1>3 DEF HistoryTypeOK

LEMMA OutsideTypes ==
    ASSUME HistoryTypeOK, NEW p \in Peers,
           OrphanEnds(p) \/ Lose(p) \/ Regain(p) \/ Unblock
    PROVE  HistoryTypeOK'
  <1>1. CASE OrphanEnds(p)
    <2>1. /\ orphans' = orphans \ {p} /\ selected' \subseteq selected
          /\ UNCHANGED <<served, task, below, rows, lost>>
          /\ UNCHANGED <<blocked, faults>> \/ Refuse
      BY <1>1 DEF OrphanEnds
    <2>2. faults' \in 0..MaxFaults /\ blocked' \in BOOLEAN
      BY <2>1, RefuseTypes DEF HistoryTypeOK
    <2>3. QED
      BY <2>1, <2>2 DEF HistoryTypeOK
  <1>2. CASE Lose(p)
    BY <1>2, FaultTypes DEF Lose, HistoryTypeOK
  <1>3. CASE Regain(p)
    BY <1>3, FaultTypes DEF Regain, HistoryTypeOK
  <1>4. CASE Unblock
    BY <1>4 DEF Unblock, HistoryTypeOK
  <1>5. QED
    BY <1>1, <1>2, <1>3, <1>4

LEMMA EndTypes ==
    ASSUME HistoryTypeOK,
           \/ ListFails \/ PassFails
           \/ Forget /\ UNCHANGED <<served, selected, blocked, orphans, faults>>
    PROVE  HistoryTypeOK'
  <1>1. CASE ListFails
    BY <1>1, FaultTypes DEF ListFails, HistoryTypeOK
  <1>2. CASE PassFails
    <2>1. Running \subseteq Peers
      BY DEF Running
    <2>2. QED
      BY <1>2, <2>1, ForgetTypes DEF PassFails, HistoryTypeOK
  <1>3. CASE Forget /\ UNCHANGED <<served, selected, blocked, orphans, faults>>
    BY <1>3, ForgetTypes DEF HistoryTypeOK
  <1>4. QED
    BY <1>1, <1>2, <1>3

\* The day an active job is at.
LEMMA TargetOfActive ==
    ASSUME JobTypes, NEW j \in Jobs, Active(j)
    PROVE  target[j] \in Cutoffs /\ target[j] \in Int /\ Start(target[j]) \in Int
  BY ConstantsAssumption DEF JobTypes, Active, Cutoffs, Start

------------------------------------------------------------------------------
\* What a step does to the jobs.

\* One job has the lock or is about to have it.
OneAtATime ==
    /\ \A j \in Jobs : lock = j => Holds(j)
    /\ \A j \in Jobs : phase[j] = "woken" => lock = None
    /\ \A i, j \in Jobs : phase[i] = "woken" /\ phase[j] = "woken" => i = j

Whole == /\ phase' = [i \in Jobs |-> phase'[i]]
         /\ target' = [i \in Jobs |-> target'[i]]

\* The job that j is not.
Same(i) == phase'[i] = phase[i] /\ target'[i] = target[i]

\* Job j leaves the lock, or gives up waiting for it.
Leaves(j) ==
    /\ Whole
    /\ phase'[j] = "idle" /\ target'[j] = None
    /\ \A i \in Jobs \ {j} :
         /\ target'[i] = target[i]
         /\ phase'[i] = IF phase[i] = "waiting" THEN "woken" ELSE phase[i]
    /\ lock' = None /\ held' = held

\* Job j is at day c and has the lock now.
Enters(j, c) ==
    /\ Whole
    /\ phase'[j] = "dialogs" /\ target'[j] = c
    /\ \A i \in Jobs \ {j} : Same(i)
    /\ lock = None /\ lock' = j /\ held' = now
    /\ \A i \in Jobs \ {j} : phase[i] # "woken"

\* Job j waits for the lock with day c.
Joins(j, c) ==
    /\ Whole
    /\ phase[j] = "idle" /\ phase'[j] = "waiting" /\ target'[j] = c
    /\ \A i \in Jobs \ {j} : Same(i)
    /\ lock' = lock /\ held' = held
    /\ lock # None \/ \E i \in Jobs \ {j} : Queued(i)

\* Job j has the lock and goes on to f.
Moves(j, f) ==
    /\ Whole
    /\ Holds(j) /\ phase'[j] = f /\ target'[j] = target[j]
    /\ \A i \in Jobs \ {j} : Same(i)
    /\ lock' = lock /\ held' = held

LEMMA ReconcileFacts ==
    ASSUME TypeOK, OneAtATime, NEW j \in Jobs, Reconcile(j)
    PROVE  /\ Missing \in Cutoffs /\ phase[j] = "idle"
           /\ \/ Enters(j, Missing) /\ \A i \in Jobs : ~Queued(i)
              \/ Joins(j, Missing)
           /\ UNCHANGED <<now, digestTime, records, permanent, restarts, history>>
  <1>1. /\ phase[j] = "idle" /\ Missing # None
        /\ target' = [target EXCEPT ![j] = Missing]
        /\ \/ lock = None /\ (\A i \in Jobs : ~Queued(i)) /\ Acquire(j)
           \/ /\ ~(lock = None /\ \A i \in Jobs : ~Queued(i))
              /\ UNCHANGED <<lock, held>> /\ phase' = [phase EXCEPT ![j] = "waiting"]
        /\ UNCHANGED <<now, digestTime, records, permanent, restarts, history>>
    BY DEF Reconcile
  <1>2. Missing \in Cutoffs
    BY <1>1, MissingDay
  <1>3. target \in [Jobs -> Cutoffs \cup {None}] /\ phase \in [Jobs -> Phases]
    BY DEF TypeOK
  <1>4. PICK m : m = Missing
    OBVIOUS
  <1>5. /\ target'[j] = m /\ \A i \in Jobs \ {j} : target'[i] = target[i]
        /\ target' = [i \in Jobs |-> target'[i]]
    BY <1>1, <1>3, <1>4
  <1>6. CASE lock = None /\ (\A i \in Jobs : ~Queued(i)) /\ Acquire(j)
    <2>1. /\ phase' = [phase EXCEPT ![j] = "dialogs"] /\ lock' = j /\ held' = now
          /\ \A i \in Jobs \ {j} : phase[i] # "woken"
      BY <1>6 DEF Acquire, Queued
    <2>2. /\ phase'[j] = "dialogs" /\ \A i \in Jobs \ {j} : phase'[i] = phase[i]
          /\ phase' = [i \in Jobs |-> phase'[i]]
      BY <1>3, <2>1
    <2>3. QED
      BY <1>1, <1>2, <1>4, <1>5, <1>6, <2>1, <2>2 DEF Enters, Same, Whole
  <1>7. CASE /\ ~(lock = None /\ \A i \in Jobs : ~Queued(i))
             /\ UNCHANGED <<lock, held>> /\ phase' = [phase EXCEPT ![j] = "waiting"]
    <2>1. /\ phase'[j] = "waiting" /\ \A i \in Jobs \ {j} : phase'[i] = phase[i]
          /\ phase' = [i \in Jobs |-> phase'[i]]
      BY <1>3, <1>7
    <2>2. lock # None \/ \E i \in Jobs \ {j} : Queued(i)
      BY <1>1, <1>7 DEF Queued
    <2>3. QED
      BY <1>1, <1>2, <1>4, <1>5, <1>7, <2>1, <2>2 DEF Joins, Same, Whole
  <1>8. QED
    BY <1>1, <1>6, <1>7

LEMMA LeaveFacts ==
    ASSUME TypeOK, NEW j \in Jobs, Idle(j), lock' = None, UNCHANGED held
    PROVE  Leaves(j)
  <1>1. JobTypes
    BY TypeParts
  <1>2. QED
    BY <1>1, ReleaseFacts DEF Leaves, Whole

LEMMA WakeFacts ==
    ASSUME TypeOK, OneAtATime, NEW j \in Jobs, Wake(j)
    PROVE  /\ phase[j] = "woken" /\ lock = None
           /\ \/ Leaves(j) /\ (Succeeded(target[j]) \/ target[j] \in permanent)
              \/ Enters(j, target[j]) /\ ~Succeeded(target[j])
           /\ UNCHANGED <<now, digestTime, records, permanent, restarts, history>>
  <1>1. /\ phase[j] = "woken"
        /\ \/ /\ Succeeded(target[j]) \/ target[j] \in permanent
              /\ Idle(j) /\ UNCHANGED <<lock, held>>
           \/ ~Succeeded(target[j]) /\ Acquire(j) /\ UNCHANGED target
        /\ UNCHANGED <<now, digestTime, records, permanent, restarts, history>>
    BY DEF Wake
  <1>2. lock = None /\ \A i \in Jobs \ {j} : phase[i] # "woken"
    BY <1>1 DEF OneAtATime
  <1>3. CASE /\ Succeeded(target[j]) \/ target[j] \in permanent
             /\ Idle(j) /\ UNCHANGED <<lock, held>>
    BY <1>1, <1>2, <1>3, LeaveFacts
  <1>4. CASE ~Succeeded(target[j]) /\ Acquire(j) /\ UNCHANGED target
    <2>1. /\ phase' = [phase EXCEPT ![j] = "dialogs"] /\ lock' = j /\ held' = now
          /\ phase \in [Jobs -> Phases]
      BY <1>4 DEF Acquire, TypeOK
    <2>2. /\ phase'[j] = "dialogs" /\ \A i \in Jobs \ {j} : phase'[i] = phase[i]
          /\ phase' = [i \in Jobs |-> phase'[i]]
          /\ target \in [Jobs -> Cutoffs \cup {None}]
      BY <2>1 DEF TypeOK
    <2>3. QED
      BY <1>1, <1>2, <1>4, <2>1, <2>2 DEF Enters, Same, Whole
  <1>5. QED
    BY <1>1, <1>3, <1>4

LEMMA MoveFacts ==
    ASSUME TypeOK, NEW j \in Jobs, Holds(j), NEW f \in Phases,
           phase' = [phase EXCEPT ![j] = f], UNCHANGED <<target, lock, held>>
    PROVE  Moves(j, f)
  <1>1. phase \in [Jobs -> Phases] /\ target \in [Jobs -> Cutoffs \cup {None}]
    BY DEF TypeOK
  <1>2. QED
    BY <1>1 DEF Moves, Same, Whole

\* The step of a job keeps the types of the jobs, and one at a time.
JobStep(c) ==
    \E j \in Jobs : \/ Enters(j, c) \/ Joins(j, c)
                    \/ phase[j] # "idle" /\ Enters(j, target[j])
                    \/ Leaves(j) /\ (Holds(j) \/ phase[j] = "woken")
                    \/ Moves(j, "rows") \/ Moves(j, "generating")

LEMMA JobStepKeeps ==
    ASSUME JobTypes, OneAtATime, now \in 0..MaxTime, NEW c \in Cutoffs, JobStep(c)
    PROVE  JobTypes' /\ OneAtATime'
  <1> USE DEF Holds
  <1>1. PICK j \in Jobs : \/ Enters(j, c) \/ Joins(j, c)
                          \/ phase[j] # "idle" /\ Enters(j, target[j])
                          \/ Leaves(j) /\ (Holds(j) \/ phase[j] = "woken")
                          \/ Moves(j, "rows") \/ Moves(j, "generating")
    BY DEF JobStep
  <1>2. \A i \in Jobs : i = "exact" \/ i = "reconciliation"
    BY DEF Jobs
  <1>3. None \notin Jobs /\ None \notin Cutoffs
    BY ConstantsAssumption DEF Cutoffs
  <1>4. ASSUME NEW i \in Jobs
        PROVE  /\ phase'[i] \in Phases /\ target'[i] \in Cutoffs \cup {None}
               /\ phase'[i] = "idle" <=> target'[i] = None
    <2>1. /\ phase[i] \in Phases /\ target[i] \in Cutoffs \cup {None}
          /\ phase[i] = "idle" <=> target[i] = None
          /\ phase[j] \in Phases /\ target[j] \in Cutoffs \cup {None}
          /\ phase[j] = "idle" <=> target[j] = None
      BY DEF JobTypes
    <2>2. CASE i = j
      BY <1>1, <1>3, <2>1, <2>2 DEF Enters, Joins, Leaves, Moves, Phases
    <2>3. CASE i # j
      BY <1>1, <1>3, <2>1, <2>3 DEF Enters, Joins, Leaves, Moves, Same, Phases
    <2>4. QED
      BY <2>2, <2>3
  <1>5. lock' \in Jobs \cup {None} /\ held' \in 0..MaxTime
    BY <1>1 DEF Enters, Joins, Leaves, Moves, JobTypes
  <1>6. ASSUME NEW i \in Jobs PROVE lock' = i <=> Holds(i)'
    <2>1. (lock = i <=> Holds(i)) /\ (lock = j <=> Holds(j))
      BY DEF JobTypes, OneAtATime
    <2>2. CASE i = j
      BY <1>1, <1>3, <2>1, <2>2 DEF Enters, Joins, Leaves, Moves
    <2>3. CASE i # j
      BY <1>1, <1>3, <2>1, <2>3 DEF Enters, Joins, Leaves, Moves, Same, OneAtATime
    <2>4. QED
      BY <2>2, <2>3
  <1>7. ASSUME NEW i \in Jobs, phase'[i] = "woken" PROVE lock' = None
    BY <1>1, <1>7 DEF Enters, Joins, Leaves, Moves, Same, OneAtATime
  <1>8. ASSUME NEW i \in Jobs, NEW k \in Jobs, phase'[i] = "woken", phase'[k] = "woken"
        PROVE  i = k
    <2>1. CASE Leaves(j)
      BY <1>2, <1>8, <2>1 DEF Leaves
    <2>2. CASE ~Leaves(j)
      BY <1>1, <1>8, <2>2 DEF Enters, Joins, Moves, Same, OneAtATime
    <2>3. QED
      BY <2>1, <2>2
  <1>9. phase' \in [Jobs -> Phases] /\ target' \in [Jobs -> Cutoffs \cup {None}]
    <2>1. Whole
      BY <1>1 DEF Enters, Joins, Leaves, Moves
    <2>2. QED
      BY <1>4, <2>1 DEF Whole
  <1>10. QED
    <2>1. JobTypes'
      BY <1>4, <1>5, <1>6, <1>9 DEF JobTypes, Cutoffs
    <2>2. OneAtATime'
      BY <1>6, <1>7, <1>8 DEF OneAtATime
    <2>3. QED
      BY <2>1, <2>2

LEMMA TypesKept ==
    TypeOK /\ OneAtATime /\ [Next]_vars => TypeOK' /\ OneAtATime'
  <1> SUFFICES ASSUME TypeOK, OneAtATime, [Next]_vars PROVE TypeOK' /\ OneAtATime'
    OBVIOUS
  <1>1. /\ now \in 0..MaxTime /\ digestTime \in DigestTimes /\ HistoryTypeOK
        /\ RecordTypes /\ permanent \subseteq Cutoffs /\ JobTypes
        /\ restarts \in 0..MaxRestarts
    BY TypeParts
  <1> DEFINE New == /\ now' \in 0..MaxTime /\ digestTime' \in DigestTimes
                    /\ HistoryTypeOK' /\ RecordTypes' /\ permanent' \subseteq Cutoffs
                    /\ JobTypes' /\ restarts' \in 0..MaxRestarts /\ OneAtATime'
  <1>2. SUFFICES New
    BY TypePartsNext DEF Cutoffs
  <1> USE DEF rest
  <1>3. UNCHANGED records => RecordTypes'
    BY <1>1 DEF RecordTypes, Cutoffs
  <1>4. UNCHANGED job => JobTypes' /\ OneAtATime'
    BY <1>1 DEF job, JobTypes, OneAtATime, Holds, Cutoffs
  <1>5. UNCHANGED history => HistoryTypeOK'
    BY <1>1 DEF history, HistoryTypeOK
  <1>6. ASSUME NEW c \in Cutoffs, JobStep(c) PROVE JobTypes' /\ OneAtATime'
    BY <1>1, <1>6, JobStepKeeps
  <1>7. 0 \in Cutoffs
    BY ConstantsAssumption DEF Cutoffs
  <1>8. ASSUME NEW j \in Jobs, Reconcile(j) PROVE New
    <2>1. Missing \in Cutoffs /\ (Enters(j, Missing) \/ Joins(j, Missing))
      BY <1>8, ReconcileFacts
    <2>2. JobStep(Missing)
      BY <2>1 DEF JobStep
    <2>3. QED
      BY <1>1, <1>3, <1>5, <1>6, <1>8, <2>1, <2>2 DEF Reconcile
  <1>9. ASSUME NEW j \in Jobs, Wake(j) PROVE New
    <2>1. JobStep(0)
      BY <1>9, WakeFacts DEF JobStep
    <2>2. QED
      BY <1>1, <1>3, <1>5, <1>6, <1>7, <1>9, <2>1 DEF Wake
  <1>10. ASSUME NEW j \in Jobs, Holds(j) PROVE Active(j)
    BY <1>10 DEF Holds, Active
  <1>11. ASSUME NEW j \in Jobs, List(j) PROVE New
    <2>1. Moves(j, "rows") /\ Holds(j)
      BY <1>11, MoveFacts DEF List, Holds, Phases
    <2>2. JobStep(0)
      BY <2>1 DEF JobStep
    <2>3. target[j] \in Int
      BY <1>1, <1>10, <2>1, TargetOfActive
    <2>4. HistoryTypeOK'
      BY <1>1, <1>11, <2>3, ListTypes DEF List
    <2>5. QED
      BY <1>1, <1>3, <1>6, <1>7, <1>11, <2>2, <2>4 DEF List
  <1>12. ASSUME NEW j \in Jobs, Fetch(j) \/ Refused(j) PROVE New
    <2>1. Holds(j)
      BY <1>12 DEF Fetch, Refused, Holds
    <2>2. target[j] \in Int /\ Start(target[j]) \in Int
      BY <1>1, <1>10, <2>1, TargetOfActive
    <2>3. HistoryTypeOK'
      BY <1>1, <1>12, <2>2, FetchTypes, TaskTypes DEF Fetch, Refused
    <2>4. QED
      BY <1>1, <1>3, <1>4, <1>12, <2>3 DEF Fetch, Refused
  <1>13. ASSUME NEW j \in Jobs, Rows(j) PROVE New
    <2>1. Moves(j, "generating") /\ Holds(j)
      BY <1>13, MoveFacts DEF Rows, Holds, Phases
    <2>2. JobStep(0)
      BY <2>1 DEF JobStep
    <2>3. QED
      BY <1>1, <1>3, <1>5, <1>6, <1>7, <1>13, <2>2 DEF Rows
  <1>14. ASSUME NEW j \in Jobs, HistoryFails(j) \/ Pending(j) \/ ModelRefuses(j) \/ Store(j)
         PROVE  New
    <2>1. Holds(j) /\ Release(j)
      BY <1>14 DEF HistoryFails, Pending, ModelRefuses, Store, Holds
    <2>2. Leaves(j)
      BY <2>1, LeaveFacts DEF Release
    <2>3. JobTypes' /\ OneAtATime'
      BY <1>6, <1>7, <2>1, <2>2 DEF JobStep
    <2>4. HistoryTypeOK'
      BY <1>1, <1>14, EndTypes DEF HistoryFails, Pending, ModelRefuses, Store
    <2>5. target[j] \in Cutoffs /\ Start(target[j]) \in Int
      BY <1>1, <1>10, <2>1, TargetOfActive
    <2>6. CASE HistoryFails(j) \/ Pending(j)
      BY <1>1, <1>3, <2>3, <2>4, <2>6 DEF HistoryFails, Pending
    <2>7. CASE ModelRefuses(j)
      BY <1>1, <1>3, <2>3, <2>4, <2>5, <2>7 DEF ModelRefuses
    <2>8. CASE Store(j)
      <3>1. /\ records' = records \cup {[start |-> Start(target[j]), end |-> target[j],
                                         rows |-> rows, lost |-> lost]}
            /\ UNCHANGED <<now, digestTime, permanent, restarts>>
        BY <2>8 DEF Store
      <3>2. rows \subseteq Dialogs \X Nat /\ lost \subseteq Peers
        BY <1>1 DEF HistoryTypeOK
      <3>3. RecordTypes'
        BY <1>1, <2>5, <3>1, <3>2 DEF RecordTypes, Cutoffs
      <3>4. QED
        BY <1>1, <2>3, <2>4, <3>1, <3>3
    <2>9. QED
      BY <1>14, <2>6, <2>7, <2>8
  <1>15. CASE Telegram
    <2>1. HistoryTypeOK'
      BY <1>1, <1>15, OutsideTypes DEF Telegram
    <2>2. QED
      BY <1>1, <1>3, <1>4, <1>15, <2>1 DEF Telegram
  <1>16. CASE BlockEnds
    <2>1. HistoryTypeOK'
      BY <1>1, <1>16 DEF BlockEnds, Unblock, HistoryTypeOK
    <2>2. QED
      BY <1>1, <1>3, <1>4, <1>16, <2>1 DEF BlockEnds
  <1>17. CASE Restart
    <2>1. /\ restarts' = restarts + 1 /\ restarts < MaxRestarts
          /\ digestTime' \in DigestTimes /\ permanent' = {}
          /\ phase' = [j \in Jobs |-> "idle"] /\ target' = [j \in Jobs |-> None]
          /\ lock' = None /\ Forget /\ orphans' = {} /\ blocked' = FALSE
          /\ UNCHANGED <<now, records, held, served, selected, faults>>
      BY <1>17 DEF Restart
    <2>2. HistoryTypeOK'
      BY <1>1, <2>1, ForgetTypes DEF HistoryTypeOK
    <2>3. JobTypes'
      <3>1. phase' \in [Jobs -> Phases] /\ target' \in [Jobs -> Cutoffs \cup {None}]
        BY <2>1 DEF Phases
      <3>2. \A j \in Jobs : phase'[j] = "idle" /\ target'[j] = None
        BY <2>1
      <3>3. QED
        BY <1>1, <2>1, <3>1, <3>2 DEF JobTypes, Holds, Cutoffs
    <2>4. OneAtATime'
      <3>1. \A j \in Jobs : phase'[j] = "idle" /\ lock' # j
        BY <2>1, ConstantsAssumption
      <3>2. QED
        BY <3>1 DEF OneAtATime
    <2>5. restarts' \in 0..MaxRestarts
      BY <1>1, <2>1, ConstantsAssumption
    <2>6. QED
      BY <1>1, <1>3, <2>1, <2>2, <2>3, <2>4, <2>5
  <1>18. CASE Tick
    <2>1. now' = now + 1 /\ now < MaxTime
          /\ UNCHANGED <<digestTime, records, permanent, job, restarts, history>>
      BY <1>18 DEF Tick
    <2>2. now' \in 0..MaxTime
      BY <1>1, <2>1, ConstantsAssumption
    <2>3. QED
      BY <1>1, <1>3, <1>4, <1>5, <2>1, <2>2
  <1>19. CASE UNCHANGED vars
    BY <1>1, <1>3, <1>4, <1>5, <1>19 DEF vars, job
  <1>20. QED
    BY <1>8, <1>9, <1>11, <1>12, <1>13, <1>14, <1>15, <1>16, <1>17, <1>18, <1>19 DEF Next

LEMMA TypesAtInit ==
    Init => TypeOK /\ OneAtATime
  <1> SUFFICES ASSUME Init PROVE OneAtATime
    BY InitTypes
  <1>1. lock = None /\ \A j \in Jobs : phase[j] = "idle"
    BY DEF Init
  <1>2. QED
    BY <1>1, ConstantsAssumption DEF OneAtATime

\* The variables keep their types, and the two jobs never hold the lock of digest.py both.
THEOREM TypeCorrect ==
    Spec => [](TypeOK /\ OneAtATime)
  <1>1. QED
    BY TypesAtInit, TypesKept, PTL DEF Spec

------------------------------------------------------------------------------
\* The days the jobs are at.

\* A job is at a day that is over; the one with the lock, at one without a digest.
Fresh ==
    /\ \A j \in Jobs : Active(j) => target[j] <= now
    /\ \A j \in Jobs : Holds(j) => ~Succeeded(target[j])

LEMMA OneHolder ==
    ASSUME TypeOK, NEW i \in Jobs, NEW j \in Jobs, Holds(i), Holds(j)
    PROVE  i = j
  BY DEF TypeOK, Holds

LEMMA FreshKept ==
    TypeOK /\ OneAtATime /\ Fresh /\ [Next]_vars => Fresh'
  <1> SUFFICES ASSUME TypeOK, OneAtATime, Fresh, [Next]_vars PROVE Fresh'
    OBVIOUS
  <1> USE DEF Active, Holds
  <1>1. now \in Int
    BY DEF TypeOK
  <1>2. ASSUME UNCHANGED job, UNCHANGED records, now' = now \/ now' = now + 1 PROVE Fresh'
    <2>1. phase' = phase /\ target' = target
      BY <1>2 DEF job
    <2>2. ASSUME NEW j \in Jobs, phase[j] # "idle" PROVE target[j] <= now'
      <3>1. target[j] \in Int /\ target[j] <= now
        BY <2>2, TypeParts, TargetOfActive DEF Fresh
      <3>2. QED
        BY <1>1, <1>2, <3>1
    <2>3. QED
      BY <1>2, <2>1, <2>2 DEF Fresh, Succeeded
  <1>3. ASSUME NEW j \in Jobs, Reconcile(j) PROVE Fresh'
    <2>1. /\ Enters(j, Missing) \/ Joins(j, Missing)
          /\ Missing # None /\ now' = now /\ records' = records
      BY <1>3, ReconcileFacts DEF Reconcile
    <2>2. Missing <= now /\ ~Succeeded(Missing)
      BY <2>1, MissingDay
    <2>3. PICK m : m = Missing
      OBVIOUS
    <2>4. ASSUME NEW i \in Jobs
          PROVE  /\ phase'[i] # "idle" => target'[i] <= now
                 /\ Holds(i)' => ~Succeeded(target'[i])
      <3>1. CASE i = j
        BY <2>1, <2>2, <3>1 DEF Enters, Joins
      <3>2. CASE i # j
        BY <2>1, <3>2 DEF Enters, Joins, Same, Fresh
      <3>3. QED
        BY <3>1, <3>2
    <2>5. QED
      BY <2>1, <2>4 DEF Fresh, Succeeded
  <1>4. ASSUME NEW j \in Jobs, Wake(j) PROVE Fresh'
    <2>1. /\ \/ Leaves(j)
             \/ Enters(j, target[j]) /\ ~Succeeded(target[j])
          /\ phase[j] = "woken" /\ now' = now /\ records' = records
      BY <1>4, WakeFacts
    <2>2. ASSUME NEW i \in Jobs
          PROVE  /\ phase'[i] # "idle" => target'[i] <= now
                 /\ Holds(i)' => ~Succeeded(target'[i])
      <3>1. CASE i = j
        BY <2>1, <3>1 DEF Enters, Leaves, Fresh
      <3>2. CASE i # j
        BY <2>1, <3>2 DEF Enters, Leaves, Same, Fresh
      <3>3. QED
        BY <3>1, <3>2
    <2>3. QED
      BY <2>1, <2>2 DEF Fresh, Succeeded
  <1>5. ASSUME NEW j \in Jobs, List(j) \/ Rows(j) PROVE Fresh'
    <2>1. /\ Moves(j, "rows") \/ Moves(j, "generating")
          /\ now' = now /\ records' = records
      <3>1. Holds(j)
        BY <1>5 DEF List, Rows
      <3>2. QED
        BY <1>5, <3>1, MoveFacts DEF List, Rows, Phases, rest
    <2>2. ASSUME NEW i \in Jobs
          PROVE  /\ phase'[i] # "idle" => target'[i] <= now
                 /\ Holds(i)' => ~Succeeded(target'[i])
      <3>1. CASE i = j
        BY <2>1, <3>1 DEF Moves, Fresh
      <3>2. CASE i # j
        BY <2>1, <3>2 DEF Moves, Same, Fresh
      <3>3. QED
        BY <3>1, <3>2
    <2>3. QED
      BY <2>1, <2>2 DEF Fresh, Succeeded
  <1>6. ASSUME NEW j \in Jobs, HistoryFails(j) \/ Pending(j) \/ ModelRefuses(j) \/ Store(j)
        PROVE  Fresh'
    <2>1. Holds(j) /\ Leaves(j) /\ now' = now
      <3>1. Release(j) /\ Holds(j) /\ now' = now
        BY <1>6 DEF HistoryFails, Pending, ModelRefuses, Store, rest
      <3>2. QED
        BY <3>1, LeaveFacts DEF Release
    <2>2. ASSUME NEW i \in Jobs
          PROVE  /\ phase'[i] # "idle" => target'[i] <= now
                 /\ ~Holds(i)'
      <3>1. CASE i = j
        BY <2>1, <3>1 DEF Leaves
      <3>2. CASE i # j
        <4>1. ~Holds(i)
          BY <2>1, <3>2, OneHolder
        <4>2. QED
          BY <2>1, <3>2, <4>1 DEF Leaves, Fresh
      <3>3. QED
        BY <3>1, <3>2
    <2>3. QED
      BY <2>1, <2>2 DEF Fresh
  <1>7. CASE Restart
    <2>1. \A j \in Jobs : phase'[j] = "idle"
      BY <1>7 DEF Restart
    <2>2. QED
      BY <2>1 DEF Fresh
  <1>8. ASSUME \/ \E j \in Jobs : Fetch(j) \/ Refused(j)
               \/ Telegram \/ BlockEnds \/ Tick \/ UNCHANGED vars
        PROVE  Fresh'
    BY <1>2, <1>8 DEF Fetch, Refused, Telegram, BlockEnds, Tick, rest, vars
  <1>9. QED
    BY <1>3, <1>4, <1>5, <1>6, <1>7, <1>8 DEF Next

------------------------------------------------------------------------------
\* What a pass has read.

\* Job j reads, or has read, the dialogs.
Reads(j) == phase[j] \in {"rows", "generating"}

\* Whoever is not served is known to be lost, every row is of the period, and each
\* dialog that was served all the time is complete above the page it is at.
Pass(j) ==
    /\ Peers \ served \subseteq lost
    /\ phase[j] = "generating" => Gathered
    /\ \A x \in rows : Start(target[j]) < x[2] /\ x[2] <= target[j]
    /\ \A p \in Dialogs \ lost :
         /\ task[p] \in {"running", "done", "refused"}
         /\ \A i \in 0..target[j] :
              Start(target[j]) < i /\ (task[p] = "done" \/ i >= below[p])
              => <<p, i>> \in rows

PassInv == \A j \in Jobs : Reads(j) => Pass(j)

\* A page is the messages just before the one the last page began with; it is the last
\* one only if it holds all that is left of the period.
LEMMA LastPage ==
    ASSUME HistoryTypeOK, NEW p \in Dialogs, NEW start \in Int, NEW i \in Nat,
           start < i, i < below[p]
    PROVE  /\ i >= below[p] - PageSize => i \in Page(p)
           /\ Cardinality(Page(p)) < PageSize \/ (\E k \in Page(p) : k <= start)
              => i \in Page(p)
  <1>1. below[p] \in Int /\ PageSize \in Nat \ {0}
    BY HistoryAssumption DEF HistoryTypeOK
  <1>2. i >= below[p] - PageSize => i \in Page(p)
    BY <1>1 DEF Page
  <1>3. CASE \E k \in Page(p) : k <= start
    BY <1>1, <1>2, <1>3 DEF Page
  <1>4. CASE Cardinality(Page(p)) < PageSize
    <2>1. CASE below[p] - PageSize < 0
      BY <1>1, <1>2, <2>1
    <2>2. CASE below[p] - PageSize >= 0
      <3>1. Page(p) = (below[p] - PageSize)..(below[p] - 1)
        BY <1>1, <2>2 DEF Page
      <3>2. Cardinality(Page(p)) = PageSize
        BY <1>1, <3>1, FS_Interval
      <3>3. QED
        BY <1>1, <1>4, <3>2
    <2>3. QED
      BY <1>1, <2>1, <2>2
  <1>5. QED
    BY <1>2, <1>3, <1>4

\* A page of a dialog leaves what was read complete above the next.
LEMMA FetchKeepsPass ==
    ASSUME TypeOK, NEW j \in Jobs, phase[j] = "rows", Pass(j), phase'[j] = phase[j],
           target'[j] = target[j], NEW q \in Peers,
           FetchPage(q, Start(target[j]), target[j])
    PROVE  Pass(j)'
  <1> DEFINE c == target[j]
  <1>1. c \in Int /\ Start(c) \in Int
    BY TypeParts, TargetOfActive DEF Active
  <1>2. HistoryTypeOK
    BY TypeParts
  <1>3. /\ q \in Dialogs /\ task[q] = "running"
        /\ rows' = rows \cup {<<q, i>> : i \in {m \in Page(q) : Start(c) < m /\ m <= c}}
        /\ \/ /\ Cardinality(Page(q)) < PageSize \/ \E i \in Page(q) : i <= Start(c)
              /\ task' = [task EXCEPT ![q] = "done"] /\ below' = below
           \/ task' = task /\ below' = [below EXCEPT ![q] = below[q] - PageSize]
        /\ UNCHANGED <<served, selected, blocked, orphans, lost, faults>>
    BY Zenon DEF FetchPage
  <1>4. \A x \in rows' : Start(c) < x[2] /\ x[2] <= c
    BY <1>3 DEF Pass
  <1>5. ASSUME NEW p \in Dialogs \ lost
        PROVE  /\ task'[p] \in {"running", "done", "refused"}
               /\ \A i \in 0..c :
                    Start(c) < i /\ (task'[p] = "done" \/ i >= below'[p])
                    => <<p, i>> \in rows'
    <2>1. /\ task[p] \in {"running", "done", "refused"}
          /\ \A i \in 0..c :
               Start(c) < i /\ (task[p] = "done" \/ i >= below[p]) => <<p, i>> \in rows
      BY DEF Pass
    <2>2. CASE p # q
      <3>1. task'[p] = task[p] /\ below'[p] = below[p]
        BY <1>2, <1>3, <2>2 DEF HistoryTypeOK, Peers
      <3>2. QED
        BY <1>3, <2>1, <3>1
    <2>3. CASE p = q
      <3>1. task'[p] \in {"running", "done", "refused"}
        BY <1>2, <1>3, <2>3 DEF HistoryTypeOK, Peers
      <3>2. ASSUME NEW i \in 0..c, Start(c) < i, task'[p] = "done" \/ i >= below'[p]
            PROVE  <<p, i>> \in rows'
        <4>1. i \in Nat /\ below[p] \in Int /\ i <= c
          BY <1>1, <1>2 DEF HistoryTypeOK
        <4>2. CASE i >= below[p]
          BY <1>3, <2>1, <3>2, <4>2
        <4>3. CASE i < below[p]
          <5>1. i \in Page(p)
            <6>1. CASE Cardinality(Page(q)) < PageSize \/ \E k \in Page(q) : k <= Start(c)
              BY <1>1, <1>2, <2>3, <3>2, <4>1, <4>3, <6>1, LastPage
            <6>2. CASE task' = task /\ below' = [below EXCEPT ![q] = below[q] - PageSize]
              <7>1. task'[p] # "done" /\ below'[p] = below[p] - PageSize
                BY <1>2, <1>3, <2>3, <6>2 DEF HistoryTypeOK
              <7>2. QED
                BY <1>1, <1>2, <3>2, <4>1, <4>3, <7>1, LastPage
            <6>3. QED
              BY <1>3, <6>1, <6>2
          <5>2. QED
            BY <1>3, <2>3, <3>2, <4>1, <5>1
        <4>4. QED
          BY <4>1, <4>2, <4>3
      <3>3. QED
        BY <3>1, <3>2
    <2>4. QED
      BY <2>2, <2>3
  <1>6. QED
    BY <1>3, <1>4, <1>5 DEF Pass

LEMMA PassKept ==
    TypeOK /\ OneAtATime /\ PassInv /\ [Next]_vars => PassInv'
  <1> SUFFICES ASSUME TypeOK, OneAtATime, PassInv, [Next]_vars,
                      NEW j \in Jobs, Reads(j)'
               PROVE  Pass(j)'
    BY DEF PassInv
  <1>1. ASSUME Reads(j), phase'[j] = phase[j], target'[j] = target[j],
               UNCHANGED <<task, below, rows>>,
               \/ UNCHANGED <<served, lost>>
               \/ \E p \in Peers : served' = served \ {p} /\ lost' = lost \cup {p}
               \/ \E p \in Peers : served' = served \cup {p} /\ lost' = lost
        PROVE  Pass(j)'
    <2>1. Pass(j)
      BY <1>1 DEF PassInv
    <2>2. Peers \ served' \subseteq lost' /\ lost \subseteq lost'
      BY <1>1, <2>1 DEF Pass
    <2>3. Gathered' = Gathered
      BY <1>1 DEF Gathered
    <2>4. QED
      BY <1>1, <2>1, <2>2, <2>3 DEF Pass
  <1>2. ASSUME Holds(j), NEW i \in Jobs, Holds(i) PROVE i = j
    BY <1>2, OneHolder
  <1>3. ASSUME NEW i \in Jobs, Reconcile(i) \/ Wake(i) PROVE Pass(j)'
    <2>1. /\ \/ Enters(i, Missing) \/ Joins(i, Missing) \/ Enters(i, target[i])
             \/ Leaves(i)
          /\ UNCHANGED history
      BY <1>3, ReconcileFacts, WakeFacts
    <2>2. i # j /\ phase'[j] = phase[j] /\ target'[j] = target[j] /\ Reads(j)
      BY <2>1 DEF Enters, Joins, Leaves, Same, Reads
    <2>3. QED
      BY <1>1, <2>1, <2>2 DEF history
  <1>4. ASSUME NEW i \in Jobs, List(i) PROVE Pass(j)'
    <2>1. Moves(i, "rows") /\ Holds(i)
      BY <1>4, MoveFacts DEF List, Holds, Phases
    <2>2. i = j
      <3>1. CASE i # j
        BY <2>1, <3>1, OneHolder DEF Moves, Same, Reads, Holds
      <3>2. QED
        BY <3>1
    <2>3. target'[j] = target[j] /\ phase'[j] = "rows" /\ target[j] \in Int
      BY <2>1, <2>2, TypeParts, TargetOfActive DEF Moves, Active, Holds
    <2>4. PICK marked \in SUBSET (Dialogs \ served) :
            /\ task' = [p \in Peers |-> IF p \in marked THEN "gone"
                                        ELSE IF p \in Dialogs \cup selected THEN "running"
                                        ELSE "none"]
            /\ below' = [p \in Dialogs |-> target[j] + 1]
            /\ rows' = {} /\ lost' = Peers \ served /\ served' = served
      BY <1>4, <2>2 DEF List, ListDialogs
    <2>5. ASSUME NEW p \in Dialogs \ lost'
          PROVE  /\ task'[p] = "running"
                 /\ \A i_1 \in 0..target[j] : ~(i_1 >= below'[p])
      <3>1. p \in served /\ p \in Peers
        BY <2>4 DEF Peers
      <3>2. below'[p] = target[j] + 1 /\ task'[p] = "running"
        BY <2>4, <3>1
      <3>3. QED
        BY <2>3, <3>2
    <2>6. QED
      BY <2>3, <2>4, <2>5 DEF Pass
  <1>5. ASSUME NEW i \in Jobs, Rows(i) PROVE Pass(j)'
    <2>1. Moves(i, "generating") /\ Holds(i) /\ phase[i] = "rows" /\ Gathered
      BY <1>5, MoveFacts DEF Rows, Holds, Phases
    <2>2. i = j
      <3>1. CASE i # j
        BY <2>1, <3>1, OneHolder DEF Moves, Same, Reads, Holds
      <3>2. QED
        BY <3>1
    <2>3. Pass(j) /\ UNCHANGED history /\ target'[j] = target[j]
      BY <1>5, <2>1, <2>2 DEF Rows, PassInv, Reads, Moves
    <2>4. UNCHANGED <<served, task, below, rows, lost>> /\ Gathered'
      BY <2>1, <2>3 DEF history, Gathered
    <2>5. QED
      BY <2>3, <2>4 DEF Pass
  <1>6. ASSUME NEW i \in Jobs, HistoryFails(i) \/ Pending(i) \/ ModelRefuses(i) \/ Store(i)
        PROVE  Pass(j)'
    <2>1. Holds(i) /\ Release(i)
      BY <1>6 DEF HistoryFails, Pending, ModelRefuses, Store, Holds
    <2>2. Leaves(i)
      BY <2>1, LeaveFacts DEF Release
    <2>3. i # j /\ Holds(j)
      BY <2>2 DEF Leaves, Reads, Holds
    <2>4. QED
      BY <2>1, <2>3, OneHolder
  <1>7. ASSUME NEW i \in Jobs, Fetch(i) \/ Refused(i) PROVE Pass(j)'
    <2>1. UNCHANGED job /\ phase[i] = "rows"
      BY <1>7 DEF Fetch, Refused
    <2>2. phase'[j] = phase[j] /\ target'[j] = target[j] /\ Reads(j)
      BY <2>1 DEF job, Reads
    <2>3. i = j
      BY <2>1, <2>2, OneHolder DEF Holds, Reads
    <2>4. Pass(j) /\ phase[j] = "rows"
      BY <2>1, <2>2, <2>3 DEF PassInv
    <2>5. PICK q \in Peers : \/ FetchPage(q, Start(target[j]), target[j])
                             \/ Probe(q) \/ PeerGone(q) \/ CallFails(q)
      BY <1>7, <2>3 DEF Fetch, Refused
    <2>6. CASE FetchPage(q, Start(target[j]), target[j])
      BY <2>2, <2>4, <2>6, FetchKeepsPass
    <2>7. ASSUME Probe(q) \/ PeerGone(q) \/ CallFails(q) PROVE Pass(j)'
      <3>1. /\ UNCHANGED <<served, below, rows, lost>>
            /\ \/ task' = [task EXCEPT ![q] = "done"] /\ q \in Unlisted
               \/ task' = [task EXCEPT ![q] = "gone"] /\ q \notin served
               \/ task' = [task EXCEPT ![q] = "refused"]
            /\ task[q] = "running"
        BY <2>7 DEF Probe, PeerGone, CallFails
      <3>2. ASSUME NEW p \in Dialogs \ lost
            PROVE  /\ task'[p] \in {"running", "done", "refused"}
                   /\ task'[p] = "done" => task[p] = "done"
        <4>1. task[p] \in {"running", "done", "refused"} /\ p \in Peers /\ p \in served
          BY <2>4 DEF Pass, Peers
        <4>2. p \notin Unlisted /\ task \in [Peers -> Tasks]
          BY HistoryAssumption DEF TypeOK, HistoryTypeOK
        <4>3. QED
          BY <3>1, <4>1, <4>2
      <3>3. QED
        BY <2>2, <2>4, <3>1, <3>2 DEF Pass
    <2>8. QED
      BY <2>5, <2>6, <2>7
  <1>8. CASE Telegram
    <2>1. UNCHANGED job /\ \E p \in Peers : OrphanEnds(p) \/ Lose(p) \/ Regain(p)
      BY <1>8 DEF Telegram
    <2>2. phase'[j] = phase[j] /\ target'[j] = target[j] /\ Reads(j)
      BY <2>1 DEF job, Reads
    <2>3. /\ UNCHANGED <<task, below, rows>>
          /\ \/ UNCHANGED <<served, lost>>
             \/ \E p \in Peers : served' = served \ {p} /\ lost' = lost \cup {p}
             \/ \E p \in Peers : served' = served \cup {p} /\ lost' = lost
      BY <2>1 DEF OrphanEnds, Lose, Regain
    <2>4. QED
      BY <1>1, <2>2, <2>3
  <1>9. CASE Restart
    BY <1>9 DEF Restart, Reads
  <1>10. ASSUME BlockEnds \/ Tick \/ UNCHANGED vars PROVE Pass(j)'
    <2>1. UNCHANGED job /\ UNCHANGED <<task, below, rows, served, lost>>
      BY <1>10 DEF BlockEnds, Unblock, Tick, vars, history, job
    <2>2. phase'[j] = phase[j] /\ target'[j] = target[j] /\ Reads(j)
      BY <2>1 DEF job, Reads
    <2>3. QED
      BY <1>1, <2>1, <2>2
  <1>11. QED
    BY <1>3, <1>4, <1>5, <1>6, <1>7, <1>8, <1>9, <1>10 DEF Next

------------------------------------------------------------------------------
\* What is stored.

\* A digest has each message of its period of whoever was served, and no other; there
\* is one for a day.
Stored ==
    /\ \A r \in records :
         /\ r.start = Start(r.end) /\ r.end <= now
         /\ \A x \in r.rows : r.start < x[2] /\ x[2] <= r.end
         /\ \A p \in Dialogs \ r.lost : \A i \in 0..r.end :
              r.start < i => <<p, i>> \in r.rows
    /\ \A q, r \in records : q.end = r.end => q = r

LEMMA StoredKept ==
    TypeOK /\ OneAtATime /\ Fresh /\ PassInv /\ Stored /\ [Next]_vars => Stored'
  <1> SUFFICES ASSUME TypeOK, OneAtATime, Fresh, PassInv, Stored, [Next]_vars
               PROVE  Stored'
    OBVIOUS
  <1>1. now \in Int /\ \A r \in records : r.end \in Int
    BY ConstantsAssumption DEF TypeOK, Cutoffs
  <1>2. ASSUME UNCHANGED records, now' = now \/ now' = now + 1 PROVE Stored'
    <2>1. ASSUME NEW r \in records PROVE r.end <= now'
      BY <1>1, <1>2 DEF Stored
    <2>2. QED
      BY <1>2, <2>1 DEF Stored, Start
  <1>3. ASSUME NEW j \in Jobs, Store(j) PROVE Stored'
    <2>1. /\ records' = records \cup {[start |-> Start(target[j]), end |-> target[j],
                                       rows |-> rows, lost |-> lost]}
          /\ phase[j] = "generating" /\ now' = now
      BY <1>3 DEF Store
    <2>2. PICK n : n = [start |-> Start(target[j]), end |-> target[j],
                        rows |-> rows, lost |-> lost]
      OBVIOUS
    <2>3. /\ n.start = Start(target[j]) /\ n.end = target[j] /\ n.rows = rows
          /\ n.lost = lost /\ records' = records \cup {n}
      BY <2>1, <2>2
    <2>4. Pass(j) /\ Gathered /\ target[j] <= now /\ ~Succeeded(target[j])
      BY <2>1 DEF PassInv, Reads, Pass, Fresh, Holds, Active
    <2>5. ASSUME NEW p \in Dialogs \ lost, NEW i \in 0..target[j], Start(target[j]) < i
          PROVE  <<p, i>> \in rows
      <3>1. task[p] = "done"
        BY <2>4 DEF Pass, Gathered, Peers
      <3>2. QED
        BY <2>4, <2>5, <3>1 DEF Pass
    <2>6. ASSUME NEW r \in records'
          PROVE  /\ r.start = Start(r.end) /\ r.end <= now
                 /\ \A x \in r.rows : r.start < x[2] /\ x[2] <= r.end
                 /\ \A p \in Dialogs \ r.lost : \A i \in 0..r.end :
                      r.start < i => <<p, i>> \in r.rows
      <3>1. CASE r \in records
        BY <3>1 DEF Stored
      <3>2. CASE r = n
        BY <2>3, <2>4, <2>5, <3>2 DEF Pass
      <3>3. QED
        BY <2>3, <3>1, <3>2
    <2>7. ASSUME NEW q \in records', NEW r \in records', q.end = r.end PROVE q = r
      <3>1. \A x \in records : x.end # n.end
        BY <2>3, <2>4 DEF Succeeded
      <3>2. QED
        BY <2>3, <2>7, <3>1 DEF Stored
    <2>8. QED
      BY <2>1, <2>6, <2>7 DEF Stored, Start
  <1>4. CASE Tick \/ UNCHANGED vars
    BY <1>2, <1>4 DEF Tick, vars
  <1>5. CASE Restart \/ Telegram \/ BlockEnds
    BY <1>2, <1>5 DEF Restart, Telegram, BlockEnds, rest
  <1>6. ASSUME NEW j \in Jobs,
               \/ Reconcile(j) \/ Wake(j) \/ List(j) \/ Fetch(j) \/ Refused(j) \/ Rows(j)
               \/ HistoryFails(j) \/ Pending(j) \/ ModelRefuses(j)
        PROVE  Stored'
    BY <1>2, <1>6 DEF Reconcile, Wake, List, Fetch, Refused, Rows, HistoryFails, Pending,
       ModelRefuses, rest
  <1>7. QED
    BY <1>3, <1>4, <1>5, <1>6 DEF Next

\* The inductive invariant that needs no assumption on time.
Inv == TypeOK /\ OneAtATime /\ Fresh /\ PassInv /\ Stored

LEMMA InvAtInit ==
    Init => Inv
  <1> SUFFICES ASSUME Init PROVE Inv
    OBVIOUS
  <1>1. records = {} /\ \A j \in Jobs : phase[j] = "idle"
    BY DEF Init
  <1>2. Fresh /\ PassInv /\ Stored
    BY <1>1 DEF Fresh, PassInv, Stored, Active, Holds, Reads
  <1>3. QED
    BY <1>2, TypesAtInit DEF Inv

LEMMA InvKept ==
    Inv /\ [Next]_vars => Inv'
  BY TypesKept, FreshKept, PassKept, StoredKept DEF Inv

LEMMA InvAlways ==
    Spec => []Inv
  BY InvAtInit, InvKept, PTL DEF Spec

\* Whatever fails and is read again, a stored digest has each message of its period of
\* each dialog that Telegram served while it was read (digest_rows, _create_digest).
THEOREM StoredIsComplete ==
    Spec => [](\A r \in records : \A p \in Dialogs \ r.lost : \A i \in 0..r.end :
                 r.start < i => <<p, i>> \in r.rows)
  <1>1. Inv => \A r \in records : \A p \in Dialogs \ r.lost : \A i \in 0..r.end :
                 r.start < i => <<p, i>> \in r.rows
    BY DEF Inv, Stored
  <1>2. QED
    BY <1>1, InvAlways, PTL

\* At most one digest is stored for a day, by whichever job, in whichever order they get
\* the lock (reconcile looks again once it has it).
THEOREM OneDigestForADay ==
    Spec => [](\A q, r \in records : q.end = r.end => q = r)
  <1>1. Inv => \A q, r \in records : q.end = r.end => q = r
    BY DEF Inv, Stored
  <1>2. QED
    BY <1>1, InvAlways, PTL

------------------------------------------------------------------------------
\* As long as the digest time stays what it is.

Aligned ==
    /\ \A r \in records : r.end = CutoffOf(Day(r.end))
    /\ \A j \in Jobs : Active(j) => target[j] = CutoffOf(Day(target[j]))

LEMMA DigestTimeType ==
    TypeOK => digestTime \in 0..(Slots - 1)
  BY ConstantsAssumption DEF TypeOK

LEMMA MissingIsADay ==
    ASSUME TypeOK, Missing # None
    PROVE  Missing = CutoffOf(Day(Missing))
  <1>1. PICK d \in Int : Missing = CutoffOf(d)
    BY MissingDay
  <1>2. Day(CutoffOf(d)) = d
    BY DigestTimeType, DayOfCutoff
  <1>3. QED
    BY <1>1, <1>2

\* The targets of a step are those of before, or the missing day.
LEMMA Targets ==
    ASSUME TypeOK, OneAtATime, [Next]_vars, NEW j \in Jobs, Active(j)'
    PROVE  \/ Active(j) /\ target'[j] = target[j]
           \/ /\ phase[j] = "idle" /\ Reconcile(j)
              /\ target'[j] = Missing /\ Missing # None
  <1> USE DEF Active
  <1>1. ASSUME NEW i \in Jobs, Reconcile(i)
        PROVE  \/ Active(j) /\ target'[j] = target[j]
               \/ /\ phase[j] = "idle" /\ Reconcile(j)
                  /\ target'[j] = Missing /\ Missing # None
    <2>1. /\ Enters(i, Missing) \/ Joins(i, Missing)
          /\ phase[i] = "idle" /\ Missing # None
      BY <1>1, ReconcileFacts DEF Reconcile
    <2>2. CASE i = j
      BY <1>1, <2>1, <2>2 DEF Enters, Joins
    <2>3. CASE i # j
      BY <2>1, <2>3 DEF Enters, Joins, Same
    <2>4. QED
      BY <2>2, <2>3
  <1>2. ASSUME NEW i \in Jobs, Leaves(i) PROVE Active(j) /\ target'[j] = target[j]
    <2>1. i # j
      BY <1>2 DEF Leaves
    <2>2. QED
      BY <1>2, <2>1 DEF Leaves
  <1>3. ASSUME NEW i \in Jobs, Wake(i) PROVE Active(j) /\ target'[j] = target[j]
    <2>1. phase[i] = "woken" /\ (Leaves(i) \/ Enters(i, target[i]))
      BY <1>3, WakeFacts
    <2>2. CASE Enters(i, target[i])
      BY <2>1, <2>2 DEF Enters, Same
    <2>3. QED
      BY <1>2, <2>1, <2>2
  <1>4. ASSUME NEW i \in Jobs, List(i) \/ Rows(i) PROVE Active(j) /\ target'[j] = target[j]
    <2>1. Holds(i)
      BY <1>4 DEF List, Rows, Holds
    <2>2. Moves(i, "rows") \/ Moves(i, "generating")
      BY <1>4, <2>1, MoveFacts DEF List, Rows, Phases
    <2>3. QED
      BY <2>1, <2>2 DEF Moves, Same, Holds
  <1>5. ASSUME NEW i \in Jobs, HistoryFails(i) \/ Pending(i) \/ ModelRefuses(i) \/ Store(i)
        PROVE  Active(j) /\ target'[j] = target[j]
    <2>1. Release(i)
      BY <1>5 DEF HistoryFails, Pending, ModelRefuses, Store
    <2>2. QED
      BY <1>2, <2>1, LeaveFacts DEF Release
  <1>6. ~Restart
    BY DEF Restart
  <1>7. ASSUME \/ \E i \in Jobs : Fetch(i) \/ Refused(i)
               \/ Telegram \/ BlockEnds \/ Tick \/ UNCHANGED vars
        PROVE  Active(j) /\ target'[j] = target[j]
    BY <1>7 DEF Fetch, Refused, Telegram, BlockEnds, Tick, vars, job
  <1>8. QED
    BY <1>1, <1>3, <1>4, <1>5, <1>6, <1>7 DEF Next

\* The records of a step are those of before, or one more for the day the job with the
\* lock is at.
LEMMA Records ==
    ASSUME TypeOK, [Next]_vars
    PROVE  \/ records' = records
           \/ \E j \in Jobs :
                /\ Store(j) /\ Holds(j) /\ now' = now /\ digestTime' = digestTime
                /\ records' = records \cup {[start |-> Start(target[j]), end |-> target[j],
                                             rows |-> rows, lost |-> lost]}
  <1>1. ASSUME NEW j \in Jobs, Store(j)
        PROVE  /\ Holds(j) /\ now' = now /\ digestTime' = digestTime
               /\ records' = records \cup {[start |-> Start(target[j]), end |-> target[j],
                                            rows |-> rows, lost |-> lost]}
    BY <1>1 DEF Store, Holds
  <1>2. ASSUME \/ Restart \/ Telegram \/ BlockEnds \/ Tick \/ UNCHANGED vars
               \/ \E j \in Jobs :
                    \/ Reconcile(j) \/ Wake(j) \/ List(j) \/ Fetch(j) \/ Refused(j)
                    \/ Rows(j) \/ HistoryFails(j) \/ Pending(j) \/ ModelRefuses(j)
        PROVE  records' = records
    BY <1>2 DEF Restart, Telegram, BlockEnds, Tick, vars, Reconcile, Wake, List, Fetch,
       Refused, Rows, HistoryFails, Pending, ModelRefuses, rest
  <1>3. QED
    BY <1>1, <1>2 DEF Next

LEMMA AlignedKept ==
    ASSUME TypeOK, OneAtATime, Aligned, [Next]_vars, digestTime' = digestTime
    PROVE  Aligned'
  <1>1. \A c : CutoffOf(Day(c))' = CutoffOf(Day(c))
    BY DEF CutoffOf, Day
  <1>2. ASSUME NEW j \in Jobs, Active(j)' PROVE target'[j] = CutoffOf(Day(target'[j]))
    <2>1. CASE Active(j) /\ target'[j] = target[j]
      BY <2>1 DEF Aligned
    <2>2. CASE target'[j] = Missing /\ Missing # None
      BY <2>2, MissingIsADay
    <2>3. QED
      BY <1>2, <2>1, <2>2, Targets
  <1>3. ASSUME NEW r \in records' PROVE r.end = CutoffOf(Day(r.end))
    <2>1. CASE r \in records
      BY <2>1 DEF Aligned
    <2>2. CASE r \notin records
      <3>1. PICK j \in Jobs : Holds(j) /\ r.end = target[j]
        BY <2>2, Records
      <3>2. QED
        BY <3>1 DEF Aligned, Active, Holds
    <2>3. QED
      BY <2>1, <2>2
  <1>4. QED
    BY <1>1, <1>2, <1>3 DEF Aligned, CutoffOf

LEMMA AlignedAlways ==
    ASSUME NEW t, DigestTimes = {t}
    PROVE  Spec => [](Inv /\ Aligned)
  <1>1. Init => Aligned
    BY DEF Init, Aligned, Active
  <1>2. Inv /\ Inv' /\ Aligned /\ [Next]_vars => Aligned'
    <2>1. Inv /\ Inv' => digestTime' = digestTime
      BY DEF Inv, TypeOK
    <2>2. QED
      BY <2>1, AlignedKept DEF Inv
  <1>3. QED
    BY <1>1, <1>2, InvAlways, PTL DEF Spec

LEMMA NoOverlap ==
    ASSUME Inv, Aligned, NEW q \in records, NEW r \in records, q.end < r.end
    PROVE  q.rows \cap r.rows = {}
  <1>1. q.end \in Int /\ r.end \in Int
    BY ConstantsAssumption DEF Inv, TypeOK, Cutoffs
  <1>2. /\ q.end = CutoffOf(Day(q.end)) /\ r.end = CutoffOf(Day(r.end))
        /\ Day(q.end) \in Int /\ Day(r.end) \in Int
    BY <1>1, DayOf DEF Aligned
  <1>3. q.end <= r.end - Slots
    BY <1>1, <1>2, DaysInOrder, DigestTimeType DEF Inv
  <1>4. ASSUME NEW x \in q.rows, x \in r.rows PROVE FALSE
    <2>1. /\ x[2] <= q.end /\ r.start < x[2] /\ r.start = r.end - Slots
          /\ x[2] \in Int /\ Slots \in Int
      BY <1>4, ConstantsAssumption DEF Inv, Stored, Start, TypeOK
    <2>2. QED
      BY <1>1, <1>3, <2>1
  <1>5. QED
    BY <1>4

\* While the digest time stays the same, each message is in the digest of its day, and
\* in no other (_create_digest).
THEOREM EachMessageOnce ==
    ASSUME NEW t, DigestTimes = {t}
    PROVE  Spec => []EveryMessageOnce
  <1>1. ASSUME Inv, Aligned PROVE EveryMessageOnce
    <2>1. ASSUME NEW q \in records, NEW r \in records, q # r
          PROVE  q.rows \cap r.rows = {}
      <3>1. q.end \in Int /\ r.end \in Int /\ q.end # r.end
        BY <1>1, <2>1, ConstantsAssumption DEF Inv, TypeOK, Stored, Cutoffs
      <3>2. QED
        BY <1>1, <3>1, NoOverlap
    <2>2. QED
      BY <1>1, <2>1 DEF EveryMessageOnce, Inv, Stored
  <1>2. QED
    BY <1>1, AlignedAlways, PTL

------------------------------------------------------------------------------
\* No day is skipped.

\* The job with the lock has not had it for longer than a run takes.
Brief == held <= now /\ (lock # None => now - held <= MaxRun)

LEMMA BriefKept ==
    ASSUME TypeOK, OneAtATime, Brief, [Next]_vars
    PROVE  Brief'
  <1>1. now \in Int /\ held \in Int /\ MaxRun \in Nat
    BY ConstantsAssumption DEF TypeOK
  <1>2. ASSUME now' = now, held' = held, lock' = lock \/ lock' = None PROVE Brief'
    BY <1>2 DEF Brief
  <1>3. ASSUME now' = now, NEW j \in Jobs, lock' = j, held' = now PROVE Brief'
    BY <1>1, <1>3 DEF Brief
  <1>4. ASSUME NEW j \in Jobs, Reconcile(j) \/ Wake(j) PROVE Brief'
    BY <1>2, <1>3, <1>4, ReconcileFacts, WakeFacts DEF Enters, Joins, Leaves
  <1>5. CASE Tick
    BY <1>1, <1>5 DEF Tick, Brief, job
  <1>6. ASSUME \/ Restart \/ Telegram \/ BlockEnds \/ UNCHANGED vars
               \/ \E j \in Jobs :
                    \/ List(j) \/ Fetch(j) \/ Refused(j) \/ Rows(j) \/ HistoryFails(j)
                    \/ Pending(j) \/ ModelRefuses(j) \/ Store(j)
        PROVE  Brief'
    BY <1>2, <1>6 DEF Restart, Telegram, BlockEnds, vars, job, rest, List, Fetch, Refused,
       Rows, HistoryFails, Pending, ModelRefuses, Store, Release
  <1>7. QED
    BY <1>4, <1>5, <1>6 DEF Next

\* The midnight after a cut-off.
DayEnd(c) == c - digestTime + Slots

\* A job that has the lock, or is to have it next.
Ahead(j) == Holds(j) \/ phase[j] = "woken"

\* Before the first digest a job is at the day it came for.  It waits for one run at
\* most, so that it is in the next day at most, and the job it waits for came no later
\* than it did.
Recent ==
    records = {} =>
      /\ \A j \in Jobs :
           /\ phase[j] = "waiting" =>
                (IF lock = None THEN now ELSE held) < DayEnd(target[j])
           /\ phase[j] = "woken" => now < DayEnd(target[j]) + MaxRun
           /\ Holds(j) => held < DayEnd(target[j]) + MaxRun
      /\ \A i, j \in Jobs : Ahead(i) /\ phase[j] = "waiting" =>
           target[i] <= target[j] /\ target[j] <= target[i] + Slots

\* A job that comes less than two days after a cut-off is at that day or at the next.
LEMMA TodayOrYesterday ==
    ASSUME digestTime \in 0..(Slots - 1), NEW e \in Int, NEW x \in Int,
           CutoffOf(e) <= x, x < DayEnd(CutoffOf(e)) + Slots
    PROVE  CutoffOf(e) <= CutoffOf(Day(x)) /\ CutoffOf(Day(x)) <= CutoffOf(e) + Slots
  <1>1. Slots \in Nat \ {0} /\ Day(x) \in Int /\ Day(x) * Slots <= x
    BY ConstantsAssumption, DayOf
  <1>2. x < (e + 2) * Slots
    BY <1>1 DEF DayEnd, CutoffOf
  <1>3. Day(x) < e + 2
    <2>1. Day(x) * Slots < (e + 2) * Slots
      BY <1>1, <1>2
    <2>2. QED
      BY <1>1, <2>1
  <1>4. e <= Day(x)
    BY LatestCutoff
  <1>5. Day(x) <= e + 1
    BY <1>1, <1>3
  <1>6. CutoffOf(e + 1) = CutoffOf(e) + Slots /\ CutoffOf(e) <= CutoffOf(Day(x))
    BY <1>1, <1>4, DaysInOrder
  <1>7. CutoffOf(Day(x)) <= CutoffOf(e + 1)
    BY <1>1, <1>5, DaysInOrder
  <1>8. QED
    BY <1>6, <1>7

\* Without a digest the day of now is missing, if it is due.
LEMMA FirstMissing ==
    ASSUME TypeOK, records = {}, Missing # None
    PROVE  Missing = CutoffOf(Day(now)) /\ now < DayEnd(Missing) /\ Missing <= now
  <1>1. PICK d \in Int : /\ Missing = CutoffOf(d)
                         /\ (\A e \in Ends : CutoffOf(Day(now)) < e) => d = Day(now)
    BY MissingDay
  <1>2. Ends = {}
    BY DEF Ends
  <1>3. Missing = CutoffOf(Day(now)) /\ Missing <= now
    BY <1>1, <1>2, MissingDay
  <1>4. now \in Int /\ digestTime \in Int
    BY DigestTimeType DEF TypeOK
  <1>5. now < Day(now) * Slots + Slots /\ Day(now) \in Int /\ Slots \in Int
    BY <1>4, DayOf
  <1>6. QED
    BY <1>3, <1>4, <1>5 DEF DayEnd, CutoffOf

LEMMA RecentKept ==
    ASSUME TypeOK, OneAtATime, Fresh, Aligned, Brief, Recent, [Next]_vars,
           digestTime' = digestTime, 2 * MaxRun <= Slots
    PROVE  Recent'
  <1> SUFFICES ASSUME records' = {} PROVE Recent'
    BY DEF Recent
  <1> USE DEF Active, Holds
  <1>1. /\ now \in Int /\ held \in Int /\ MaxRun \in Nat /\ Slots \in Int
        /\ digestTime \in Int /\ records = {}
    <2>1. records = {}
      BY Records
    <2>2. QED
      BY <2>1, ConstantsAssumption, DigestTimeType DEF TypeOK
  <1>2. ASSUME NEW j \in Jobs, phase[j] # "idle"
        PROVE  /\ target[j] \in Int /\ DayEnd(target[j]) \in Int /\ target[j] <= now
               /\ Day(target[j]) \in Int /\ target[j] = CutoffOf(Day(target[j]))
    <2>1. target[j] \in Int
      BY <1>2, TypeParts, TargetOfActive
    <2>2. QED
      BY <1>1, <1>2, <2>1, DayOf DEF DayEnd, Fresh, Aligned
  <1>3. /\ \A j \in Jobs :
             /\ phase[j] = "waiting" =>
                  (IF lock = None THEN now ELSE held) < DayEnd(target[j])
             /\ phase[j] = "woken" => now < DayEnd(target[j]) + MaxRun
             /\ Holds(j) => held < DayEnd(target[j]) + MaxRun
        /\ \A i, j \in Jobs : Ahead(i) /\ phase[j] = "waiting" =>
             target[i] <= target[j] /\ target[j] <= target[i] + Slots
    BY <1>1 DEF Recent
  <1>4. \A c : DayEnd(c)' = DayEnd(c)
    BY DEF DayEnd
  <1> DEFINE Each(k) ==
               /\ phase'[k] = "waiting" =>
                    (IF lock' = None THEN now' ELSE held') < DayEnd(target'[k])
               /\ phase'[k] = "woken" => now' < DayEnd(target'[k]) + MaxRun
               /\ Holds(k)' => held' < DayEnd(target'[k]) + MaxRun
             Pair(i, k) == Ahead(i)' /\ phase'[k] = "waiting" =>
                             target'[i] <= target'[k] /\ target'[k] <= target'[i] + Slots
  <1>5. SUFFICES /\ \A k \in Jobs : Each(k)
                 /\ \A i, k \in Jobs : Pair(i, k)
    BY <1>4 DEF Recent
  <1>6. \A i \in Jobs : i = "exact" \/ i = "reconciliation"
    BY DEF Jobs
  <1>7. ASSUME NEW j \in Jobs, Reconcile(j)
        PROVE  (\A k \in Jobs : Each(k)) /\ \A i, k \in Jobs : Pair(i, k)
    <2>1. /\ phase[j] = "idle" /\ now' = now /\ Missing # None
          /\ \/ Enters(j, Missing) /\ \A i \in Jobs : ~Queued(i)
             \/ Joins(j, Missing)
      BY <1>7, ReconcileFacts DEF Reconcile
    <2>2. PICK m \in Int : m = Missing
      BY <2>1, MissingDay, ConstantsAssumption DEF Cutoffs
    <2>3. m = CutoffOf(Day(now)) /\ now < DayEnd(m) /\ m <= now /\ DayEnd(m) \in Int
      BY <1>1, <2>1, <2>2, FirstMissing DEF DayEnd
    <2>4. CASE Enters(j, m) /\ \A i \in Jobs : ~Queued(i)
      <3>1. ASSUME NEW k \in Jobs, k # j PROVE phase'[k] \notin {"waiting", "woken"}
                                               /\ ~Holds(k)'
        <4>1. lock = None /\ phase[k] \notin {"waiting", "woken"} /\ phase'[k] = phase[k]
          BY <2>4, <3>1 DEF Enters, Same, Queued
        <4>2. ~Holds(k)
          BY <4>1, ConstantsAssumption DEF TypeOK
        <4>3. QED
          BY <4>1, <4>2
      <3>2. /\ phase'[j] = "dialogs" /\ target'[j] = m /\ held' = now
        BY <2>4 DEF Enters
      <3>3. now < DayEnd(m) + MaxRun
        BY <1>1, <2>3
      <3>4. QED
        BY <3>1, <3>2, <3>3
    <2>5. CASE Joins(j, m)
      <3>1. /\ phase'[j] = "waiting" /\ target'[j] = m /\ lock' = lock /\ held' = held
            /\ \A k \in Jobs \ {j} : phase'[k] = phase[k] /\ target'[k] = target[k]
        BY <2>5 DEF Joins, Same
      <3>2. (IF lock = None THEN now ELSE held) < DayEnd(m)
        BY <1>1, <2>3 DEF Brief
      <3>3. \A k \in Jobs : Each(k)
        BY <1>3, <2>1, <3>1, <3>2
      <3>4. ASSUME NEW i \in Jobs, NEW k \in Jobs, Ahead(i)', phase'[k] = "waiting"
            PROVE  target'[i] <= target'[k] /\ target'[k] <= target'[i] + Slots
        <4>1. i # j /\ Ahead(i) /\ target'[i] = target[i]
          BY <3>1, <3>4 DEF Ahead
        <4>2. CASE k # j
          BY <1>3, <3>1, <3>4, <4>1, <4>2
        <4>3. CASE k = j
          <5> DEFINE e == Day(target[i])
          <5>1. /\ e \in Int /\ target[i] = CutoffOf(e) /\ target[i] <= now
                /\ target[i] \in Int /\ DayEnd(target[i]) \in Int
            BY <1>2, <4>1 DEF Ahead
          <5>2. now < DayEnd(target[i]) + Slots
            <6>1. CASE phase[i] = "woken"
              BY <1>1, <1>3, <5>1, <6>1
            <6>2. CASE Holds(i)
              <7>1. held < DayEnd(target[i]) + MaxRun /\ lock = i
                BY <1>3, <6>2 DEF TypeOK
              <7>2. now - held <= MaxRun
                BY <7>1, ConstantsAssumption DEF Brief
              <7>3. QED
                BY <1>1, <5>1, <7>1, <7>2
            <6>3. QED
              BY <4>1, <6>1, <6>2 DEF Ahead
          <5> HIDE DEF e
          <5>3. target[i] <= m /\ m <= target[i] + Slots
            BY <1>1, <2>3, <5>1, <5>2, TodayOrYesterday, DigestTimeType
          <5>4. QED
            BY <3>1, <4>1, <4>3, <5>3
        <4>4. QED
          BY <4>2, <4>3
      <3>5. QED
        BY <3>3, <3>4
    <2>6. QED
      BY <2>1, <2>2, <2>4, <2>5
  \* A job leaves: the one that waits has waited for one run.
  <1>8. ASSUME NEW j \in Jobs, Leaves(j), now' = now,
               \/ Holds(j) \/ (phase[j] = "woken" /\ lock = None)
        PROVE  (\A k \in Jobs : Each(k)) /\ \A i, k \in Jobs : Pair(i, k)
    <2>1. /\ phase'[j] = "idle"
          /\ \A k \in Jobs \ {j} :
               /\ target'[k] = target[k]
               /\ phase'[k] = IF phase[k] = "waiting" THEN "woken" ELSE phase[k]
      BY <1>8 DEF Leaves
    <2>2. ASSUME NEW k \in Jobs, k # j
          PROVE  phase'[k] # "waiting" /\ ~Holds(k)' /\ Each(k)
      <3>1. ~Holds(k)
        BY <1>8, <2>2, OneHolder, ConstantsAssumption DEF TypeOK
      <3>2. phase'[k] # "waiting" /\ ~Holds(k)'
        BY <2>1, <2>2, <3>1
      <3>3. ASSUME phase'[k] = "woken" PROVE now < DayEnd(target[k]) + MaxRun
        <4>1. CASE phase[k] = "waiting"
          <5>1. DayEnd(target[k]) \in Int
            BY <1>2, <4>1
          <5>2. CASE lock = None
            BY <1>1, <1>3, <4>1, <5>1, <5>2
          <5>3. CASE lock # None
            BY <1>1, <1>3, <4>1, <5>1, <5>3 DEF Brief
          <5>4. QED
            BY <5>2, <5>3
        <4>2. CASE phase[k] # "waiting"
          BY <1>3, <2>1, <2>2, <3>3, <4>2
        <4>3. QED
          BY <4>1, <4>2
      <3>4. QED
        BY <1>8, <2>1, <2>2, <3>2, <3>3
    <2>3. \A k \in Jobs : phase'[k] # "waiting"
      BY <2>1, <2>2
    <2>4. QED
      BY <2>1, <2>2, <2>3
  <1>9. ASSUME NEW j \in Jobs, Wake(j)
        PROVE  (\A k \in Jobs : Each(k)) /\ \A i, k \in Jobs : Pair(i, k)
    <2>1. /\ phase[j] = "woken" /\ lock = None /\ now' = now
          /\ Leaves(j) \/ Enters(j, target[j])
      BY <1>9, WakeFacts
    <2>2. CASE Enters(j, target[j])
      <3>1. /\ phase'[j] = "dialogs" /\ target'[j] = target[j] /\ lock' = j /\ held' = now
            /\ \A k \in Jobs \ {j} : phase'[k] = phase[k] /\ target'[k] = target[k]
            /\ \A k \in Jobs \ {j} : phase[k] # "woken" /\ ~Holds(k)
            /\ lock' # None
        BY <2>1, <2>2, ConstantsAssumption DEF Enters, Same, TypeOK
      <3>2. \A k \in Jobs : Each(k)
        BY <1>3, <2>1, <3>1
      <3>3. \A i, k \in Jobs : Pair(i, k)
        BY <1>3, <2>1, <3>1 DEF Ahead
      <3>4. QED
        BY <3>2, <3>3
    <2>3. QED
      BY <1>8, <2>1, <2>2
  <1>10. ASSUME NEW j \in Jobs, List(j) \/ Rows(j)
         PROVE  (\A k \in Jobs : Each(k)) /\ \A i, k \in Jobs : Pair(i, k)
    <2>1. /\ Holds(j) /\ now' = now
          /\ Moves(j, "rows") \/ Moves(j, "generating")
      <3>1. Holds(j)
        BY <1>10 DEF List, Rows
      <3>2. QED
        BY <1>10, <3>1, MoveFacts DEF List, Rows, Phases, rest
    <2>2. /\ Holds(j)' /\ phase'[j] # "waiting" /\ phase'[j] # "woken"
          /\ target'[j] = target[j] /\ lock' = lock /\ held' = held
          /\ \A k \in Jobs \ {j} : phase'[k] = phase[k] /\ target'[k] = target[k]
      BY <2>1 DEF Moves, Same
    <2>3. \A k \in Jobs : Each(k)
      BY <1>3, <2>1, <2>2
    <2>4. \A i, k \in Jobs : Pair(i, k)
      BY <1>3, <2>1, <2>2 DEF Ahead
    <2>5. QED
      BY <2>3, <2>4
  <1>11. ASSUME NEW j \in Jobs, HistoryFails(j) \/ Pending(j) \/ ModelRefuses(j) \/ Store(j)
         PROVE  (\A k \in Jobs : Each(k)) /\ \A i, k \in Jobs : Pair(i, k)
    <2>1. Release(j) /\ Holds(j) /\ now' = now
      BY <1>11 DEF HistoryFails, Pending, ModelRefuses, Store, rest
    <2>2. QED
      BY <1>8, <2>1, LeaveFacts DEF Release
  <1>12. CASE Restart
    <2>1. \A k \in Jobs : phase'[k] = "idle"
      BY <1>12 DEF Restart
    <2>2. QED
      BY <2>1 DEF Ahead
  <1>13. CASE Tick
    <2>1. /\ phase' = phase /\ target' = target /\ lock' = lock /\ held' = held
          /\ lock = None => \A k \in Jobs : ~Queued(k)
      BY <1>13 DEF Tick, job
    <2>2. ASSUME NEW k \in Jobs PROVE Each(k)
      <3>1. phase[k] \in {"waiting", "woken"} => lock # None
        BY <2>1 DEF Queued
      <3>2. phase[k] # "woken"
        BY <3>1 DEF OneAtATime
      <3>3. QED
        BY <1>3, <2>1, <3>1, <3>2
    <2>3. \A i, k \in Jobs : Pair(i, k)
      BY <1>3, <2>1 DEF Ahead
    <2>4. QED
      BY <2>2, <2>3
  <1>14. ASSUME \/ Telegram \/ BlockEnds \/ UNCHANGED vars
                \/ \E j \in Jobs : Fetch(j) \/ Refused(j)
         PROVE  (\A k \in Jobs : Each(k)) /\ \A i, k \in Jobs : Pair(i, k)
    <2>1. phase' = phase /\ target' = target /\ lock' = lock /\ held' = held /\ now' = now
      BY <1>14 DEF Telegram, BlockEnds, vars, job, rest, Fetch, Refused
    <2>2. QED
      BY <1>3, <2>1 DEF Ahead
  <1>15. QED
    BY <1>7, <1>9, <1>10, <1>11, <1>12, <1>13, <1>14 DEF Next

\* Each day between the first digest and day x is there, the days beyond the limit
\* excepted.
Filled(x) ==
    \A d \in Int : /\ First < CutoffOf(d) /\ CutoffOf(d) < x /\ d > Day(now) - Limit
                   => Succeeded(CutoffOf(d))

NoGap ==
    records # {} =>
      /\ \A e \in Ends : Filled(e)
      /\ \A j \in Jobs : Active(j) => First <= target[j] /\ Filled(target[j])

LEMMA FirstDigest ==
    ASSUME TypeOK, records # {}
    PROVE  First \in Ends /\ First \in Int /\ \A e \in Ends : First <= e
  <1>1. Ends \in SUBSET Int /\ Ends # {} /\ \A e \in Ends : 0 - Limit * Slots <= e
    BY ConstantsAssumption DEF TypeOK, Ends, Cutoffs
  <1>2. 0 - Limit * Slots \in Int
    BY ConstantsAssumption
  <1>3. Least(Ends) \in Ends /\ \A e \in Ends : Least(Ends) <= e
    BY <1>1, <1>2, LeastOfInts
  <1>4. First = Least(Ends)
    BY DEF First, Ends
  <1>5. QED
    BY <1>1, <1>3, <1>4

LEMMA FirstDigestNext ==
    TypeOK' /\ (records # {})' =>
      (First \in Ends /\ First \in Int /\ \A e \in Ends : First <= e)'
  <1>1. TypeOK /\ records # {} =>
          First \in Ends /\ First \in Int /\ \A e \in Ends : First <= e
    BY FirstDigest
  <1>2. QED
    BY <1>1, PTL

\* A job comes for a day after the last digest, and for the first that is missing.
LEMMA MissingIsNext ==
    ASSUME TypeOK, Stored, Aligned, NoGap, records # {}, Missing # None
    PROVE  First <= Missing /\ Filled(Missing)
  <1>1. First \in Ends /\ First \in Int /\ \A e \in Ends : First <= e
    BY FirstDigest
  <1>2. /\ now \in Int /\ digestTime \in 0..(Slots - 1) /\ Day(now) \in Int
        /\ \A e \in Ends : e \in Int /\ e <= now /\ Day(e) \in Int /\ e = CutoffOf(Day(e))
    <2>1. now \in Int /\ digestTime \in 0..(Slots - 1)
      BY DigestTimeType DEF TypeOK
    <2>2. \A e \in Ends : e \in Int /\ e <= now /\ e = CutoffOf(Day(e))
      BY ConstantsAssumption DEF TypeOK, Ends, Cutoffs, Stored, Aligned
    <2>3. QED
      BY <2>1, <2>2, DayOf
  <1>3. First <= CutoffOf(Day(now))
    <2>1. CutoffOf(Day(First)) <= now
      BY <1>1, <1>2
    <2>2. Day(First) <= Day(now)
      BY <1>1, <1>2, <2>1, LatestCutoff
    <2>3. CutoffOf(Day(First)) <= CutoffOf(Day(now))
      BY <1>1, <1>2, <2>2, DaysInOrder
    <2>4. QED
      BY <1>1, <1>2, <2>3
  <1>4. PICK d \in Int :
          /\ Missing = CutoffOf(d)
          /\ \A e \in Ends : e <= CutoffOf(Day(now)) =>
               \E g \in Ends :
                 /\ e <= g /\ g <= CutoffOf(Day(now)) /\ Day(g) < d
                 /\ \A c \in Int : /\ Day(g) < c /\ c < d /\ c > Day(now) - Limit
                                   => Succeeded(CutoffOf(c))
    BY MissingDay
  <1>5. PICK g \in Ends :
          /\ First <= g /\ Day(g) < d
          /\ \A c \in Int : /\ Day(g) < c /\ c < d /\ c > Day(now) - Limit
                            => Succeeded(CutoffOf(c))
    BY <1>1, <1>3, <1>4
  <1>6. First <= Missing
    <2>1. CutoffOf(Day(g)) < CutoffOf(d) /\ CutoffOf(d) \in Int
      BY <1>2, <1>5, DaysInOrder, DayOfCutoff
    <2>2. QED
      BY <1>1, <1>2, <1>4, <1>5, <2>1
  <1>7. ASSUME NEW c \in Int, First < CutoffOf(c), CutoffOf(c) < Missing,
               c > Day(now) - Limit
        PROVE  Succeeded(CutoffOf(c))
    <2>1. c < d
      BY <1>2, <1>4, <1>7, DaysInOrder
    <2>2. CASE Day(g) < c
      BY <1>5, <1>7, <2>1, <2>2
    <2>3. CASE Day(g) = c
      BY <1>2, <2>3 DEF Succeeded, Ends
    <2>4. CASE c < Day(g)
      <3>1. CutoffOf(c) < CutoffOf(Day(g))
        BY <1>2, <2>4, DaysInOrder
      <3>2. CutoffOf(c) < g /\ Filled(g)
        BY <1>2, <3>1 DEF NoGap
      <3>3. QED
        BY <1>7, <3>2 DEF Filled
    <2>5. QED
      BY <1>2, <2>2, <2>3, <2>4
  <1>8. QED
    BY <1>6, <1>7 DEF Filled

LEMMA NoGapKept ==
    ASSUME TypeOK, TypeOK', OneAtATime, Fresh, Stored, Aligned, Recent, NoGap,
           [Next]_vars, digestTime' = digestTime
    PROVE  NoGap'
  <1> SUFFICES ASSUME records' # {} PROVE NoGap'
    BY DEF NoGap
  <1>1. /\ now \in Int /\ now' \in Int /\ digestTime \in 0..(Slots - 1)
        /\ Limit \in Int
    BY ConstantsAssumption, DigestTimeType DEF TypeOK
  <1>2. \A c : CutoffOf(c)' = CutoffOf(c) /\ Day(c)' = Day(c)
    BY DEF CutoffOf, Day
  <1>3. CASE records' = records
    <2>1. First' = First /\ Ends' = Ends /\ records # {}
      BY <1>3 DEF First, Ends
    <2>2. now <= now' /\ Day(now) <= Day(now') /\ Day(now) \in Int /\ Day(now') \in Int
      <3>1. now' = now \/ now' = now + 1
        BY DEF Next, Reconcile, Wake, List, Fetch, Refused, Rows, HistoryFails, Pending,
           ModelRefuses, Store, Telegram, BlockEnds, Restart, Tick, vars, rest
      <3>2. now <= now'
        BY <1>1, <3>1
      <3>3. QED
        BY <1>1, <3>2, DayOf, DaysGoOn
    <2>3. ASSUME NEW x, Filled(x) PROVE Filled(x)'
      <3> SUFFICES ASSUME NEW d \in Int, First < CutoffOf(d), CutoffOf(d) < x,
                          d > Day(now') - Limit
                   PROVE  Succeeded(CutoffOf(d))
        BY <1>2, <1>3, <2>1 DEF Filled, Succeeded, CutoffOf, Day
      <3>1. d > Day(now) - Limit
        BY <1>1, <2>2
      <3>2. QED
        BY <2>3, <3>1 DEF Filled
    <2>4. ASSUME NEW j \in Jobs, Active(j)'
          PROVE  First <= target'[j] /\ Filled(target'[j])
      <3>1. CASE Active(j) /\ target'[j] = target[j]
        BY <2>1, <3>1 DEF NoGap
      <3>2. CASE target'[j] = Missing /\ Missing # None
        BY <2>1, <3>2, MissingIsNext
      <3>3. QED
        BY <2>4, <3>1, <3>2, Targets
    <2>5. ASSUME NEW j \in Jobs, Active(j)'
          PROVE  First' <= target'[j] /\ Filled(target[j])'
      <3>1. PICK x : x = target'[j]
        OBVIOUS
      <3>2. Filled(x)'
        BY <2>3, <2>4, <2>5, <3>1
      <3>3. QED
        BY <2>1, <2>4, <2>5, <3>1, <3>2 DEF Filled
    <2>6. \A e \in Ends : Filled(e)'
      BY <2>1, <2>3 DEF NoGap
    <2>7. QED
      BY <2>1, <2>5, <2>6 DEF NoGap
  <1>4. CASE records' # records
    <2>1. PICK j \in Jobs :
            /\ Store(j) /\ Holds(j) /\ now' = now
            /\ records' = records \cup {[start |-> Start(target[j]), end |-> target[j],
                                         rows |-> rows, lost |-> lost]}
      BY <1>4, Records
    <2>2. PICK c : c = target[j]
      OBVIOUS
    <2>3. Active(j) /\ c \in Int /\ c = CutoffOf(Day(c)) /\ Day(c) \in Int
      <3>1. Active(j)
        BY <2>1 DEF Active, Holds
      <3>2. c \in Int /\ c = CutoffOf(Day(c))
        BY <2>2, <3>1, TypeParts, TargetOfActive DEF Aligned
      <3>3. QED
        BY <3>1, <3>2, DayOf
    <2>4. Ends' = Ends \cup {c}
      <3>1. PICK n : n = [start |-> Start(target[j]), end |-> target[j],
                          rows |-> rows, lost |-> lost]
        OBVIOUS
      <3>2. n.end = c /\ records' = records \cup {n}
        BY <2>1, <2>2, <3>1
      <3>3. QED
        BY <3>2 DEF Ends
    <2>5. ASSUME NEW x, Succeeded(x) PROVE Succeeded(x)'
      BY <2>1, <2>5 DEF Succeeded
    <2>6. \A i \in Jobs : Active(i)' => Active(i) /\ target'[i] = target[i] /\ i # j
      <3>1. ASSUME NEW i \in Jobs, Active(i)' PROVE Active(i) /\ target'[i] = target[i]
        <4>1. ~(phase[i] = "idle" /\ Reconcile(i))
          BY <1>4 DEF Reconcile
        <4>2. QED
          BY <3>1, <4>1, Targets
      <3>2. ~Active(j)'
        <4>1. Leaves(j)
          BY <2>1, LeaveFacts DEF Store, Release
        <4>2. QED
          BY <4>1 DEF Leaves, Active
      <3>3. QED
        BY <3>1, <3>2
    <2>7. CASE records # {}
      <3>1. First' = First
        <4>1. First \in Ends /\ First \in Int /\ (\A e \in Ends : First <= e) /\ First <= c
          BY <2>2, <2>3, <2>7, FirstDigest DEF NoGap
        <4>2. First' \in Ends' /\ First' \in Int /\ \A e \in Ends' : First' <= e
          BY FirstDigestNext
        <4>3. QED
          BY <2>3, <2>4, <4>1, <4>2
      <3>2. ASSUME NEW x, Filled(x) PROVE Filled(x)'
        <4> SUFFICES ASSUME NEW d \in Int, First < CutoffOf(d), CutoffOf(d) < x,
                            d > Day(now) - Limit
                     PROVE  Succeeded(CutoffOf(d))'
          BY <1>2, <2>1, <3>1 DEF Filled, CutoffOf, Day, Succeeded
        <4>1. Succeeded(CutoffOf(d))
          BY <3>2 DEF Filled
        <4>2. QED
          BY <2>1, <4>1 DEF Succeeded, CutoffOf
      <3>3. \A e \in Ends \cup {c} : Filled(e)'
        BY <2>2, <2>3, <2>7, <3>2 DEF NoGap
      <3>4. ASSUME NEW i \in Jobs, Active(i)'
            PROVE  First' <= target'[i] /\ Filled(target[i])'
        <4>1. PICK x : x = target'[i]
          OBVIOUS
        <4>2. First <= x /\ Filled(x)'
          BY <2>6, <2>7, <3>2, <3>4, <4>1 DEF NoGap
        <4>3. QED
          BY <3>1, <4>1, <4>2 DEF Filled
      <3>5. QED
        BY <2>4, <3>3, <3>4 DEF NoGap
    <2>8. CASE records = {}
      <3>1. Ends' = {c} /\ First' = c
        <4>1. Ends' = {c}
          BY <2>4, <2>8 DEF Ends
        <4>2. First' \in Ends'
          BY FirstDigestNext
        <4>3. QED
          BY <4>1, <4>2
      <3>2. Filled(c)'
        <4> SUFFICES ASSUME NEW d \in Int, First' < CutoffOf(d), CutoffOf(d) < c
                     PROVE  FALSE
          BY <1>2 DEF Filled, CutoffOf
        <4>1. CutoffOf(d) \in Int
          BY <1>1, DayOfCutoff
        <4>2. QED
          BY <2>3, <3>1, <4>1
      <3>3. ASSUME NEW i \in Jobs, Active(i)'
            PROVE  First' <= target'[i] /\ Filled(target[i])'
        <4>1. PICK x : x = target'[i]
          OBVIOUS
        <4>2. Active(i) /\ x = target[i] /\ i # j
          BY <2>6, <3>3, <4>1
        <4>3. x \in Int /\ x = CutoffOf(Day(x)) /\ Day(x) \in Int
          <5>1. x \in Int /\ x = CutoffOf(Day(x))
            BY <4>2, TypeParts, TargetOfActive DEF Aligned
          <5>2. QED
            BY <5>1, DayOf
        <4>4. phase[i] = "waiting"
          <5>1. lock = j /\ lock # None
            BY <2>1, ConstantsAssumption DEF TypeOK, Holds
          <5>2. phase[i] # "woken" /\ ~Holds(i)
            BY <2>1, <4>2, <5>1, OneHolder DEF OneAtATime
          <5>3. phase[i] \in Phases
            BY DEF TypeOK
          <5>4. QED
            BY <4>2, <5>2, <5>3 DEF Phases, Holds, Active
        <4>5. c <= x /\ x <= c + Slots
          BY <2>1, <2>2, <2>8, <4>2, <4>4 DEF Recent, Ahead
        <4>6. ASSUME NEW d \in Int, c < CutoffOf(d), CutoffOf(d) < x PROVE FALSE
          <5>1. Day(c) < d /\ d < Day(x)
            BY <1>1, <2>3, <4>3, <4>6, DaysInOrder
          <5>2. CutoffOf(Day(c)) <= CutoffOf(d) - Slots
            BY <1>1, <2>3, <5>1, DaysInOrder
          <5>3. CutoffOf(d) \in Int /\ Slots \in Int
            BY <1>1, DayOfCutoff, ConstantsAssumption
          <5>4. QED
            BY <2>3, <4>3, <4>5, <4>6, <5>2, <5>3
        <4>7. Filled(x)'
          BY <1>2, <3>1, <4>6 DEF Filled, CutoffOf
        <4>8. QED
          BY <3>1, <4>1, <4>5, <4>7 DEF Filled
      <3>4. QED
        BY <3>1, <3>2, <3>3 DEF NoGap
    <2>9. QED
      BY <2>7, <2>8
  <1>5. QED
    BY <1>3, <1>4

DayInv == Inv /\ Aligned /\ Brief /\ Recent /\ NoGap

LEMMA DayInvAlways ==
    ASSUME NEW t, DigestTimes = {t}, 2 * MaxRun <= Slots
    PROVE  Spec => []DayInv
  <1>1. Init => Aligned /\ Brief /\ Recent /\ NoGap
    <2> SUFFICES ASSUME Init PROVE Aligned /\ Brief /\ Recent /\ NoGap
      OBVIOUS
    <2>1. /\ records = {} /\ now = 0 /\ held = 0 /\ lock = None
          /\ \A j \in Jobs : phase[j] = "idle"
      BY DEF Init
    <2>2. QED
      BY <2>1 DEF Aligned, Brief, Recent, NoGap, Active, Holds, Ahead
  <1>2. Inv /\ Inv' /\ Aligned /\ Brief /\ Recent /\ NoGap /\ [Next]_vars
        => Aligned' /\ Brief' /\ Recent' /\ NoGap'
    <2> SUFFICES ASSUME Inv, Inv', Aligned, Brief, Recent, NoGap, [Next]_vars
                 PROVE  Aligned' /\ Brief' /\ Recent' /\ NoGap'
      OBVIOUS
    <2>1. digestTime' = digestTime
      BY DEF Inv, TypeOK
    <2>2. TypeOK /\ TypeOK' /\ OneAtATime /\ Fresh /\ Stored
      BY DEF Inv
    <2>3. QED
      BY <2>1, <2>2, AlignedKept, BriefKept, RecentKept, NoGapKept
  <1>3. QED
    BY <1>1, <1>2, InvAlways, PTL DEF Spec, DayInv

\* While the digest time stays the same, no day between the first digest and one that is
\* stored is left out, unless it is too old to be made up for: whatever fails and whoever
\* gets the lock (reconcile, earliest_missing_cutoff).  Two runs take a day at
\* most: the first digest could else be of a day before yesterday when a job that came
\* for today waits.
THEOREM EachDayInTurn ==
    ASSUME NEW t, DigestTimes = {t}, 2 * MaxRun <= Slots
    PROVE  Spec => NoDayIsSkipped
  <1>1. DayInv /\ [Next]_vars
        => [\A r \in records' \ records : \A c \in Cutoffs :
              /\ records # {} /\ First < c /\ c < r.end
              /\ c = CutoffOf(Day(c)) /\ Day(c) > Day(now) - Limit
              => Succeeded(c)]_vars
    <2> SUFFICES ASSUME DayInv, [Next]_vars, NEW r \in records' \ records,
                        NEW c \in Cutoffs, records # {}, First < c, c < r.end,
                        c = CutoffOf(Day(c)), Day(c) > Day(now) - Limit
                 PROVE  Succeeded(c)
      OBVIOUS
    <2>1. PICK j \in Jobs : Holds(j) /\ r.end = target[j]
      BY Records DEF DayInv, Inv
    <2>2. Filled(r.end)
      BY <2>1 DEF DayInv, NoGap, Active, Holds
    <2>3. Day(c) \in Int
      BY DayOf, ConstantsAssumption DEF Cutoffs
    <2>4. QED
      BY <2>2, <2>3 DEF Filled
  <1>2. QED
    BY <1>1, DayInvAlways, PTL DEF Spec, NoDayIsSkipped
=============================================================================
