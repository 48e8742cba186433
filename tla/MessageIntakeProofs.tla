-------------------------- MODULE MessageIntakeProofs --------------------------
(* Proofs about the intake of messages and about the policy it applies, for any   *)
(* messages, chats, limits and settings, whatever listener, backfill and crashes  *)
(* do to each other.                                                              *)
EXTENDS MessageIntake, FiniteSetTheorems, WellFoundedInduction, TLAPS

------------------------------------------------------------------------------
\* The three rules of the policy agree.

\* The model never makes a message strict: an answer of its own that says so counts
\* only for a private message with a signal, and such a message is strict anyway
\* (_decision_qualifies_for_strict, services/p0.py:814-827).
THEOREM ModelPromotesNothing ==
    \A m \in Message, s \in Settings, d \in Decisions :
        QualifiesForStrict(m, s, d) <=> DeterministicStrict(m, s)
  BY DEF QualifiesForStrict, DeterministicStrict

\* A message the intake alerts is urgent in the digest even if the process died before
\* it was classified, unless its only reason is the watchlist or a reply of which the
\* row does not tell (services/digest.py:772-790, services/p0.py:493-564).
THEOREM AlertedIsUrgent ==
    \A m \in Message, s \in Settings :
        /\ Kind(m, s) = "strict"
        /\ m.type = "group" => ~WatchlistMatch(m, s) /\ m.mine # "unknown"
        => UrgentUnclassified(m)
  BY DEF Kind, ShouldClassify, UrgentUnclassified, DeterministicEquivalent,
         DeterministicStrict, GroupStrict, RepliesToMe

\* With the settings as they come, a text the digest lists among the urgent messages
\* was alerted when it came in, by the same rule.  A private reply to the owner is the
\* exception: the intake takes it for a reason in groups only.
THEOREM UrgentWasAlerted ==
    \A m \in Message : m.text /\ UrgentUnclassified(m) /\ (m.type = "private" => m.mine # "yes")
        => Kind(m, Defaults) = "strict"
  BY DEF Message, ChatTypes, Kind, ShouldClassify, UrgentUnclassified, Defaults,
         DeterministicEquivalent, DeterministicStrict, GroupStrict, RepliesToMe

\* What p0_check shows is what the intake does with a text that is neither a reply nor
\* of the watchlist, if private texts are classified (debug_p0_check,
\* services/p0.py:641-694).
THEOREM CheckTellsTheTruth ==
    \A m \in Message, s \in Settings :
        /\ m.text /\ s.private
        /\ ~RepliesToMe(m) /\ ~WatchlistMatch(m, s)
        => (DebugIsP0(m, s) <=> Kind(m, s) = "strict")
  BY DEF Message, ChatTypes, Kind, ShouldClassify, DebugIsP0, DeterministicStrict,
         GroupStrict

------------------------------------------------------------------------------
\* What is classified as strict is alerted.

Typed == /\ work = [a \in Actors |-> work[a]]
         /\ verdict \in [Messages -> Verdicts]

\* A strict message without an alert is in the hands of an actor that is about to
\* alert it, or was when the process died.
Carried ==
    \A m \in Messages : verdict[m] = "p0_strict" =>
        \/ m \in alerts \cup torn
        \/ \E a \in Actors : At(a, m, "alert")

IInv == Typed /\ Carried

\* A step that makes nothing strict, and after which who was about to alert still is.
StillAlerting ==
    \A a \in Actors, m \in Messages :
        At(a, m, "alert") => work'[a] = [msg |-> m, step |-> "alert"]

Gentle ==
    /\ \A m \in Messages : verdict'[m] = "p0_strict" => verdict[m] = "p0_strict"
    /\ alerts \subseteq alerts' /\ torn \subseteq torn'
    /\ StillAlerting

LEMMA GentleKeeps ==
    ASSUME Carried, Gentle
    PROVE  Carried'
  BY DEF Carried, Gentle, StillAlerting, At

\* An item in hand is not None.
LEMMA ItemIsSome ==
    ASSUME NEW m \in Messages
    PROVE  [msg |-> m, step |-> "alert"] # None
  <1>1. [msg |-> m, step |-> "alert"] \in [msg : Messages, step : Steps]
    BY DEF Steps
  <1>2. QED
    BY <1>1, ConstantsAssumption

\* An actor that goes on from a step other than the alert disturbs no alert.
LEMMA MoveIsGentle ==
    ASSUME Typed, NEW a \in Actors, NEW new,
           \A x \in Messages : ~At(a, x, "alert"),
           work' = [work EXCEPT ![a] = new]
    PROVE  /\ work' = [b \in Actors |-> work'[b]]
           /\ StillAlerting
  BY DEF Typed, At, StillAlerting

LEMMA OtherStep ==
    ASSUME NEW a \in Actors, NEW m, NEW step, step # "alert", At(a, m, step)
    PROVE  \A x \in Messages : ~At(a, x, "alert")
  BY DEF At

LEMMA IdleStep ==
    ASSUME NEW a \in Actors, Idle(a)
    PROVE  \A x \in Messages : ~At(a, x, "alert")
  BY ItemIsSome DEF At, Idle

\* An update that gets no further than the listener.
Dropped(m) == Ignore(m) \/ Lose(m)

\* Telegram, the clock and the rounds of the backfill leave the actors alone.
LEMMA RoundsAreGentle ==
    ASSUME Typed,
           \/ Send \/ Start \/ Tick \/ BeginPass \/ EndBackfill
           \/ \E c \in Chats : Scan(c) \/ SkipChat(c) \/ CompleteChat(c)
           \/ \E m \in Messages : Dropped(m)
    PROVE  Typed' /\ Gentle
  <1>1. UNCHANGED <<work, verdict, alerts, torn>>
    <2>1. CASE Send \/ Start \/ Tick \/ BeginPass \/ EndBackfill
      BY <2>1 DEF Send, Start, Tick, BeginPass, EndBackfill, rows, past
    <2>2. CASE \E c \in Chats : Scan(c)
      BY <2>2 DEF Scan, rows
    <2>3. CASE \E c \in Chats : SkipChat(c)
      BY <2>3 DEF SkipChat, rows, past
    <2>4. CASE \E c \in Chats : CompleteChat(c)
      BY <2>4, Zenon DEF CompleteChat, rows, past
    <2>5. CASE \E m \in Messages : Dropped(m)
      BY <2>5 DEF Dropped, Ignore, Lose, rows, env
    <2>6. QED
      BY <2>1, <2>2, <2>3, <2>4, <2>5
  <1>2. QED
    BY <1>1 DEF Typed, Gentle, StillAlerting, At

\* An actor takes a message in hand, or looks it up.
LEMMA TakesAreGentle ==
    ASSUME Typed,
           \/ \E c \in Chats : Fetch(c)
           \/ \E m \in Messages : Deliver(m) \/ Resume(m) \/ Look(m) \/ Advance(m)
    PROVE  Typed' /\ Gentle
  <1>1. UNCHANGED <<verdict, alerts, torn>>
    <2>1. CASE \E c \in Chats : Fetch(c)
      BY <2>1 DEF Fetch, rows, past
    <2>2. CASE \E m \in Messages : Deliver(m) \/ Resume(m) \/ Look(m)
      BY <2>2 DEF Deliver, Resume, Look, rows, env, still
    <2>3. CASE \E m \in Messages : Advance(m)
      BY <2>3, Zenon DEF Advance, rows, env
    <2>4. QED
      BY <2>1, <2>2, <2>3
  <1>2. PICK a \in Actors :
          /\ \A x \in Messages : ~At(a, x, "alert")
          /\ \E new : work' = [work EXCEPT ![a] = new]
    <2>1. CASE \E c \in Chats : Fetch(c)
      <3>1. Idle("backfill") /\ "backfill" \in Actors
        BY <2>1 DEF Fetch, Visiting, Actors
      <3>2. \E new : work' = [work EXCEPT !["backfill"] = new]
        BY <2>1 DEF Fetch, Goto
      <3>3. QED
        BY <3>1, <3>2, IdleStep
    <2>2. CASE \E m \in Messages : Deliver(m)
      <3>1. Idle("listener") /\ "listener" \in Actors
        BY <2>2 DEF Deliver, Actors
      <3>2. \E new : work' = [work EXCEPT !["listener"] = new]
        BY <2>2 DEF Deliver, Goto
      <3>3. QED
        BY <3>1, <3>2, IdleStep
    <2>3. CASE \E m \in Messages : Resume(m) \/ Look(m) \/ Advance(m)
      <3>1. PICK m \in Messages, step \in {"fetched", "look", "advance"} :
              At("backfill", m, step)
        BY <2>3 DEF Resume, Look, Advance
      <3>2. "backfill" \in Actors /\ step # "alert"
        BY DEF Actors
      <3>3. \E new : work' = [work EXCEPT !["backfill"] = new]
        BY <2>3 DEF Resume, Look, Advance, Goto
      <3>4. QED
        BY <3>1, <3>2, <3>3, OtherStep
    <2>4. QED
      BY <2>1, <2>2, <2>3
  <1>3. QED
    BY <1>1, <1>2, MoveIsGentle DEF Typed, Gentle

\* An actor goes on with its message, without an alert to create and without a
\* strict verdict.
LEMMA HandleIsGentle ==
    ASSUME Typed, NEW a \in Actors, NEW m \in Messages,
           \/ Save(a, m) \/ Policy(a, m) \/ Budget(a, m) \/ Mark(a, m)
           \/ Ask(a, m) \/ Review(a, m)
    PROVE  Typed' /\ Gentle
  <1>1. UNCHANGED <<alerts, torn>>
    BY Zenon DEF Save, Policy, Budget, Mark, Ask, Review, Classify, rows, still, env
  <1>2. \A x \in Messages : ~At(a, x, "alert")
    <2>1. PICK step \in {"save", "policy", "budget", "mark", "ask", "review"} :
            At(a, m, step)
      BY DEF Save, Policy, Budget, Mark, Ask, Review
    <2>2. QED
      BY <2>1, OtherStep
  <1>3. \E new : work' = [work EXCEPT ![a] = new]
    BY DEF Save, Policy, Budget, Mark, Ask, Review, Classify, Finish, Goto
  <1>4. \/ verdict' = verdict
        \/ \E v \in {"p0_candidate", "not_p0"} : verdict' = [verdict EXCEPT ![m] = v]
    BY DEF Save, Policy, Budget, Mark, Ask, Review, Classify, rows
  <1>5. verdict' \in [Messages -> Verdicts]
    BY <1>4 DEF Typed, Verdicts
  <1>6. \A x \in Messages : verdict'[x] = "p0_strict" => verdict[x] = "p0_strict"
    BY <1>4 DEF Typed
  <1>7. Typed' /\ StillAlerting
    BY <1>2, <1>3, <1>5, MoveIsGentle DEF Typed
  <1>8. QED
    BY <1>1, <1>6, <1>7 DEF Gentle

\* Who makes a message strict goes on to alert it.
LEMMA StrictCarries ==
    ASSUME IInv, NEW a \in Actors, NEW m \in Messages, Strict(a, m)
    PROVE  IInv'
  <1>1. work' = [work EXCEPT ![a] = [msg |-> m, step |-> "alert"]]
    BY DEF Strict, Goto
  <1>2. \A x \in Messages : ~At(a, x, "alert")
    BY OtherStep DEF Strict
  <1>3. Typed' /\ StillAlerting
    BY <1>1, <1>2, MoveIsGentle DEF IInv, Typed, Strict, Verdicts
  <1>4. UNCHANGED <<alerts, torn>> /\ verdict' = [verdict EXCEPT ![m] = "p0_strict"]
    BY DEF Strict, still, env
  <1>5. ASSUME NEW x \in Messages, verdict'[x] = "p0_strict"
        PROVE  x \in alerts' \cup torn' \/ \E b \in Actors : At(b, x, "alert")'
    <2>1. CASE x = m
      BY <2>1, <1>1 DEF IInv, Typed, At
    <2>2. CASE x # m
      BY <2>2, <1>3, <1>4, <1>5 DEF IInv, Typed, Carried, StillAlerting, At
    <2>3. QED
      BY <2>1, <2>2
  <1>6. QED
    BY <1>3, <1>5 DEF IInv, Carried

\* The alert is created for the message in hand, the other actor is not disturbed.
LEMMA AlertCarries ==
    ASSUME IInv, NEW a \in Actors, NEW m \in Messages, Alert(a, m)
    PROVE  IInv'
  <1>1. /\ At(a, m, "alert") /\ alerts' = alerts \cup {m}
        /\ UNCHANGED <<verdict, torn>>
        /\ \E new : work' = [work EXCEPT ![a] = new]
    BY DEF Alert, Finish, Goto, still, env
  <1>2. ASSUME NEW x \in Messages, verdict'[x] = "p0_strict", x \notin alerts' \cup torn'
        PROVE  \E b \in Actors : At(b, x, "alert")'
    <2>1. PICK b \in Actors : At(b, x, "alert")
      BY <1>1, <1>2 DEF IInv, Carried
    <2>2. b # a
      BY <1>1, <1>2, <2>1 DEF At
    <2>3. QED
      BY <1>1, <2>1, <2>2 DEF IInv, Typed, At
  <1>3. Typed'
    BY <1>1 DEF IInv, Typed
  <1>4. QED
    BY <1>2, <1>3 DEF IInv, Carried

\* What was in hand when the process died is known to be.
LEMMA CrashCarries ==
    ASSUME IInv, Crash
    PROVE  IInv'
  <1>1. /\ UNCHANGED <<verdict, alerts>>
        /\ torn' = torn \cup {work[a].msg : a \in {b \in Actors : ~Idle(b)}}
        /\ work' = [a \in Actors |-> None]
    BY DEF Crash, rows
  <1>2. ASSUME NEW x \in Messages, NEW a \in Actors, At(a, x, "alert")
        PROVE  x \in torn'
    <2>1. ~Idle(a) /\ work[a].msg = x
      BY <1>2, IdleStep DEF At
    <2>2. QED
      BY <1>1, <2>1
  <1>3. Typed'
    BY <1>1 DEF IInv, Typed
  <1>4. QED
    BY <1>1, <1>2, <1>3 DEF IInv, Carried

LEMMA IInvStep ==
    ASSUME IInv, [Next]_vars
    PROVE  IInv'
  <1>1. CASE \/ Send \/ Start \/ Tick \/ BeginPass \/ EndBackfill
             \/ \E c \in Chats : Scan(c) \/ SkipChat(c) \/ CompleteChat(c)
             \/ \E m \in Messages : Dropped(m)
    BY <1>1, RoundsAreGentle, GentleKeeps DEF IInv
  <1>2. CASE \/ \E c \in Chats : Fetch(c)
             \/ \E m \in Messages : Deliver(m) \/ Resume(m) \/ Look(m) \/ Advance(m)
    BY <1>2, TakesAreGentle, GentleKeeps DEF IInv
  <1>3. CASE Crash
    BY <1>3, CrashCarries
  <1>4. CASE \E a \in Actors, m \in Messages : Handle(a, m)
    <2>1. PICK a \in Actors, m \in Messages : Handle(a, m)
      BY <1>4
    <2>2. CASE Strict(a, m)
      BY <2>2, StrictCarries
    <2>3. CASE Alert(a, m)
      BY <2>3, AlertCarries
    <2>4. CASE \/ Save(a, m) \/ Policy(a, m) \/ Budget(a, m) \/ Mark(a, m)
               \/ Ask(a, m) \/ Review(a, m)
      BY <2>4, HandleIsGentle, GentleKeeps DEF IInv
    <2>5. QED
      BY <2>1, <2>2, <2>3, <2>4 DEF Handle
  <1>5. CASE UNCHANGED vars
    <2>1. UNCHANGED <<work, verdict, alerts, torn>>
      BY <1>5 DEF vars, rows, past
    <2>2. QED
      BY <2>1 DEF IInv, Typed, Carried, At
  <1>6. "listener" \in Actors /\ "backfill" \in Actors
    BY DEF Actors
  <1>7. QED
    BY <1>1, <1>2, <1>3, <1>4, <1>5, <1>6 DEF Next, Backfill, Listener, Dropped

\* What either of the two classifies as strict is alerted, unless the process dies
\* between the commit of the verdict and that of the job
\* (handle_p0_candidate, services/p0.py).
THEOREM StrictReachesTheOutbox ==
    Spec => []StrictIsAlerted
  <1>1. Init => IInv
    BY DEF Init, IInv, Typed, Carried, Verdicts
  <1>2. IInv /\ [Next]_vars => IInv'
    BY IInvStep
  <1>3. IInv => StrictIsAlerted
    <2>1. SUFFICES ASSUME IInv, NEW m \in Messages, verdict[m] = "p0_strict",
                          m \notin alerts \cup torn
                   PROVE  InHand(m)
      BY DEF StrictIsAlerted
    <2>2. PICK a \in Actors : At(a, m, "alert")
      BY <2>1 DEF IInv, Carried
    <2>3. ~Idle(a)
      BY <2>2, IdleStep
    <2>4. QED
      BY <2>2, <2>3 DEF InHand, At
  <1>4. QED
    BY <1>1, <1>2, <1>3, PTL DEF Spec

------------------------------------------------------------------------------
\* Types, with what the cursor and the budget rest on: what is in hand was sent, and
\* is stored once its row is saved.

ItemsAreSent ==
    \A a \in Actors : ~Idle(a) =>
        /\ work[a].msg \in 1..sent
        /\ work[a].step \notin {"fetched", "look", "save"} => work[a].msg \in stored

\* Numbers grow with time; no window of a backfill ends in the future, and no cursor
\* is ahead of what was sent.
Clock ==
    /\ \A m, n \in 1..sent : m <= n => sentAt[m] <= sentAt[n]
    /\ \A m \in 1..sent : sentAt[m] <= now
    /\ runAt <= now
    /\ \A c \in Chats : states[c] # None => states[c].end <= now /\ states[c].last <= sent

\* The message the backfill has in hand is the next one of its chat that was sent
\* since the window began.
Ahead(c) ==
    {m \in 1..sent : ChatOf[m] = c /\ states[c].last < m /\ states[c].start <= sentAt[m]}

NextInHand ==
    ~Idle("backfill") =>
        LET m == work["backfill"].msg
            c == ChatOf[m]
        IN /\ states[c] # None
           /\ m \in Ahead(c)
           /\ \A x \in Ahead(c) : m <= x

PassHasStates == \A c \in pass : states[c] # None

TypeInv == TypeOK /\ ItemsAreSent /\ PassHasStates

\* A set of numbers that is not empty has a least one, and a greatest if it is bounded.
LEMMA LeastOf ==
    ASSUME NEW S \in SUBSET Nat, S # {}
    PROVE  Least(S) \in S /\ \A y \in S : Least(S) <= y
  <1>1. IsWellFoundedOn(OpToRel(<, Nat), Nat)
    BY NatLessThanWellFounded
  <1>2. PICK x \in S : \A y \in S : <<y, x>> \notin OpToRel(<, Nat)
    BY <1>1, WFMin
  <1>3. \A y \in S : ~(y < x)
    BY <1>2 DEF OpToRel
  <1>4. \E z \in S : \A y \in S : z <= y
    BY <1>3
  <1>5. QED
    BY <1>4 DEF Least

LEMMA GreatestOf ==
    ASSUME NEW n \in Nat, NEW S \in SUBSET (0..n)
    PROVE  Greatest(S) \in 0..n /\ \A y \in S : y <= Greatest(S)
  <1>1. CASE S = {}
    BY <1>1 DEF Greatest
  <1>2. CASE S # {}
    <2> DEFINE T == {n - x : x \in S}
    <2>1. T \in SUBSET Nat /\ T # {}
      BY <1>2
    <2>2. \E z \in S : \A y \in S : y <= z
      <3>1. PICK z \in S : Least(T) = n - z
        BY <2>1, LeastOf
      <3>2. \A y \in S : n - z <= n - y
        BY <2>1, <3>1, LeastOf
      <3>3. QED
        BY <3>2
    <2>3. Greatest(S) \in S /\ \A y \in S : y <= Greatest(S)
      BY <1>2, <2>2 DEF Greatest
    <2>4. QED
      BY <2>3
  <1>3. QED
    BY <1>1, <1>2


\* The parts of the type that most actions leave alone.
ClockTyped == /\ now \in Times /\ runAt \in Times /\ crashes \in 0..MaxCrashes
              /\ sent \in 0..MaxMessages /\ sentAt \in [Messages -> Times]
              /\ kind \in [Messages -> Kinds] /\ codes \subseteq Messages
              /\ phase \in {"down", "scanning", "filling", "running"}

RoundTyped == /\ toScan \subseteq Chats /\ ignored \subseteq Chats /\ pass \subseteq Chats
              /\ remaining \in 0..Total
              /\ fetched \in [Chats -> 0..PerChat] /\ progressed \in BOOLEAN
              /\ states \in [Chats -> States \cup {None}]
              /\ base \in [Chats -> 0..MaxMessages]
              /\ PassHasStates

ItemsTyped == /\ work \in [Actors -> [msg : Messages, step : Steps] \cup {None}]
              /\ pending \subseteq 1..sent
              /\ missed \subseteq 1..sent /\ torn \subseteq 1..sent /\ unread \subseteq 1..sent
              /\ stored \subseteq 1..sent
              /\ alerts \subseteq stored
              /\ ItemsAreSent

RowsTyped == /\ verdict \in [Messages -> Verdicts]
             /\ called \in [Messages -> Times \cup {None}]
             /\ asks \subseteq Actors \X Messages /\ failed \subseteq Messages

LEMMA TypeParts ==
    TypeInv <=> ClockTyped /\ RoundTyped /\ ItemsTyped /\ RowsTyped
  BY DEF TypeInv, TypeOK, ClockTyped, RoundTyped, ItemsTyped, RowsTyped

LEMMA TypePartsNext ==
    ASSUME ClockTyped', RoundTyped', ItemsTyped', RowsTyped'
    PROVE  TypeInv'
  BY TypeParts, PTL

LEMMA NoneIsNoState == None \notin [msg : Messages, step : Steps]
  BY ConstantsAssumption

LEMMA SendTypes == ASSUME TypeInv, Send PROVE TypeInv'
  <1>1. sent + 1 \in Messages /\ sent' = sent + 1 /\ 1..sent \subseteq 1..sent'
    BY TypeParts, ConstantsAssumption DEF Send, ClockTyped, Messages
  <1>2. ClockTyped'
    BY <1>1, TypeParts DEF Send, ClockTyped, Messages, scan
  <1>3. RoundTyped'
    BY TypeParts DEF Send, RoundTyped, PassHasStates, scan, round
  <1>4. ItemsTyped'
    BY <1>1, TypeParts DEF Send, ItemsTyped, ItemsAreSent, Idle, rows, ClockTyped, Messages
  <1>5. RowsTyped'
    BY TypeParts DEF Send, RowsTyped, rows
  <1>6. QED
    BY <1>2, <1>3, <1>4, <1>5, TypePartsNext

LEMMA StartTypes == ASSUME TypeInv, Start PROVE TypeInv'
  <1>1. ClockTyped' /\ RowsTyped'
    BY TypeParts DEF Start, ClockTyped, RowsTyped, telegram, rows, past
  <1>2. Total \in 0..Total /\ [c \in Chats |-> 0] \in [Chats -> 0..PerChat]
    BY ConstantsAssumption
  <1> USE <1>2
  <1>4. RoundTyped'
    BY TypeParts DEF Start, RoundTyped, PassHasStates, past
  <1>3. ItemsTyped'
    BY TypeParts DEF Start, ItemsTyped, ItemsAreSent, Idle, telegram, rows, past
  <1>5. QED
    BY <1>1, <1>3, <1>4, TypePartsNext

LEMMA CrashTypes == ASSUME TypeInv, Crash PROVE TypeInv'
  <1>1. ClockTyped' /\ RowsTyped'
    BY TypeParts, ConstantsAssumption DEF Crash, ClockTyped, RowsTyped, telegram, scan, rows
  <1>2. RoundTyped'
    BY TypeParts DEF Crash, RoundTyped, PassHasStates, scan, round
  <1>3. {work[a].msg : a \in {b \in Actors : ~Idle(b)}} \subseteq 1..sent
    BY TypeParts DEF ItemsTyped, ItemsAreSent
  <1>4. \A a \in Actors : Idle(a)'
    BY DEF Crash, Idle
  <1>5. work' \in [Actors -> [msg : Messages, step : Steps] \cup {None}]
    BY DEF Crash
  <1>6. ItemsTyped'
    BY <1>3, <1>4, <1>5, TypeParts DEF Crash, ItemsTyped, ItemsAreSent, telegram, rows
  <1>7. QED
    BY <1>1, <1>2, <1>6, TypePartsNext

LEMMA TickTypes == ASSUME TypeInv, Tick PROVE TypeInv'
  <1>1. ClockTyped' /\ RowsTyped'
    BY TypeParts, ConstantsAssumption
    DEF Tick, ClockTyped, RowsTyped, Times, telegram, scan, rows, past
  <1>2. RoundTyped'
    BY TypeParts DEF Tick, RoundTyped, PassHasStates, scan, round, past
  <1>3. ItemsTyped'
    BY TypeParts DEF Tick, ItemsTyped, ItemsAreSent, Idle, telegram, rows, past
  <1>4. QED
    BY <1>1, <1>2, <1>3, TypePartsNext

\* What the rounds of the backfill do not touch.
LEMMA RoundsTypes ==
    ASSUME TypeInv, RoundTyped',
           phase' \in {"down", "scanning", "filling", "running"},
           UNCHANGED <<now, telegram, pending, runAt, work, rows, missed, torn, unread, asks,
                       failed, crashes>>
    PROVE  TypeInv'
  <1>1. ClockTyped' /\ RowsTyped' /\ ItemsTyped'
    BY TypeParts DEF ClockTyped, RowsTyped, ItemsTyped, ItemsAreSent, Idle, telegram, rows
  <1>2. QED
    BY <1>1, TypePartsNext

\* The state a chat is given.
LEMMA ScanIsState ==
    ASSUME TypeInv, NEW c \in Chats
    PROVE  /\ Greatest(StoredOf(c)) \in 0..sent
           /\ \A m \in StoredOf(c) : m <= Greatest(StoredOf(c))
           /\ [start |-> runAt - Back, end |-> runAt, completed |-> FALSE,
               last |-> Greatest(StoredOf(c))] \in States
  <1>1. StoredOf(c) \in SUBSET (0..sent) /\ sent \in Nat
    BY TypeParts, ConstantsAssumption DEF ItemsTyped, ClockTyped, StoredOf
  <1>2. QED
    BY <1>1, GreatestOf, TypeParts, ConstantsAssumption DEF ClockTyped, States, Times

LEMMA ScanTypes == ASSUME TypeInv, NEW c \in Chats, Scan(c) PROVE TypeInv'
  <1>1. RoundTyped'
    <2>1. CASE states[c] = None
      BY <2>1, ScanIsState, TypeParts, ConstantsAssumption
      DEF Scan, RoundTyped, PassHasStates, round, ClockTyped
    <2>2. CASE states[c] # None
      BY <2>2, TypeParts DEF Scan, RoundTyped, PassHasStates, round
    <2>3. QED
      BY <2>1, <2>2
  <1>2. QED
    BY <1>1, RoundsTypes, TypeParts DEF Scan, ClockTyped

LEMMA PassTypes == ASSUME TypeInv, BeginPass \/ EndBackfill PROVE TypeInv'
  <1>1. RoundTyped'
    BY TypeParts DEF BeginPass, EndBackfill, RoundTyped, PassHasStates, scan, round, past
  <1>2. QED
    BY <1>1, RoundsTypes DEF BeginPass, EndBackfill, scan, past

LEMMA SkipTypes == ASSUME TypeInv, NEW c \in Chats, SkipChat(c) PROVE TypeInv'
  <1>1. RoundTyped'
    BY TypeParts DEF SkipChat, RoundTyped, PassHasStates, scan, past
  <1>2. QED
    BY <1>1, RoundsTypes, TypeParts DEF SkipChat, scan, past, ClockTyped

LEMMA CompleteTypes == ASSUME TypeInv, NEW c \in Chats, CompleteChat(c) PROVE TypeInv'
  <1>1. /\ c \in pass /\ pass' = pass \ {c}
        /\ states' = [states EXCEPT ![c].completed = TRUE]
        /\ UNCHANGED <<toScan, ignored, remaining, fetched, progressed, base>>
    BY Zenon DEF CompleteChat, Visiting, scan, past
  <1>2. states[c] \in States /\ [states[c] EXCEPT !.completed = TRUE] \in States
    BY <1>1, TypeParts DEF RoundTyped, PassHasStates, States
  <1>3. RoundTyped'
    BY <1>1, <1>2, TypeParts DEF RoundTyped, PassHasStates, States
  <1>4. /\ UNCHANGED phase
        /\ UNCHANGED <<now, telegram, pending, runAt, work, rows, missed, torn, unread, asks,
                       failed, crashes>>
    BY Zenon DEF CompleteChat, scan, past
  <1>5. QED
    BY <1>3, <1>4, RoundsTypes, TypeParts DEF ClockTyped

\* An actor takes or goes on with a message that was sent, or drops it.
IsStep(a, m, step) == work' = [work EXCEPT ![a] = [msg |-> m, step |-> step]]

LEMMA StepItems ==
    ASSUME TypeInv, NEW a \in Actors, NEW m \in 1..sent, NEW step \in Steps,
           IsStep(a, m, step) \/ work' = [work EXCEPT ![a] = None],
           step \notin {"fetched", "look", "save"} => m \in stored',
           UNCHANGED <<sent, missed, torn, unread>>, pending' \subseteq pending,
           stored \subseteq stored', stored' \subseteq 1..sent,
           alerts' \subseteq stored'
    PROVE  ItemsTyped'
  <1>1. m \in Messages
    BY TypeParts, ConstantsAssumption DEF ClockTyped, Messages
  <1>2. work' \in [Actors -> [msg : Messages, step : Steps] \cup {None}]
    BY <1>1, TypeParts DEF ItemsTyped, IsStep
  <1>3. \A b \in Actors : b # a => work'[b] = work[b]
    BY TypeParts DEF ItemsTyped, IsStep
  <1>4. work'[a] \in {None, [msg |-> m, step |-> step]}
    BY TypeParts DEF ItemsTyped, IsStep
  <1>5. ItemsAreSent'
    BY <1>3, <1>4, TypeParts DEF ItemsTyped, ItemsAreSent, Idle
  <1>6. QED
    BY <1>2, <1>5, TypeParts DEF ItemsTyped

LEMMA FetchTypes == ASSUME TypeInv, NEW c \in Chats, Fetch(c) PROVE TypeInv'
  <1>1. Least(Candidates(c)) \in 1..sent
    <2>1. /\ Candidates(c) \in SUBSET Nat /\ Candidates(c) # {}
          /\ Candidates(c) \subseteq 1..sent
      BY DEF Fetch, Candidates
    <2>2. QED
      BY <2>1, LeastOf
  <1>2. RoundTyped'
    <2>1. remaining - 1 \in 0..Total /\ fetched[c] + 1 \in 0..PerChat
      BY TypeParts, ConstantsAssumption DEF Fetch, Visiting, RoundTyped
    <2>2. QED
      BY <2>1, TypeParts DEF Fetch, RoundTyped, PassHasStates, scan, past
  <1>3. ItemsTyped'
    <2>1. "backfill" \in Actors /\ "fetched" \in Steps
      BY DEF Actors, Steps
    <2>2. IsStep("backfill", Least(Candidates(c)), "fetched")
      BY DEF Fetch, Goto, IsStep
    <2>3. UNCHANGED <<sent, missed, torn, unread, pending, stored, alerts>>
      BY DEF Fetch, telegram, past, rows
    <2>4. QED
      BY <1>1, <2>1, <2>2, <2>3, StepItems, TypeParts DEF ItemsTyped
  <1>4. ClockTyped' /\ RowsTyped'
    BY TypeParts DEF Fetch, ClockTyped, RowsTyped, telegram, scan, rows, past
  <1>5. QED
    BY <1>2, <1>3, <1>4, TypePartsNext

\* What an actor with a message in hand may do to everything else.
Handling ==
    /\ env' = env /\ pending' \subseteq pending /\ round' = round /\ states' = states
    /\ stored \subseteq stored' /\ alerts' \subseteq stored'
    /\ asks' \subseteq Actors \X Messages /\ failed' \subseteq Messages

LEMMA HandlingTypes ==
    ASSUME TypeInv, NEW a \in Actors, NEW m \in 1..sent, NEW step \in Steps,
           IsStep(a, m, step) \/ work' = [work EXCEPT ![a] = None],
           step \notin {"fetched", "look", "save"} => m \in stored',
           Handling, stored' \subseteq 1..sent,
           verdict' \in [Messages -> Verdicts],
           called' \in [Messages -> Times \cup {None}]
    PROVE  TypeInv'
  <1>1. ItemsTyped'
    BY StepItems DEF Handling, env, telegram
  <1>2. ClockTyped'
    BY TypeParts DEF Handling, env, telegram, scan, ClockTyped
  <1>3. RoundTyped'
    BY TypeParts DEF Handling, env, scan, round, RoundTyped, PassHasStates
  <1>4. RowsTyped'
    BY TypeParts DEF Handling, RowsTyped
  <1>5. QED
    BY <1>1, <1>2, <1>3, <1>4, TypePartsNext


\* A message in hand was sent, and is stored if its step says so.
LEMMA InHandIsSent ==
    ASSUME TypeInv, NEW a \in Actors, NEW m \in Messages, NEW step \in Steps,
           At(a, m, step)
    PROVE  /\ ~Idle(a) /\ m \in 1..sent
           /\ step \notin {"fetched", "look", "save"} => m \in stored
  <1>1. [msg |-> m, step |-> step] \in [msg : Messages, step : Steps]
    OBVIOUS
  <1>2. ~Idle(a)
    BY <1>1, ConstantsAssumption DEF Idle, At
  <1>3. QED
    BY <1>2, TypeParts DEF ItemsTyped, ItemsAreSent, At

\* Every step of an actor that has a message in hand: the steps it may come from, the
\* one it goes to, and what it leaves alone.
LEMMA DeliverTypes ==
    ASSUME TypeInv, NEW m \in Messages, Deliver(m)
    PROVE  TypeInv'
  <1>1. m \in 1..sent /\ "listener" \in Actors /\ "save" \in Steps
    BY TypeParts DEF Deliver, Arrived, ItemsTyped, Actors, Steps
  <1>2. IsStep("listener", m, "save")
    BY DEF Deliver, Goto, IsStep
  <1>3. Handling /\ UNCHANGED <<stored, verdict, called>>
    BY TypeParts DEF Deliver, Handling, ItemsTyped, RowsTyped, env, round, rows
  <1>4. QED
    BY <1>1, <1>2, <1>3, HandlingTypes, TypeParts DEF ItemsTyped, RowsTyped

LEMMA DropTypes ==
    ASSUME TypeInv, NEW m \in Messages, Dropped(m)
    PROVE  TypeInv'
  <1>1. /\ m \in pending /\ pending' = pending \ {m}
        /\ unread' = unread \/ unread' = unread \cup {m}
        /\ UNCHANGED <<now, telegram, phase, scan, round, work, rows, states, missed, torn,
                       asks, failed, base, crashes>>
    BY DEF Dropped, Ignore, Lose, Arrived, env
  <1>2. ClockTyped' /\ RowsTyped'
    BY <1>1, TypeParts DEF ClockTyped, RowsTyped, telegram, scan, rows
  <1>3. RoundTyped'
    BY <1>1, TypeParts DEF RoundTyped, PassHasStates, scan, round
  <1>4. ItemsTyped'
    BY <1>1, TypeParts DEF ItemsTyped, ItemsAreSent, Idle, telegram, rows
  <1>5. QED
    BY <1>2, <1>3, <1>4, TypePartsNext

LEMMA LookTypes ==
    ASSUME TypeInv, NEW m \in Messages, Resume(m) \/ Look(m)
    PROVE  TypeInv'
  <1>1. "backfill" \in Actors /\ {"fetched", "look", "save", "advance"} \subseteq Steps
    BY DEF Actors, Steps
  <1>2. m \in 1..sent
    BY <1>1, InHandIsSent DEF Resume, Look
  <1>3. Handling /\ UNCHANGED <<stored, verdict, called>>
    BY TypeParts DEF Resume, Look, Handling, ItemsTyped, RowsTyped, rows, still
  <1>4. PICK step \in {"look", "save", "advance"} :
          IsStep("backfill", m, step) /\ (step = "advance" => m \in stored)
    BY DEF Resume, Look, Goto, IsStep
  <1>5. step \in Steps /\ (step \notin {"fetched", "look", "save"} => m \in stored')
    BY <1>1, <1>3, <1>4
  <1>6. QED
    BY <1>1, <1>2, <1>3, <1>4, <1>5, HandlingTypes, TypeParts DEF ItemsTyped, RowsTyped



\* A message is handled: where its actor goes on to, and what it does to the rows.
Handled(a, m) ==
    /\ still' = still /\ m \in stored'
    /\ \/ a = "listener" /\ work' = [work EXCEPT ![a] = None]
       \/ \E step \in Steps \ {"fetched", "look", "save"} : IsStep(a, m, step)
    /\ stored' = stored \/ stored' = stored \cup {m}
    /\ alerts' = alerts \/ alerts' = alerts \cup {m}
    /\ verdict' = verdict \/ \E v \in Verdicts : verdict' = [verdict EXCEPT ![m] = v]
    /\ called' = called \/ called' = [called EXCEPT ![m] = sentAt[m]]
    /\ asks' = asks \/ asks' = asks \cup {<<a, m>>}
    /\ failed' = failed \/ failed' = failed \cup {m}

LEMMA HandleIsHandled ==
    ASSUME TypeInv, NEW a \in Actors, NEW m \in Messages, Handle(a, m)
    PROVE  m \in 1..sent /\ Handled(a, m)
  <1> USE DEF Handle, Save, Policy, Budget, Mark, Ask, Strict, Alert, Review, Classify
  <1>1. {"save", "policy", "budget", "mark", "ask", "strict", "alert", "review", "advance"}
          \subseteq Steps
    BY DEF Steps
  <1>2. PICK step \in {"save", "policy", "budget", "mark", "ask", "strict", "alert",
                       "review"} :
          At(a, m, step) /\ (step = "save" => stored' = stored \cup {m})
    <2>1. \/ At(a, m, "save") /\ stored' = stored \cup {m}
          \/ \E step \in {"policy", "budget", "mark", "ask", "strict", "alert", "review"} :
               At(a, m, step)
      OBVIOUS
    <2>2. QED
      BY <2>1, Zenon
  <1>3. m \in 1..sent /\ (step # "save" => m \in stored)
    BY <1>1, <1>2, InHandIsSent
  <1>4. still' = still
    BY Zenon DEF still
  <1>5. stored' = stored \/ stored' = stored \cup {m}
    BY Zenon DEF rows
  <1>6. alerts' = alerts \/ alerts' = alerts \cup {m}
    BY Zenon DEF rows
  <1>7. called' = called \/ called' = [called EXCEPT ![m] = sentAt[m]]
    BY Zenon DEF rows
  <1>8. asks' = asks \/ asks' = asks \cup {<<a, m>>}
    BY Zenon
  <1>9. failed' = failed \/ failed' = failed \cup {m}
    BY Zenon
  <1>10. verdict' = verdict \/ \E v \in Verdicts : verdict' = [verdict EXCEPT ![m] = v]
    BY DEF rows, Verdicts
  <1>11. \/ a = "listener" /\ work' = [work EXCEPT ![a] = None]
         \/ \E y \in {"policy", "review", "budget", "mark", "ask", "strict", "alert",
                      "advance"} : Goto(a, m, y)
    BY DEF Finish
  <1>12. \/ a = "listener" /\ work' = [work EXCEPT ![a] = None]
         \/ \E y \in Steps \ {"fetched", "look", "save"} : IsStep(a, m, y)
    BY <1>1, <1>11 DEF IsStep, Goto
  <1>13. m \in stored'
    BY <1>2, <1>3, <1>5
  <1>14. QED
    BY <1>3, <1>4, <1>5, <1>6, <1>7, <1>8, <1>9, <1>10, <1>12, <1>13, Zenon DEF Handled

LEMMA HandleTypes ==
    ASSUME TypeInv, NEW a \in Actors, NEW m \in Messages, Handle(a, m)
    PROVE  TypeInv'
  <1>1. m \in 1..sent /\ Handled(a, m)
    BY HandleIsHandled
  <1>2. /\ stored \subseteq stored' /\ stored' \subseteq 1..sent /\ m \in stored'
        /\ alerts' \subseteq stored'
    BY <1>1, TypeParts DEF Handled, ItemsTyped
  <1>3. asks' \subseteq Actors \X Messages /\ failed' \subseteq Messages
    BY <1>1, TypeParts DEF Handled, RowsTyped
  <1>4. verdict' \in [Messages -> Verdicts]
    BY <1>1, TypeParts DEF Handled, RowsTyped
  <1>5. called' \in [Messages -> Times \cup {None}]
    BY <1>1, TypeParts DEF Handled, RowsTyped, ClockTyped
  <1>6. Handling
    BY <1>1, <1>2, <1>3 DEF Handled, Handling, still
  <1>7. PICK step \in Steps :
          IsStep(a, m, step) \/ work' = [work EXCEPT ![a] = None]
    BY <1>1 DEF Handled, Steps
  <1>8. QED
    BY <1>1, <1>2, <1>4, <1>5, <1>6, <1>7, HandlingTypes

LEMMA AdvanceTypes ==
    ASSUME TypeInv, NextInHand, NEW m \in Messages, Advance(m)
    PROVE  TypeInv'
  <1>1. "backfill" \in Actors /\ "advance" \in Steps
    BY DEF Actors, Steps
  <1>2. /\ At("backfill", m, "advance")
        /\ states' = [states EXCEPT ![ChatOf[m]].last = m]
        /\ pass' = pass \ {ChatOf[m]}
        /\ work' = [work EXCEPT !["backfill"] = None]
        /\ UNCHANGED <<env, pending, remaining, fetched, progressed, rows, asks, failed>>
    BY Zenon DEF Advance
  <1>3. m \in 1..sent
    BY <1>1, <1>2, InHandIsSent
  <1>4. ItemsTyped'
    <2>1. UNCHANGED <<sent, missed, torn, unread, pending, stored, alerts>>
      BY <1>2 DEF env, telegram, rows
    <2>2. m \in stored
      BY <1>1, <1>2, InHandIsSent
    <2>3. QED
      BY <1>1, <1>2, <1>3, <2>1, <2>2, StepItems, TypeParts DEF ItemsTyped
  <1>5. RoundTyped'
    <2>1. m \in 0..MaxMessages /\ ChatOf[m] \in Chats
      BY <1>3, TypeParts, ConstantsAssumption DEF ClockTyped
    <2>2. states[ChatOf[m]] # None
      <3>1. ~Idle("backfill") /\ work["backfill"].msg = m
        BY <1>1, <1>2, InHandIsSent DEF At
      <3>2. QED
        BY <3>1 DEF NextInHand
    <2>3. [states[ChatOf[m]] EXCEPT !.last = m] \in States
      BY <2>1, <2>2, TypeParts DEF RoundTyped, States
    <2>4. QED
      BY <1>2, <2>1, <2>3, TypeParts DEF env, scan, RoundTyped, PassHasStates, States
  <1>6. ClockTyped' /\ RowsTyped'
    BY <1>2, TypeParts DEF env, telegram, scan, rows, ClockTyped, RowsTyped
  <1>7. QED
    BY <1>4, <1>5, <1>6, TypePartsNext

LEMMA InitTypes == ASSUME Init PROVE TypeInv
  <1>1. kind \in [Messages -> Kinds]
    BY Zenon DEF Init, Kind, Kinds
  <1>2. ClockTyped
    BY <1>1, ConstantsAssumption DEF Init, ClockTyped, Times
  <1>3. RoundTyped
    <2>1. 0 \in 0..Total /\ 0 \in 0..PerChat /\ 0 \in 0..MaxMessages
      BY ConstantsAssumption
    <2>2. QED
      BY <2>1 DEF Init, RoundTyped, PassHasStates
  <1>4. ItemsTyped
    BY DEF Init, ItemsTyped, ItemsAreSent, Idle
  <1>5. RowsTyped
    BY DEF Init, RowsTyped, Verdicts
  <1>6. QED
    BY <1>2, <1>3, <1>4, <1>5, TypeParts

LEMMA TypeStep ==
    ASSUME TypeInv, NextInHand, [Next]_vars
    PROVE  TypeInv'
  <1>1. CASE Send \/ Start \/ Crash \/ Tick
    BY <1>1, SendTypes, StartTypes, CrashTypes, TickTypes
  <1>2. CASE BeginPass \/ EndBackfill
    BY <1>2, PassTypes
  <1>3. CASE \E c \in Chats : Scan(c) \/ SkipChat(c) \/ CompleteChat(c) \/ Fetch(c)
    BY <1>3, ScanTypes, SkipTypes, CompleteTypes, FetchTypes
  <1>4. CASE \E m \in Messages :
               Resume(m) \/ Look(m) \/ Advance(m) \/ Deliver(m) \/ Dropped(m)
    BY <1>4, LookTypes, AdvanceTypes, DeliverTypes, DropTypes
  <1>5. CASE \E m \in Messages : Handle("backfill", m) \/ Handle("listener", m)
    BY <1>5, HandleTypes DEF Actors
  <1>6. CASE UNCHANGED vars
    BY <1>6 DEF vars, TypeInv, TypeOK, ItemsAreSent, PassHasStates, Idle, telegram, scan,
                round, rows, past
  <1>7. QED
    BY <1>1, <1>2, <1>3, <1>4, <1>5, <1>6 DEF Next, Backfill, Listener, Dropped

------------------------------------------------------------------------------
\* The cursor of the backfill.

Cursor == /\ TypeInv /\ Clock /\ NextInHand
          /\ CursorIsBehindStored /\ CompleteIsComplete

\* The message in hand of the backfill is let go or stays the same.
ItemStays ==
    work'["backfill"] # None =>
        /\ work["backfill"] # None
        /\ work'["backfill"].msg = work["backfill"].msg

Quiet ==
    /\ UNCHANGED <<telegram, states, base>> /\ stored \subseteq stored'
    /\ now <= now' /\ runAt' <= now'
    /\ ItemStays

LEMMA QuietKeeps ==
    ASSUME Cursor, TypeInv', Quiet
    PROVE  Cursor'
  <1>1. Clock'
    <2>1. now' \in Int /\ runAt' \in Int /\ now \in Int /\ sent \in Int
      BY ConstantsAssumption DEF Cursor, TypeInv, TypeOK, Times
    <2>2. \A m \in 1..sent : sentAt[m] \in Int
      BY ConstantsAssumption DEF Cursor, TypeInv, TypeOK, Times, Messages
    <2>3. \A c \in Chats : states[c] # None => states[c].end \in Int
      BY TypeParts DEF Cursor, RoundTyped, States, Times
    <2>4. QED
      BY <2>1, <2>2, <2>3 DEF Cursor, Clock, Quiet, telegram
  <1>2. NextInHand'
    BY DEF Cursor, NextInHand, Ahead, Quiet, telegram, ItemStays, Idle
  <1>3. CursorIsBehindStored'
    BY DEF Cursor, CursorIsBehindStored, InWindow, Quiet, telegram
  <1>4. CompleteIsComplete'
    BY DEF Cursor, CompleteIsComplete, InWindow, Quiet, telegram
  <1>5. QED
    BY <1>1, <1>2, <1>3, <1>4 DEF Cursor

LEMMA SendKeepsCursor ==
    ASSUME Cursor, TypeInv', Send
    PROVE  Cursor'
  <1>1. /\ sent \in Nat /\ sent' = sent + 1 /\ sent < MaxMessages
        /\ sentAt' = [sentAt EXCEPT ![sent + 1] = now]
        /\ UNCHANGED <<now, runAt, states, base, work, stored>>
    BY TypeParts, ConstantsAssumption DEF Cursor, Send, ClockTyped, scan, rows
  <1>2. /\ \A m \in 1..sent : sentAt'[m] = sentAt[m]
        /\ sentAt'[sent + 1] = now
        /\ 1..sent' = (1..sent) \cup {sent + 1} /\ 1..sent \subseteq 1..sent'
    BY <1>1, TypeParts, ConstantsAssumption DEF Cursor, ClockTyped, Messages
  <1>3. /\ now \in Int /\ \A m \in 1..sent : sentAt[m] \in Int
        /\ \A c \in Chats : states[c] # None =>
             states[c].end \in Int /\ states[c].start \in Int /\ states[c].last \in Int
    <2>1. now \in Int /\ \A m \in 1..sent : sentAt[m] \in Int
      BY <1>1, TypeParts, ConstantsAssumption DEF Cursor, ClockTyped, Times, Messages
    <2>2. \A c \in Chats : states[c] # None => states[c] \in States
      BY TypeParts DEF Cursor, RoundTyped
    <2>3. \A x \in States : x.end \in Int /\ x.start \in Int /\ x.last \in Int
      BY ConstantsAssumption DEF States, Times
    <2>4. QED
      BY <2>1, <2>2, <2>3
  <1>4. Clock'
    BY <1>1, <1>2, <1>3 DEF Cursor, Clock
  <1>5. NextInHand'
    <2>1. SUFFICES ASSUME work["backfill"] # None
                   PROVE  /\ states[ChatOf[work["backfill"].msg]] # None
                          /\ work["backfill"].msg \in Ahead(ChatOf[work["backfill"].msg])'
                          /\ \A x \in Ahead(ChatOf[work["backfill"].msg])' :
                               work["backfill"].msg <= x
      BY <1>1 DEF NextInHand, Idle, Ahead
    <2>2. \A x \in Ahead(ChatOf[work["backfill"].msg])' :
            x \in Ahead(ChatOf[work["backfill"].msg]) \/ x = sent + 1
      BY <1>1, <1>2 DEF Ahead
    <2>3. QED
      BY <1>1, <1>2, <2>1, <2>2 DEF Cursor, NextInHand, Idle, Ahead
  <1>6. CursorIsBehindStored'
    BY <1>1, <1>2, <1>3 DEF Cursor, CursorIsBehindStored, InWindow, Clock
  <1>7. CompleteIsComplete'
    BY <1>1, <1>2, <1>3 DEF Cursor, CompleteIsComplete, InWindow, Clock
  <1>8. QED
    BY <1>4, <1>5, <1>6, <1>7 DEF Cursor

LEMMA ScanKeepsCursor ==
    ASSUME Cursor, TypeInv', NEW c \in Chats, Scan(c)
    PROVE  Cursor'
  <1>1. UNCHANGED <<now, sent, sentAt, runAt, work, stored>>
    BY DEF Scan, telegram, rows
  <1>2. CASE states[c] # None
    <2>1. Quiet
      BY <1>2, TypeParts, ConstantsAssumption
      DEF Scan, Quiet, telegram, rows, ItemStays, Cursor, ClockTyped, Times, Clock
    <2>2. QED
      BY <2>1, QuietKeeps
  <1>3. CASE states[c] = None
    <2> DEFINE last == Greatest(StoredOf(c))
               new == [start |-> runAt - Back, end |-> runAt, completed |-> FALSE,
                       last |-> last]
    <2>1. /\ states' = [states EXCEPT ![c] = new] /\ base' = [base EXCEPT ![c] = last]
          /\ last \in 0..sent /\ new \in States
      BY <1>3, ScanIsState DEF Scan, Cursor
    <2>2. /\ states'[c] = new /\ base'[c] = last
          /\ \A d \in Chats \ {c} : states'[d] = states[d] /\ base'[d] = base[d]
      BY <2>1, TypeParts DEF Cursor, RoundTyped
    <2> HIDE DEF new, last
    <2>3. new.end = runAt /\ new.last = last /\ new.completed = FALSE
      BY DEF new
    <2>4. Clock'
      BY <1>1, <2>1, <2>2, <2>3 DEF Cursor, Clock
    <2>5. NextInHand'
      <3> DEFINE d == ChatOf[work["backfill"].msg]
      <3>1. ASSUME ~Idle("backfill")
            PROVE  d \in Chats /\ d # c
        <4>1. "backfill" \in Actors
          BY DEF Actors
        <4>2. d \in Chats
          BY <3>1, <4>1, TypeParts, ConstantsAssumption
          DEF Cursor, ItemsTyped, ItemsAreSent, ClockTyped, Messages
        <4>3. QED
          BY <1>3, <3>1, <4>2 DEF Cursor, NextInHand
      <3>2. ~Idle("backfill") => states'[d] = states[d]
        BY <2>2, <3>1
      <3>3. QED
        BY <1>1, <3>2 DEF Cursor, NextInHand, Idle, Ahead
    <2>6. CursorIsBehindStored'
      BY <1>1, <2>1, <2>2, <2>3 DEF Cursor, CursorIsBehindStored, InWindow
    <2>7. CompleteIsComplete'
      BY <1>1, <2>2, <2>3 DEF Cursor, CompleteIsComplete, InWindow
    <2>8. QED
      BY <2>4, <2>5, <2>6, <2>7 DEF Cursor
  <1>4. QED
    BY <1>2, <1>3

LEMMA CompleteKeepsCursor ==
    ASSUME Cursor, TypeInv', NEW c \in Chats, CompleteChat(c)
    PROVE  Cursor'
  <1>1. /\ c \in pass /\ Idle("backfill")
        /\ Candidates(c) # {} => sentAt[Least(Candidates(c))] > states[c].end
        /\ states' = [states EXCEPT ![c].completed = TRUE]
        /\ UNCHANGED <<now, sent, sentAt, runAt, work, stored, base>>
    BY Zenon DEF CompleteChat, Visiting, telegram, scan, rows, past
  <1>2. states[c] # None /\ states[c] \in States
    BY <1>1, TypeParts DEF Cursor, RoundTyped, PassHasStates
  <1>3. /\ states'[c].start = states[c].start /\ states'[c].end = states[c].end
        /\ states'[c].last = states[c].last
        /\ \A d \in Chats \ {c} : states'[d] = states[d]
    BY <1>1, <1>2, TypeParts DEF Cursor, RoundTyped, States
  <1>4. Clock'
    BY <1>1, <1>2, <1>3 DEF Cursor, Clock
  <1>5. NextInHand'
    BY <1>1 DEF NextInHand, Idle
  <1>6. CursorIsBehindStored'
    BY <1>1, <1>2, <1>3 DEF Cursor, CursorIsBehindStored, InWindow
  <1>7. ASSUME NEW m \in 1..sent, ChatOf[m] = c, InWindow(m, states[c]), base[c] < m,
               sentAt[m] < states[c].end
        PROVE  m \in stored
    <2>1. CASE m <= states[c].last
      BY <1>2, <1>7, <2>1 DEF Cursor, CursorIsBehindStored
    <2>2. CASE ~(m <= states[c].last)
      <3>1. m \in Candidates(c)
        BY <1>2, <1>7, <2>2, ConstantsAssumption DEF Candidates, InWindow, States
      <3>2. Candidates(c) \in SUBSET Nat /\ Candidates(c) \subseteq 1..sent
        BY DEF Candidates
      <3>3. Least(Candidates(c)) \in 1..sent /\ Least(Candidates(c)) <= m
        BY <3>1, <3>2, LeastOf
      <3>4. sentAt[Least(Candidates(c))] <= sentAt[m]
        BY <3>3 DEF Cursor, Clock
      <3>5. \A x \in 1..sent : sentAt[x] \in Int
        BY TypeParts, ConstantsAssumption DEF Cursor, ClockTyped, Messages, Times
      <3>6. states[c].end \in Int
        BY <1>2 DEF States, Times
      <3>7. QED
        BY <1>1, <1>7, <3>1, <3>3, <3>4, <3>5, <3>6
    <2>3. QED
      BY <2>1, <2>2
  <1>8. CompleteIsComplete'
    BY <1>1, <1>3, <1>7 DEF Cursor, CompleteIsComplete, InWindow
  <1>9. QED
    BY <1>4, <1>5, <1>6, <1>8 DEF Cursor

LEMMA FetchKeepsCursor ==
    ASSUME Cursor, TypeInv', NEW c \in Chats, Fetch(c)
    PROVE  Cursor'
  <1> DEFINE m == Least(Candidates(c))
  <1>1. /\ c \in pass /\ Candidates(c) # {}
        /\ IsStep("backfill", m, "fetched")
        /\ UNCHANGED <<now, telegram, runAt, states, stored, base>>
    BY DEF Fetch, Visiting, Goto, IsStep, telegram, scan, rows, past
  <1>2. m \in Candidates(c) /\ \A x \in Candidates(c) : m <= x
    <2>1. Candidates(c) \in SUBSET Nat
      BY DEF Candidates
    <2>2. QED
      BY <1>1, <2>1, LeastOf
  <1>3. states[c] # None /\ states[c] \in States
    BY <1>1, TypeParts DEF Cursor, RoundTyped, PassHasStates
  <1>4. Candidates(c) = Ahead(c)
    BY <1>3, TypeParts, ConstantsAssumption
    DEF Candidates, Ahead, States, Cursor, ClockTyped, Messages, Times
  <1>5. ChatOf[m] = c
    BY <1>2 DEF Candidates
  <1> HIDE DEF m
  <1>6. NextInHand'
    <2>1. work'["backfill"].msg = m
      BY <1>1, TypeParts DEF Cursor, ItemsTyped, IsStep, Actors
    <2>2. QED
      BY <1>1, <1>2, <1>3, <1>4, <1>5, <2>1 DEF NextInHand, Ahead, telegram
  <1>7. Clock' /\ CursorIsBehindStored' /\ CompleteIsComplete'
    BY <1>1 DEF Cursor, Clock, CursorIsBehindStored, CompleteIsComplete, InWindow, telegram
  <1>8. QED
    BY <1>6, <1>7 DEF Cursor

LEMMA AdvanceKeepsCursor ==
    ASSUME Cursor, TypeInv', NEW m \in Messages, Advance(m)
    PROVE  Cursor'
  <1> DEFINE c == ChatOf[m]
  <1>1. /\ At("backfill", m, "advance")
        /\ states' = [states EXCEPT ![c].last = m]
        /\ work' = [work EXCEPT !["backfill"] = None]
        /\ UNCHANGED <<now, sent, sentAt, runAt, stored, base>>
    BY Zenon DEF Advance, env, telegram, scan, rows
  <1>2. /\ ~Idle("backfill") /\ work["backfill"].msg = m
        /\ m \in 1..sent /\ m \in stored
    <2>1. "backfill" \in Actors /\ "advance" \in Steps
      BY DEF Actors, Steps
    <2>2. QED
      BY <1>1, <2>1, InHandIsSent DEF Cursor, At
  <1>3. /\ c \in Chats /\ states[c] # None /\ states[c] \in States
        /\ m \in Ahead(c) /\ \A x \in Ahead(c) : m <= x
    BY <1>2, TypeParts, ConstantsAssumption DEF Cursor, NextInHand, RoundTyped
  <1>4. /\ states'[c].start = states[c].start /\ states'[c].end = states[c].end
        /\ states'[c].completed = states[c].completed /\ states'[c].last = m
        /\ \A d \in Chats \ {c} : states'[d] = states[d]
    BY <1>1, <1>3, TypeParts DEF Cursor, RoundTyped, States
  <1> HIDE DEF c
  <1>5. Clock'
    BY <1>1, <1>2, <1>3, <1>4 DEF Cursor, Clock
  <1>6. NextInHand'
    <2>1. work'["backfill"] = None
      BY <1>1, TypeParts DEF Cursor, ItemsTyped, Actors
    <2>2. QED
      BY <2>1 DEF NextInHand, Idle
  <1>7. ASSUME NEW x \in 1..sent, ChatOf[x] = c, InWindow(x, states[c]), base[c] < x, x <= m
        PROVE  x \in stored
    <2>1. CASE x <= states[c].last
      BY <1>3, <1>7, <2>1 DEF Cursor, CursorIsBehindStored
    <2>2. CASE states[c].last < x
      <3>1. x \in Ahead(c)
        BY <1>7, <2>2 DEF Ahead, InWindow
      <3>2. x = m
        BY <1>2, <1>3, <1>7, <3>1
      <3>3. QED
        BY <1>2, <3>2
    <2>3. QED
      BY <1>3, <2>1, <2>2, ConstantsAssumption DEF States
  <1>8. CursorIsBehindStored'
    BY <1>1, <1>4, <1>7 DEF Cursor, CursorIsBehindStored, InWindow
  <1>9. CompleteIsComplete'
    BY <1>1, <1>3, <1>4 DEF Cursor, CompleteIsComplete, InWindow
  <1>10. QED
    BY <1>5, <1>6, <1>8, <1>9 DEF Cursor

LEMMA RestIsQuiet ==
    ASSUME Cursor, TypeInv',
           \/ Start \/ Crash \/ Tick \/ BeginPass \/ EndBackfill
           \/ \E c \in Chats : SkipChat(c)
           \/ \E m \in Messages : \/ Dropped(m) \/ Deliver(m) \/ Resume(m) \/ Look(m)
                                  \/ \E a \in Actors : Handle(a, m)
           \/ UNCHANGED vars
    PROVE  Quiet
  <1> USE DEF Quiet, ItemStays
  <1>1. now \in Int /\ runAt \in Int /\ runAt <= now /\ "backfill" \in Actors
    BY ConstantsAssumption DEF Cursor, Clock, TypeInv, TypeOK, Times, Actors
  <1>2. CASE Start
    BY <1>1, <1>2 DEF Start, telegram, rows, past
  <1>3. CASE Crash
    BY <1>1, <1>3 DEF Crash, telegram, scan, rows
  <1>4. CASE Tick
    BY <1>1, <1>4 DEF Tick, telegram, scan, rows, past
  <1>5. CASE BeginPass \/ EndBackfill
    BY <1>1, <1>5 DEF BeginPass, EndBackfill, scan, rows, past
  <1>6. CASE \E c \in Chats : SkipChat(c)
    BY <1>1, <1>6 DEF SkipChat, scan, rows, past
  <1>7. ASSUME NEW m \in Messages, Deliver(m)
        PROVE  Quiet
    <2>1. work'["backfill"] = work["backfill"]
      BY <1>1, <1>7, TypeParts DEF Deliver, Goto, Cursor, ItemsTyped
    <2>2. QED
      BY <1>1, <1>7, <2>1 DEF Deliver, env, scan, rows
  <1>8. ASSUME NEW m \in Messages, Resume(m) \/ Look(m)
        PROVE  Quiet
    <2>1. ~Idle("backfill") /\ work["backfill"].msg = m
      <3>1. {"fetched", "look"} \subseteq Steps
        BY DEF Steps
      <3>2. QED
        BY <1>1, <1>8, <3>1, InHandIsSent DEF Resume, Look, Cursor, At
    <2>2. work'["backfill"].msg = m
      BY <1>1, <1>8, TypeParts DEF Resume, Look, Goto, Cursor, ItemsTyped
    <2>3. QED
      BY <1>1, <1>8, <2>1, <2>2 DEF Resume, Look, Idle, still, env, scan, rows
  <1>9. ASSUME NEW m \in Messages, NEW a \in Actors, Handle(a, m)
        PROVE  Quiet
    <2>1. Handled(a, m)
      BY <1>9, HandleIsHandled DEF Cursor
    <2>2. ~Idle(a) /\ work[a].msg = m
      <3>1. PICK step \in {"save", "policy", "budget", "mark", "ask", "strict", "alert",
                           "review"} : At(a, m, step)
        BY <1>9 DEF Handle, Save, Policy, Budget, Mark, Ask, Strict, Alert, Review
      <3>2. step \in Steps
        BY DEF Steps
      <3>3. QED
        BY <3>1, <3>2, InHandIsSent DEF Cursor, At
    <2>3. ItemStays
      <3>1. CASE a = "listener"
        BY <1>1, <2>1, <3>1, TypeParts DEF Handled, IsStep, Cursor, ItemsTyped
      <3>2. CASE a = "backfill"
        BY <1>1, <2>1, <2>2, <3>2, TypeParts DEF Handled, IsStep, Idle, Cursor, ItemsTyped
      <3>3. QED
        BY <3>1, <3>2 DEF Actors
    <2>4. QED
      BY <1>1, <2>1, <2>3 DEF Handled, still, env, scan
  <1>10. CASE UNCHANGED vars
    BY <1>1, <1>10 DEF vars, scan, rows, past
  <1>11. CASE \E m \in Messages : Dropped(m)
    BY <1>1, <1>11 DEF Dropped, Ignore, Lose, env, scan, rows
  <1>12. QED
    BY <1>2, <1>3, <1>4, <1>5, <1>6, <1>7, <1>8, <1>9, <1>10, <1>11

LEMMA CursorStep ==
    ASSUME Cursor, [Next]_vars
    PROVE  Cursor'
  <1>1. TypeInv'
    BY TypeStep DEF Cursor
  <1>2. CASE \/ Start \/ Crash \/ Tick \/ BeginPass \/ EndBackfill
             \/ \E c \in Chats : SkipChat(c)
             \/ \E m \in Messages : \/ Dropped(m) \/ Deliver(m) \/ Resume(m) \/ Look(m)
                                    \/ \E a \in Actors : Handle(a, m)
             \/ UNCHANGED vars
    BY <1>1, <1>2, RestIsQuiet, QuietKeeps
  <1>3. CASE Send
    BY <1>1, <1>3, SendKeepsCursor
  <1>4. CASE \E c \in Chats : Scan(c) \/ CompleteChat(c) \/ Fetch(c)
    BY <1>1, <1>4, ScanKeepsCursor, CompleteKeepsCursor, FetchKeepsCursor
  <1>5. CASE \E m \in Messages : Advance(m)
    BY <1>1, <1>5, AdvanceKeepsCursor
  <1>6. "listener" \in Actors /\ "backfill" \in Actors
    BY DEF Actors
  <1>7. QED
    BY <1>2, <1>3, <1>4, <1>5, <1>6 DEF Next, Backfill, Listener, Dropped

LEMMA CursorHolds == Spec => []Cursor
  <1>1. Init => Cursor
    <2>1. ASSUME Init PROVE Cursor
      <3>1. TypeInv
        BY <2>1, InitTypes
      <3>2. Clock
        BY <2>1 DEF Init, Clock
      <3>3. NextInHand
        BY <2>1 DEF Init, NextInHand, Idle, Actors
      <3>4. CursorIsBehindStored /\ CompleteIsComplete
        BY <2>1 DEF Init, CursorIsBehindStored, CompleteIsComplete
      <3>5. QED
        BY <3>1, <3>2, <3>3, <3>4 DEF Cursor
    <2>2. QED
      BY <2>1
  <1>2. Cursor /\ [Next]_vars => Cursor'
    BY CursorStep
  <1>3. QED
    BY <1>1, <1>2, PTL DEF Spec

\* Rows, states, items in hand and histories are of their types: among others, only
\* stored messages are alerted, and only sent ones are stored.
THEOREM TypeCorrect ==
    Spec => []TypeOK
  <1>1. Cursor => TypeOK
    BY DEF Cursor, TypeInv
  <1>2. QED
    BY <1>1, CursorHolds, PTL

\* The cursor a backfill keeps for a chat never passes a message of its window that is
\* not stored (last_processed_message_id, advance_backfill_state in db/repository.py).
THEOREM NothingIsPassedOver ==
    Spec => []CursorIsBehindStored
  <1>1. Cursor => CursorIsBehindStored
    BY DEF Cursor
  <1>2. QED
    BY <1>1, CursorHolds, PTL

\* A chat whose backfill is completed, and that is never looked at again, has every
\* message of its window (advance_backfill_state with completed, telegram/backfill.py).
THEOREM CompletedHasAll ==
    Spec => []CompleteIsComplete
  <1>1. Cursor => CompleteIsComplete
    BY DEF Cursor
  <1>2. QED
    BY <1>1, CursorHolds, PTL

------------------------------------------------------------------------------
\* The budget of the model.

\* The messages an actor asked about, or is about to.
HeldBy(a) ==
    {m \in 1..sent : <<a, m>> \in asks \/ At(a, m, "mark") \/ At(a, m, "ask")}

InHour(S, t) == {m \in S : t - Hour <= sentAt[m] /\ sentAt[m] <= t}

\* A call is counted before it is made.
AsksAreMarked ==
    \A a \in Actors, m \in Messages : <<a, m>> \in asks \/ At(a, m, "ask") =>
        m \in 1..sent /\ called[m] = sentAt[m]

\* One actor alone keeps to the cap.
WithinTheCap ==
    \A a \in Actors, t \in Times : Cardinality(InHour(HeldBy(a), t)) <= Cap

Budgeted == Cursor /\ AsksAreMarked /\ WithinTheCap

LEMMA InHourIsFinite ==
    ASSUME sent \in Nat, NEW S \in SUBSET (1..sent), NEW t
    PROVE  /\ IsFiniteSet(InHour(S, t))
           /\ Cardinality(InHour(S, t)) \in Nat
           /\ \A T \in SUBSET S : Cardinality(InHour(T, t)) <= Cardinality(InHour(S, t))
  <1>1. IsFiniteSet(1..sent)
    BY FS_Interval
  <1>2. InHour(S, t) \in SUBSET (1..sent)
    BY DEF InHour
  <1>3. IsFiniteSet(InHour(S, t))
    BY <1>1, <1>2, FS_Subset
  <1>4. ASSUME NEW T \in SUBSET S
        PROVE  Cardinality(InHour(T, t)) <= Cardinality(InHour(S, t))
    <2>1. InHour(T, t) \in SUBSET InHour(S, t)
      BY DEF InHour
    <2>2. QED
      BY <1>3, <2>1, FS_Subset
  <1>5. QED
    BY <1>3, <1>4, FS_CardinalityType

\* A step after which nobody holds more than before.
LEMMA NoMoreHeld ==
    ASSUME Budgeted, \A a \in Actors : HeldBy(a)' \subseteq HeldBy(a),
           \A m \in 1..sent : sentAt'[m] = sentAt[m]
    PROVE  WithinTheCap'
  <1>1. SUFFICES ASSUME NEW a \in Actors, NEW t \in Times
                 PROVE  Cardinality(InHour(HeldBy(a), t)') <= Cap
    BY DEF WithinTheCap
  <1>2. sent \in Nat /\ HeldBy(a) \in SUBSET (1..sent) /\ HeldBy(a)' \in SUBSET HeldBy(a)
    BY TypeParts DEF Budgeted, Cursor, ClockTyped, HeldBy
  <1>3. InHour(HeldBy(a), t)' = InHour(HeldBy(a)', t)
    BY <1>2 DEF InHour
  <1>4. /\ Cardinality(InHour(HeldBy(a)', t)) <= Cardinality(InHour(HeldBy(a), t))
        /\ Cardinality(InHour(HeldBy(a), t)) \in Nat
        /\ Cardinality(InHour(HeldBy(a)', t)) \in Nat
    BY <1>2, InHourIsFinite
  <1>5. QED
    BY <1>3, <1>4, ConstantsAssumption DEF Budgeted, WithinTheCap

\* A step by which nobody asks, or is about to.
Unasked ==
    /\ UNCHANGED <<asks, called>> /\ sent <= sent'
    /\ \A m \in 1..sent : sentAt'[m] = sentAt[m]
    /\ \A a \in Actors, m \in Messages, step \in {"mark", "ask"} :
         At(a, m, step)' => At(a, m, step)

LEMMA UnaskedKeeps ==
    ASSUME Budgeted, Unasked, Cursor'
    PROVE  Budgeted'
  <1>1. sent \in 0..MaxMessages /\ sent' \in 0..MaxMessages
    BY DEF Budgeted, Cursor, TypeInv, TypeOK
  <1>2. AsksAreMarked'
    BY <1>1 DEF Budgeted, Unasked, AsksAreMarked
  <1>3. \A a \in Actors, m \in Messages, step \in {"mark", "ask"} :
          At(a, m, step) => m \in 1..sent
    BY InHandIsSent DEF Budgeted, Cursor, Steps
  <1>4. \A a \in Actors : HeldBy(a)' \subseteq HeldBy(a)
    BY <1>1, <1>3, ConstantsAssumption
    DEF Budgeted, Unasked, HeldBy, AsksAreMarked, Messages
  <1>5. WithinTheCap'
    BY <1>4, NoMoreHeld DEF Unasked
  <1>6. QED
    BY <1>2, <1>5 DEF Budgeted

\* The cap is not reached: one more message may be held.
LEMMA BudgetKeeps ==
    ASSUME Budgeted, Cursor', NEW a \in Actors, NEW m \in Messages, Budget(a, m)
    PROVE  Budgeted'
  <1>1. /\ UNCHANGED <<asks, called, sent, sentAt>>
        /\ At(a, m, "budget")
        /\ \A b \in Actors : b # a => work'[b] = work[b]
    <2>1. UNCHANGED <<asks, called, sent, sentAt>> /\ At(a, m, "budget")
      BY DEF Budget, Classify, still, env, telegram, rows
    <2>2. \E new : work' = [work EXCEPT ![a] = new]
      BY DEF Budget, Classify, Finish, Goto
    <2>3. QED
      BY <2>1, <2>2, TypeParts DEF Budgeted, Cursor, ItemsTyped
  <1>2. CASE ~(work' = [work EXCEPT ![a] = [msg |-> m, step |-> "mark"]])
    <2>1. \E new : /\ work' = [work EXCEPT ![a] = new]
                   /\ \/ new = None
                      \/ \E step \in Steps \ {"mark", "ask"} :
                           new = [msg |-> m, step |-> step]
      BY <1>2 DEF Budget, Classify, Finish, Goto, Steps
    <2>2. \A x \in Messages, step \in {"mark", "ask"} : ~At(a, x, step)'
      <3>1. \A x \in Messages, step \in {"mark", "ask"} : [msg |-> x, step |-> step] # None
        BY ConstantsAssumption DEF Steps
      <3>2. work' \in [Actors -> [msg : Messages, step : Steps] \cup {None}]
        BY DEF Budgeted, Cursor, TypeInv, TypeOK
      <3>3. QED
        BY <2>1, <3>1, TypeParts DEF At, Budgeted, Cursor, ItemsTyped
    <2>3. Unasked
      BY <1>1, <2>2, TypeParts DEF Unasked, At, Budgeted, Cursor, ClockTyped
    <2>4. QED
      BY <2>3, UnaskedKeeps
  <1>3. CASE work' = [work EXCEPT ![a] = [msg |-> m, step |-> "mark"]]
    <2>1. /\ work'[a] = [msg |-> m, step |-> "mark"]
          /\ m \in 1..sent /\ sent \in Nat /\ sent \in 0..MaxMessages
      <3>1. "budget" \in Steps
        BY DEF Steps
      <3>2. QED
        BY <1>1, <1>3, <3>1, InHandIsSent, TypeParts, ConstantsAssumption
        DEF Budgeted, Cursor, ItemsTyped, ClockTyped
    <2>2. ~(Cap <= Calls(m))
      <3>1. work'[a].step = "mark"
        BY <2>1
      <3>2. work'[a] # None
        BY <2>1, ConstantsAssumption DEF Steps
      <3>3. \A new : work' = [work EXCEPT ![a] = new] => work'[a] = new
        BY TypeParts DEF Budgeted, Cursor, ItemsTyped
      <3>4. QED
        BY <3>1, <3>2, <3>3 DEF Budget, Classify, Finish, Goto
    <2>3. \A b \in Actors \ {a} : HeldBy(b)' = HeldBy(b)
      BY <1>1 DEF HeldBy, At
    <2>4. HeldBy(a)' = HeldBy(a) \cup {m}
      <3>1. \A x \in Messages, step \in {"mark", "ask"} : ~At(a, x, step)
        BY <1>1 DEF At
      <3>2. HeldBy(a) = {x \in 1..sent : <<a, x>> \in asks}
        BY <2>1, <3>1, ConstantsAssumption DEF HeldBy, Messages
      <3>3. QED
        BY <1>1, <2>1, <3>2 DEF HeldBy, At
    <2>5. AsksAreMarked'
      <3>1. \A x \in Messages : ~At(a, x, "ask")'
        <4>1. work'[a].step # "ask"
          BY <2>1
        <4>2. QED
          BY <4>1 DEF At
      <3>2. \A b \in Actors \ {a}, x \in Messages : At(b, x, "ask")' <=> At(b, x, "ask")
        BY <1>1 DEF At
      <3>3. QED
        BY <1>1, <3>1, <3>2 DEF AsksAreMarked, Budgeted
    <2> DEFINE Called == {x \in Messages :
                            called[x] # None /\ called[x] >= sentAt[m] - Hour}
    <2>6. IsFiniteSet(Called) /\ Cardinality(Called) < Cap /\ Cardinality(Called) \in Nat
      <3>1. Called \in SUBSET (1..MaxMessages) /\ IsFiniteSet(1..MaxMessages)
        BY FS_Interval, ConstantsAssumption DEF Messages
      <3>2. IsFiniteSet(Called)
        BY <3>1, FS_Subset
      <3>3. QED
        BY <2>2, <3>2, FS_CardinalityType, ConstantsAssumption DEF Calls
    <2>7. ASSUME NEW t \in Times
          PROVE  Cardinality(InHour(HeldBy(a)', t)) <= Cap
      <3>1. CASE m \notin InHour({m}, t)
        <4>1. InHour(HeldBy(a)', t) = InHour(HeldBy(a), t)
          BY <2>4, <3>1 DEF InHour
        <4>2. QED
          BY <4>1 DEF Budgeted, WithinTheCap
      <3>2. CASE m \in InHour({m}, t)
        <4>1. InHour(HeldBy(a), t) \subseteq Called
          <5>1. SUFFICES ASSUME NEW x \in InHour(HeldBy(a), t)
                         PROVE  x \in Called
            OBVIOUS
          <5>2. x \in Messages /\ <<a, x>> \in asks
            BY <1>1, <2>1, ConstantsAssumption DEF InHour, HeldBy, At, Messages
          <5>3. called[x] = sentAt[x] /\ sentAt[x] \in Times /\ sentAt[m] \in Times
            BY <5>2, TypeParts DEF Budgeted, AsksAreMarked, Cursor, ClockTyped
          <5>4. t - Hour <= sentAt[x] /\ sentAt[m] <= t
            BY <3>2 DEF InHour
          <5>5. QED
            BY <5>2, <5>3, <5>4, ConstantsAssumption DEF Times
        <4>2. Cardinality(InHour(HeldBy(a), t)) <= Cardinality(Called)
          BY <2>6, <4>1, FS_Subset
        <4>3. IsFiniteSet(InHour(HeldBy(a), t)) /\ Cardinality(InHour(HeldBy(a), t)) \in Nat
          BY <2>6, <4>1, FS_Subset, FS_CardinalityType
        <4>4. InHour(HeldBy(a)', t) = InHour(HeldBy(a), t) \cup {m}
          BY <2>4, <3>2 DEF InHour
        <4>5. Cardinality(InHour(HeldBy(a)', t)) <= Cardinality(InHour(HeldBy(a), t)) + 1
          <5> DEFINE S == InHour(HeldBy(a), t)
          <5>1. Cardinality(S \cup {m}) =
                  IF m \in S THEN Cardinality(S) ELSE Cardinality(S) + 1
            BY <4>3, FS_AddElement
          <5>2. Cardinality(S) \in Nat
            BY <4>3
          <5> HIDE DEF S
          <5>3. Cardinality(S \cup {m}) <= Cardinality(S) + 1
            BY <5>1, <5>2
          <5>4. QED
            BY <4>4, <5>3 DEF S
        <4>6. Cardinality(InHour(HeldBy(a)', t)) \in Nat
          BY <4>3, <4>4, FS_AddElement, FS_CardinalityType
        <4>7. QED
          BY <2>6, <4>2, <4>3, <4>5, <4>6, ConstantsAssumption
      <3>3. QED
        BY <3>1, <3>2
    <2>8. WithinTheCap'
      <3>1. SUFFICES ASSUME NEW b \in Actors, NEW t \in Times
                     PROVE  Cardinality(InHour(HeldBy(b), t)') <= Cap
        BY DEF WithinTheCap
      <3>2. InHour(HeldBy(b), t)' = InHour(HeldBy(b)', t)
        BY <1>1 DEF InHour
      <3>3. QED
        BY <2>3, <2>7, <3>2 DEF Budgeted, WithinTheCap
    <2>9. QED
      BY <2>5, <2>8 DEF Budgeted
  <1>4. QED
    BY <1>2, <1>3

\* A message is handled on, without a question to ask.
LEMMA RestIsUnasked ==
    ASSUME Budgeted, NEW a \in Actors, NEW m \in Messages,
           \/ Save(a, m) \/ Policy(a, m) \/ Strict(a, m) \/ Alert(a, m) \/ Review(a, m)
    PROVE  Unasked
  <1> USE DEF Save, Policy, Strict, Alert, Review, Classify
  <1>1. UNCHANGED <<asks, called, sent, sentAt>>
    BY Zenon DEF still, env, telegram, rows
  <1>2. \/ work' = [work EXCEPT ![a] = None]
        \/ \E y \in {"policy", "review", "budget", "strict", "alert", "advance"} :
             work' = [work EXCEPT ![a] = [msg |-> m, step |-> y]]
    BY DEF Finish, Goto
  <1>3. \/ work'[a] = None
        \/ work'[a].step \in {"policy", "review", "budget", "strict", "alert", "advance"}
    BY <1>2, TypeParts DEF Budgeted, Cursor, ItemsTyped
  <1>4. \A b \in Actors : b # a => work'[b] = work[b]
    BY <1>2, TypeParts DEF Budgeted, Cursor, ItemsTyped
  <1>5. \A x \in Messages, step \in {"mark", "ask"} : ~At(a, x, step)'
    <2>1. \A x \in Messages, step \in {"mark", "ask"} : [msg |-> x, step |-> step] # None
      BY ConstantsAssumption DEF Steps
    <2>2. QED
      BY <1>3, <2>1 DEF At
  <1>6. \A b \in Actors, x \in Messages, step \in {"mark", "ask"} :
          At(b, x, step)' => At(b, x, step)
    BY <1>4, <1>5 DEF At
  <1>7. sent \in Int
    BY TypeParts DEF Budgeted, Cursor, ClockTyped
  <1>8. QED
    BY <1>1, <1>6, <1>7 DEF Unasked

LEMMA MarkKeeps ==
    ASSUME Budgeted, Cursor', NEW a \in Actors, NEW m \in Messages, Mark(a, m)
    PROVE  Budgeted'
  <1>1. /\ UNCHANGED <<asks, sent, sentAt>> /\ At(a, m, "mark")
        /\ called' = [called EXCEPT ![m] = sentAt[m]]
        /\ work' = [work EXCEPT ![a] = [msg |-> m, step |-> "ask"]]
    BY DEF Mark, Goto, still, env, telegram
  <1>2. m \in 1..sent
    BY <1>1, InHandIsSent DEF Budgeted, Cursor, Steps
  <1>3. called'[m] = sentAt[m] /\ \A x \in Messages \ {m} : called'[x] = called[x]
    BY <1>1, TypeParts DEF Budgeted, Cursor, RowsTyped
  <1>4. /\ work'[a] = [msg |-> m, step |-> "ask"]
        /\ \A b \in Actors \ {a} : work'[b] = work[b]
    BY <1>1, TypeParts DEF Budgeted, Cursor, ItemsTyped
  <1>5. \A x \in Messages : At(a, x, "ask")' => x = m
    BY <1>4 DEF At
  <1>6. \A b \in Actors \ {a} : \A x, y : At(b, x, y)' <=> At(b, x, y)
    BY <1>4 DEF At
  <1>7. AsksAreMarked'
    BY <1>1, <1>2, <1>3, <1>5, <1>6 DEF AsksAreMarked, Budgeted
  <1>8. \A b \in Actors : HeldBy(b)' \subseteq HeldBy(b)
    <2>1. \A x : ~At(a, x, "mark")'
      BY <1>4 DEF At
    <2>2. 1..sent \subseteq Messages
      BY TypeParts, ConstantsAssumption DEF Budgeted, Cursor, ClockTyped, Messages
    <2>3. HeldBy(a)' \subseteq HeldBy(a)
      BY <1>1, <1>5, <2>1, <2>2 DEF HeldBy
    <2>4. \A b \in Actors \ {a} : HeldBy(b)' \subseteq HeldBy(b)
      BY <1>1, <1>6 DEF HeldBy
    <2>5. QED
      BY <2>3, <2>4
  <1>9. QED
    BY <1>1, <1>7, <1>8, NoMoreHeld DEF Budgeted

LEMMA AskKeeps ==
    ASSUME Budgeted, Cursor', NEW a \in Actors, NEW m \in Messages, Ask(a, m)
    PROVE  Budgeted'
  <1>1. /\ UNCHANGED <<called, sent, sentAt>> /\ At(a, m, "ask")
        /\ asks' = asks \cup {<<a, m>>}
    BY DEF Ask, Classify, still, env, telegram, rows
  <1>2. \/ work' = [work EXCEPT ![a] = None]
        \/ \E y \in {"strict", "advance"} :
             work' = [work EXCEPT ![a] = [msg |-> m, step |-> y]]
    BY DEF Ask, Classify, Finish, Goto
  <1>3. /\ \A x \in Messages, step \in {"mark", "ask"} : ~At(a, x, step)'
        /\ \A b \in Actors \ {a} : \A x, y : At(b, x, y)' <=> At(b, x, y)
    <2>1. \A x \in Messages, step \in {"mark", "ask"} : [msg |-> x, step |-> step] # None
      BY ConstantsAssumption DEF Steps
    <2>2. work'[a] = None \/ work'[a].step \in {"strict", "advance"}
      BY <1>2, TypeParts DEF Budgeted, Cursor, ItemsTyped
    <2>3. \A b \in Actors \ {a} : work'[b] = work[b]
      BY <1>2, TypeParts DEF Budgeted, Cursor, ItemsTyped
    <2>4. QED
      BY <2>1, <2>2, <2>3 DEF At
  <1>4. AsksAreMarked'
    BY <1>1, <1>3 DEF AsksAreMarked, Budgeted
  <1>5. \A b \in Actors : HeldBy(b)' \subseteq HeldBy(b)
    <2>1. 1..sent \subseteq Messages
      BY TypeParts, ConstantsAssumption DEF Budgeted, Cursor, ClockTyped, Messages
    <2>2. HeldBy(a)' \subseteq HeldBy(a)
      BY <1>1, <1>3, <2>1 DEF HeldBy
    <2>3. \A b \in Actors \ {a} : HeldBy(b)' \subseteq HeldBy(b)
      BY <1>1, <1>3 DEF HeldBy
    <2>4. QED
      BY <2>2, <2>3
  <1>6. QED
    BY <1>1, <1>4, <1>5, NoMoreHeld DEF Budgeted

\* Telegram, the clock and the rounds ask nothing.
LEMMA RoundsAreUnasked ==
    ASSUME Budgeted,
           \/ Send \/ Start \/ Crash \/ Tick \/ BeginPass \/ EndBackfill
           \/ \E c \in Chats : Scan(c) \/ SkipChat(c) \/ CompleteChat(c)
           \/ \E m \in Messages : Dropped(m)
           \/ UNCHANGED vars
    PROVE  Unasked
  <1>1. UNCHANGED <<asks, called>>
    BY Zenon DEF Send, Start, Crash, Tick, BeginPass, EndBackfill, Scan, SkipChat,
                 CompleteChat, Dropped, Ignore, Lose, vars, rows, past
  <1>2. sent <= sent' /\ \A m \in 1..sent : sentAt'[m] = sentAt[m]
    <2>1. sent \in Nat /\ sentAt \in [Messages -> Times] /\ sent \in 0..MaxMessages
      BY TypeParts, ConstantsAssumption DEF Budgeted, Cursor, ClockTyped
    <2>2. CASE Send
      BY <2>1, <2>2, ConstantsAssumption DEF Send, Messages
    <2>3. CASE ~Send
      <3>1. UNCHANGED <<sent, sentAt>>
        BY <2>3, Zenon DEF Start, Crash, Tick, BeginPass, EndBackfill, Scan, SkipChat,
                          CompleteChat, Dropped, Ignore, Lose, env, vars, telegram
      <3>2. QED
        BY <2>1, <3>1
    <2>4. QED
      BY <2>2, <2>3
  <1>3. \A a \in Actors, m \in Messages, step \in {"mark", "ask"} :
          At(a, m, step)' => At(a, m, step)
    <2>1. CASE Crash
      <3>1. \A x \in Messages, step \in {"mark", "ask"} : [msg |-> x, step |-> step] # None
        BY ConstantsAssumption DEF Steps
      <3>2. QED
        BY <2>1, <3>1 DEF Crash, At
    <2>2. CASE ~Crash
      <3>1. UNCHANGED work
        BY <2>2, Zenon DEF Send, Start, Tick, BeginPass, EndBackfill, Scan, SkipChat,
                          CompleteChat, Dropped, Ignore, Lose, vars
      <3>2. QED
        BY <3>1 DEF At
    <2>3. QED
      BY <2>1, <2>2
  <1>4. QED
    BY <1>1, <1>2, <1>3 DEF Unasked

\* Who takes a message or puts it away asks nothing.
LEMMA TakesAreUnasked ==
    ASSUME Budgeted,
           \/ \E c \in Chats : Fetch(c)
           \/ \E m \in Messages : Deliver(m) \/ Resume(m) \/ Look(m) \/ Advance(m)
    PROVE  Unasked
  <1>1. UNCHANGED <<asks, called, sent, sentAt>>
    BY Zenon DEF Fetch, Deliver, Resume, Look, Advance, env, still, telegram, rows, past
  <1>2. PICK a \in Actors :
          \/ work' = [work EXCEPT ![a] = None]
          \/ \E m, y : /\ y \in {"fetched", "look", "save", "advance"}
                       /\ work' = [work EXCEPT ![a] = [msg |-> m, step |-> y]]
    <2>1. "listener" \in Actors /\ "backfill" \in Actors
      BY DEF Actors
    <2>2. CASE \E c \in Chats : Fetch(c)
      BY <2>1, <2>2 DEF Fetch, Goto
    <2>3. CASE \E m \in Messages : Deliver(m) \/ Resume(m) \/ Look(m)
      BY <2>1, <2>3 DEF Deliver, Resume, Look, Goto
    <2>4. CASE \E m \in Messages : Advance(m)
      BY <2>1, <2>4, Zenon DEF Advance
    <2>5. QED
      BY <2>2, <2>3, <2>4
  <1>3. \A x \in Messages, step \in {"mark", "ask"} : ~At(a, x, step)'
    <2>1. \A x \in Messages, step \in {"mark", "ask"} : [msg |-> x, step |-> step] # None
      BY ConstantsAssumption DEF Steps
    <2>2. work'[a] = None \/ work'[a].step \in {"fetched", "look", "save", "advance"}
      BY <1>2, TypeParts DEF Budgeted, Cursor, ItemsTyped
    <2>3. QED
      BY <2>1, <2>2 DEF At
  <1>4. \A b \in Actors \ {a} : work'[b] = work[b]
    BY <1>2, TypeParts DEF Budgeted, Cursor, ItemsTyped
  <1>5. \A b \in Actors, x \in Messages, step \in {"mark", "ask"} :
          At(b, x, step)' => At(b, x, step)
    BY <1>3, <1>4 DEF At
  <1>6. sent \in Int
    BY TypeParts DEF Budgeted, Cursor, ClockTyped
  <1>7. QED
    BY <1>1, <1>5, <1>6 DEF Unasked

LEMMA BudgetedStep ==
    ASSUME Budgeted, [Next]_vars
    PROVE  Budgeted'
  <1>1. Cursor'
    BY CursorStep DEF Budgeted
  <1>2. CASE \/ Send \/ Start \/ Crash \/ Tick \/ BeginPass \/ EndBackfill
             \/ \E c \in Chats : Scan(c) \/ SkipChat(c) \/ CompleteChat(c)
             \/ \E m \in Messages : Dropped(m)
             \/ UNCHANGED vars
    BY <1>1, <1>2, RoundsAreUnasked, UnaskedKeeps
  <1>3. CASE \/ \E c \in Chats : Fetch(c)
             \/ \E m \in Messages : Deliver(m) \/ Resume(m) \/ Look(m) \/ Advance(m)
    BY <1>1, <1>3, TakesAreUnasked, UnaskedKeeps
  <1>4. CASE \E a \in Actors, m \in Messages : Handle(a, m)
    <2>1. PICK a \in Actors, m \in Messages : Handle(a, m)
      BY <1>4
    <2>2. CASE Save(a, m) \/ Policy(a, m) \/ Strict(a, m) \/ Alert(a, m) \/ Review(a, m)
      BY <1>1, <2>2, RestIsUnasked, UnaskedKeeps
    <2>3. CASE Budget(a, m) \/ Mark(a, m) \/ Ask(a, m)
      BY <1>1, <2>3, BudgetKeeps, MarkKeeps, AskKeeps
    <2>4. QED
      BY <2>1, <2>2, <2>3 DEF Handle
  <1>5. "listener" \in Actors /\ "backfill" \in Actors
    BY DEF Actors
  <1>6. QED
    BY <1>2, <1>3, <1>4, <1>5 DEF Next, Backfill, Listener, Dropped

LEMMA BudgetedInit == ASSUME Init, Cursor PROVE Budgeted
  <1>1. \A a \in Actors, m \in Messages, step \in Steps : ~At(a, m, step)
    BY ConstantsAssumption DEF Init, At
  <1>2. AsksAreMarked
    BY <1>1 DEF Init, AsksAreMarked, Steps
  <1>3. WithinTheCap
    <2>1. \A a \in Actors : \A t : InHour(HeldBy(a), t) = {}
      <3>1. sent = 0
        BY Zenon DEF Init
      <3>2. ~\E x : x \in 1..sent
        BY <3>1
      <3>3. ASSUME NEW a \in Actors, NEW t
            PROVE  InHour(HeldBy(a), t) = {}
        BY <3>2 DEF HeldBy, InHour
      <3>4. QED
        BY <3>3
    <2>2. Cardinality({}) = 0 /\ 0 <= Cap
      BY FS_EmptySet, ConstantsAssumption
    <2>3. QED
      BY <2>1, <2>2 DEF WithinTheCap
  <1>4. QED
    BY <1>2, <1>3 DEF Budgeted

\* What the two asked about within an hour is what each of them did.
LEMMA TwoActors ==
    ASSUME Budgeted
    PROVE  WithinTwiceTheCap
  <1>1. SUFFICES ASSUME NEW m \in 1..sent
                 PROVE  Cardinality({p \in asks : /\ sentAt[p[2]] <= sentAt[m]
                                                  /\ sentAt[p[2]] >= sentAt[m] - Hour})
                          <= 2 * Cap
    BY DEF WithinTwiceTheCap
  <1> DEFINE t == sentAt[m]
             Hers(a) == InHour(HeldBy(a), t)
             All == {p \in asks : sentAt[p[2]] <= t /\ sentAt[p[2]] >= t - Hour}
             Both == ({"listener"} \X Hers("listener"))
                       \cup ({"backfill"} \X Hers("backfill"))
  <1>2. sent \in Nat /\ t \in Times
    BY TypeParts, ConstantsAssumption DEF Budgeted, Cursor, ClockTyped, Messages
  <1>3. \A a \in Actors : /\ IsFiniteSet(Hers(a)) /\ Cardinality(Hers(a)) \in Nat
                          /\ Cardinality(Hers(a)) <= Cap
    <2>1. SUFFICES ASSUME NEW a \in Actors
                   PROVE  /\ IsFiniteSet(Hers(a)) /\ Cardinality(Hers(a)) \in Nat
                          /\ Cardinality(Hers(a)) <= Cap
      OBVIOUS
    <2>2. HeldBy(a) \in SUBSET (1..sent)
      BY DEF HeldBy
    <2>3. IsFiniteSet(Hers(a)) /\ Cardinality(Hers(a)) \in Nat
      BY <1>2, <2>2, InHourIsFinite
    <2>4. QED
      BY <1>2, <2>3 DEF Budgeted, WithinTheCap
  <1>4. \A a \in Actors : /\ IsFiniteSet({a} \X Hers(a))
                          /\ Cardinality({a} \X Hers(a)) = Cardinality(Hers(a))
    <2>1. SUFFICES ASSUME NEW a \in Actors
                   PROVE  /\ IsFiniteSet({a} \X Hers(a))
                          /\ Cardinality({a} \X Hers(a)) = Cardinality(Hers(a))
      OBVIOUS
    <2>2. IsFiniteSet({a}) /\ Cardinality({a}) = 1
      BY FS_Singleton
    <2>3. /\ IsFiniteSet({a} \X Hers(a))
          /\ Cardinality({a} \X Hers(a)) = Cardinality({a}) * Cardinality(Hers(a))
      BY <1>3, <2>2, FS_Product
    <2>4. QED
      BY <1>3, <2>2, <2>3
  <1>5. All \subseteq Both
    <2>1. SUFFICES ASSUME NEW p \in asks, sentAt[p[2]] <= t, sentAt[p[2]] >= t - Hour
                   PROVE  p \in Both
      OBVIOUS
    <2>2. /\ p \in Actors \X Messages /\ p = <<p[1], p[2]>>
          /\ p[1] \in Actors /\ p[2] \in Messages
      BY TypeParts DEF Budgeted, Cursor, RowsTyped
    <2>3. p[2] \in 1..sent
      BY <2>2 DEF Budgeted, AsksAreMarked
    <2>4. p[2] \in Hers(p[1])
      BY <2>1, <2>2, <2>3 DEF HeldBy, InHour
    <2>5. QED
      BY <2>2, <2>4 DEF Actors
  <1> HIDE DEF Hers, t
  <1>6. IsFiniteSet(Both) /\ Cardinality(Both) <= 2 * Cap /\ Cardinality(Both) \in Nat
    <2> DEFINE L == {"listener"} \X Hers("listener")
               B == {"backfill"} \X Hers("backfill")
    <2>1. /\ IsFiniteSet(L) /\ IsFiniteSet(B)
          /\ Cardinality(L) <= Cap /\ Cardinality(B) <= Cap
          /\ Cardinality(L) \in Nat /\ Cardinality(B) \in Nat
      BY <1>3, <1>4 DEF Actors
    <2> HIDE DEF L, B
    <2>2. /\ IsFiniteSet(L \cup B)
          /\ Cardinality(L \cup B) = Cardinality(L) + Cardinality(B) - Cardinality(L \cap B)
      BY <2>1, FS_Union
    <2>3. Cardinality(L \cap B) \in Nat
      <3>1. IsFiniteSet(L \cap B)
        BY <2>1, FS_Intersection
      <3>2. QED
        BY <3>1, FS_CardinalityType
    <2>4. Cardinality(L \cup B) <= 2 * Cap /\ Cardinality(L \cup B) \in Nat
      <3>1. Cardinality(L \cup B) \in Nat
        BY <2>2, FS_CardinalityType
      <3>2. QED
        BY <2>1, <2>2, <2>3, <3>1, ConstantsAssumption
    <2>5. QED
      BY <2>2, <2>4 DEF L, B
  <1> HIDE DEF Both, All
  <1>7. Cardinality(All) <= Cardinality(Both) /\ Cardinality(All) \in Nat
    BY <1>5, <1>6, FS_Subset, FS_CardinalityType
  <1>8. Cardinality(All) <= 2 * Cap
    BY <1>6, <1>7, ConstantsAssumption
  <1>9. QED
    BY <1>8 DEF All, t

\* Whatever listener and backfill count while the other one is about to call, the calls
\* about the messages of an hour are no more than twice the cap
\* (p0_llm_calls_since before mark_p0_llm_called, services/p0.py).
THEOREM TwiceTheCapAtMost ==
    Spec => []WithinTwiceTheCap
  <1>1. Init /\ Cursor => Budgeted
    BY BudgetedInit
  <1>2. Budgeted /\ [Next]_vars => Budgeted'
    BY BudgetedStep
  <1>3. Budgeted => WithinTwiceTheCap
    BY TwoActors
  <1>4. QED
    BY <1>1, <1>2, <1>3, CursorHolds, PTL DEF Spec
=============================================================================
