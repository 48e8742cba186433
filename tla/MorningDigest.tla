--------------------------- MODULE MorningDigest ---------------------------
(***************************************************************************)
(* The morning digest (inbox/digest.py): one record for each day, cut off  *)
(* at the configured time, made by two scheduled jobs that share a lock.   *)
(* The cron job fires at the cut-off, the other one every quarter of an    *)
(* hour; both make the earliest day that is missing.  A job awaits the     *)
(* lock, Telegram's history and the model, and time passes and the other   *)
(* job runs meanwhile.  The process may die and come back with another     *)
(* digest time.                                                            *)
(*                                                                         *)
(* Time is in ticks, Slots to a day; a cut-off is the tick it falls on.    *)
(***************************************************************************)
EXTENDS Integers, DigestHistory

CONSTANTS
    Slots,          \* ticks of a day
    MaxTime,        \* bound on time
    Limit,          \* days a missing digest is made up for (7)
    DigestTimes,    \* values of digest_time the process may be started with
    MaxRun,         \* ticks a job may hold the lock
    MaxRestarts,    \* bound on restarts
    None

Jobs == {"exact", "reconciliation"}

ASSUME ConstantsAssumption ==
    /\ Slots \in Nat \ {0} /\ Limit \in Nat \ {0}
    /\ MaxTime \in Nat /\ MaxRestarts \in Nat /\ MaxRun \in Nat
    /\ DigestTimes # {} /\ DigestTimes \subseteq 0..(Slots - 1)
    /\ None \notin Int /\ None \notin Jobs

VARIABLES
    now,
    digestTime,     \* settings.digest_time of this process
    records,        \* morning_digests: [start, end], and of what they were made
    permanent,      \* permanent_failures of this process
    phase, target,  \* what each job is doing, and for which cut-off
    lock,           \* the job that holds the lock, or None
    held,           \* since when it was held last
    restarts

job == <<phase, target, lock, held>>
vars == <<now, digestTime, records, permanent, job, restarts, history>>

Cutoffs == (0 - Limit * Slots)..MaxTime
Phases == {"idle", "waiting", "woken", "dialogs", "rows", "generating"}

TypeOK ==
    /\ now \in 0..MaxTime
    /\ digestTime \in DigestTimes
    /\ HistoryTypeOK
    /\ \A r \in records :
         /\ r.start \in Int /\ r.end \in Cutoffs
         /\ r.rows \subseteq Dialogs \X Nat /\ r.lost \subseteq Peers
    /\ permanent \subseteq Cutoffs
    /\ phase \in [Jobs -> Phases]
    /\ target \in [Jobs -> Cutoffs \cup {None}]
    /\ \A j \in Jobs : phase[j] = "idle" <=> target[j] = None
    /\ lock \in Jobs \cup {None}
    /\ held \in 0..MaxTime
    /\ \A j \in Jobs : phase[j] \in {"dialogs", "rows", "generating"} => lock = j
    /\ restarts \in 0..MaxRestarts

Init ==
    /\ HistoryInit
    /\ now = 0
    /\ digestTime \in DigestTimes
    /\ records = {}
    /\ permanent = {}
    /\ phase = [j \in Jobs |-> "idle"] /\ target = [j \in Jobs |-> None]
    /\ lock = None /\ held = 0
    /\ restarts = 0

------------------------------------------------------------------------------
\* Which day.

Day(t) == t \div Slots
CutoffOf(day) == day * Slots + digestTime

\* Faulty: the window ends when the job runs.
DesiredNow == IF now >= CutoffOf(Day(now)) THEN now ELSE None

\* desired_digest_cutoff: today's, once it is due.
Desired == IF now >= CutoffOf(Day(now)) THEN CutoffOf(Day(now)) ELSE None

Succeeded(c) == \E r \in records : r.end = c

Greatest(S) == CHOOSE x \in S : \A y \in S : y <= x
Least(S) == CHOOSE x \in S : \A y \in S : x <= y

\* Faulty: without the days that were missed before today.
OnlyToday(latest) ==
    IF \E r \in records : r.end >= latest THEN None ELSE latest

\* earliest_missing_cutoff: the first day after the newest digest, Limit days back at
\* most; without a digest only the latest.
EarliestMissing(latest) ==
    LET ends == {r.end : r \in {q \in records : q.end <= latest}}
        days == {Greatest({Day(Greatest(ends)) + 1, Day(latest) - (Limit - 1)})..Day(latest)}
        missing == {d \in UNION days : ~Succeeded(CutoffOf(d))}
    IN IF ends = {} THEN latest
       ELSE IF missing = {} THEN None
       ELSE CutoffOf(Least(missing))

\* The same time of the day before.
Start(c) == c - Slots

------------------------------------------------------------------------------
\* reconcile.

\* A job that leaves the lock wakes the one that waits; whoever comes meanwhile
\* waits behind it (asyncio.Lock).
Idle(j) == /\ phase' = [i \in Jobs |-> IF i = j THEN "idle"
                                      ELSE IF phase[i] = "waiting" THEN "woken"
                                      ELSE phase[i]]
           /\ target' = [target EXCEPT ![j] = None]

Queued(j) == phase[j] \in {"waiting", "woken"}

Release(j) == Idle(j) /\ lock' = None /\ UNCHANGED held

Acquire(j) == /\ lock' = j /\ held' = now
              /\ phase' = [phase EXCEPT ![j] = "dialogs"]

\* The cron job fires at the digest time, the other at any time.
Due(j) == j = "exact" => now = CutoffOf(Day(now))

Missing == IF Desired = None THEN None ELSE EarliestMissing(Desired)

\* With the lock free the job goes on at once: it holds the lock, the digest is
\* missing, and the dialogs are being listed.
Reconcile(j) ==
    /\ phase[j] = "idle" /\ Due(j)
    /\ Missing # None
    /\ Missing \notin permanent
    /\ target' = [target EXCEPT ![j] = Missing]
    /\ IF lock = None /\ \A i \in Jobs : ~Queued(i)
         THEN Acquire(j)
         ELSE UNCHANGED <<lock, held>> /\ phase' = [phase EXCEPT ![j] = "waiting"]
    /\ UNCHANGED <<now, digestTime, records, permanent, restarts, history>>

\* The job gets the lock it awaited, and looks again.
Wake(j) ==
    /\ phase[j] = "woken"
    /\ IF Succeeded(target[j]) \/ target[j] \in permanent
         THEN Idle(j) /\ UNCHANGED <<lock, held>>
         ELSE Acquire(j) /\ UNCHANGED target
    /\ UNCHANGED <<now, digestTime, records, permanent, restarts, history>>

rest == <<now, digestTime, records, permanent, restarts>>

\* digest_rows.
List(j) ==
    /\ phase[j] = "dialogs"
    /\ ListDialogs(target[j])
    /\ phase' = [phase EXCEPT ![j] = "rows"]
    /\ UNCHANGED <<rest, target, lock, held>>

Fetch(j) ==
    /\ phase[j] = "rows"
    /\ \E p \in Peers : \/ FetchPage(p, Start(target[j]), target[j])
                        \/ Probe(p) \/ PeerGone(p)
    /\ UNCHANGED <<rest, job>>

Refused(j) ==
    /\ phase[j] = "rows"
    /\ \E p \in Peers : CallFails(p)
    /\ UNCHANGED <<rest, job>>

\* Its answer; the model is asked.
Rows(j) ==
    /\ phase[j] = "rows" /\ Gathered
    /\ phase' = [phase EXCEPT ![j] = "generating"]
    /\ UNCHANGED <<rest, target, lock, held, history>>

\* Telegram fails: the day is left for a later run.
HistoryFails(j) ==
    /\ \/ phase[j] = "dialogs" /\ ListFails
       \/ phase[j] = "rows" /\ PassFails
    /\ Release(j)
    /\ UNCHANGED rest

\* So it is when the model fails for now or answers nonsense, or the record cannot be
\* stored.
Pending(j) ==
    /\ phase[j] = "generating"
    /\ Release(j) /\ Forget
    /\ UNCHANGED <<rest, served, selected, blocked, orphans, faults>>

\* The model refuses the request: this process does not ask again.
ModelRefuses(j) ==
    /\ phase[j] = "generating"
    /\ permanent' = permanent \cup {target[j]}
    /\ Release(j) /\ Forget
    /\ UNCHANGED <<now, digestTime, records, restarts, served, selected, blocked,
                   orphans, faults>>

Store(j) ==
    /\ phase[j] = "generating"
    /\ records' = records \cup {[start |-> Start(target[j]), end |-> target[j],
                                rows |-> rows, lost |-> lost]}
    /\ Release(j) /\ Forget
    /\ UNCHANGED <<now, digestTime, permanent, restarts, served, selected, blocked,
                   orphans, faults>>

Telegram ==
    /\ \E p \in Peers : OrphanEnds(p) \/ Lose(p) \/ Regain(p)
    /\ UNCHANGED <<rest, job>>

BlockEnds == Unblock /\ UNCHANGED <<rest, job>>

Restart ==
    /\ restarts < MaxRestarts
    /\ restarts' = restarts + 1
    /\ digestTime' \in DigestTimes
    /\ permanent' = {}
    /\ phase' = [j \in Jobs |-> "idle"] /\ target' = [j \in Jobs |-> None]
    /\ lock' = None
    /\ Forget /\ orphans' = {} /\ blocked' = FALSE
    /\ UNCHANGED <<now, records, held, served, selected, faults>>

\* A job holds the lock for a while, and the next one gets it at once.
Tick ==
    /\ now < MaxTime
    /\ IF lock = None THEN \A j \in Jobs : ~Queued(j) ELSE now - held < MaxRun
    /\ now' = now + 1
    /\ UNCHANGED <<digestTime, records, permanent, job, restarts, history>>

Next ==
    \/ \E j \in Jobs : \/ Reconcile(j) \/ Wake(j) \/ List(j) \/ Fetch(j) \/ Refused(j)
                       \/ Rows(j) \/ HistoryFails(j)
                       \/ Pending(j) \/ ModelRefuses(j) \/ Store(j)
    \/ Telegram \/ BlockEnds \/ Restart \/ Tick

Spec == Init /\ [][Next]_vars

\* The interval job fires again and again; Telegram fails only so often, and the
\* model answers now and then.
Fairness ==
    /\ WF_vars(Reconcile("reconciliation")) /\ WF_vars(Tick) /\ WF_vars(BlockEnds)
    /\ \A j \in Jobs :
         /\ WF_vars(Wake(j)) /\ WF_vars(List(j)) /\ WF_vars(Fetch(j)) /\ WF_vars(Rows(j))
         /\ WF_vars(HistoryFails(j)) /\ WF_vars(Pending(j)) /\ SF_vars(Store(j))

LiveSpec == Spec /\ Fairness

------------------------------------------------------------------------------
\* Properties.

\* Every message is digested once: a stored digest has each message of its period, of
\* each dialog that Telegram served while it was read, whatever failed and was read
\* again; and no message is in two digests.
EveryMessageOnce ==
    /\ \A r \in records : \A p \in Dialogs \ r.lost : \A i \in 0..r.end :
         r.start < i => <<p, i>> \in r.rows
    /\ \A q, r \in records : q # r => q.rows \cap r.rows = {}

First == Least({r.end : r \in records})

\* A day is never skipped for a later one: when a digest is stored, each day between
\* the first digest and it is there, the days beyond the limit excepted.
NoDayIsSkipped ==
    [][\A r \in records' \ records : \A c \in Cutoffs :
         /\ records # {} /\ First < c /\ c < r.end
         /\ c = CutoffOf(Day(c)) /\ Day(c) > Day(now) - Limit
         => Succeeded(c)]_vars

\* The process catches up: at the end (when the last day is due) each day since the
\* first digest is stored, the days beyond the limit excepted, unless the model
\* refused one.
CaughtUp ==
    \/ permanent # {}
    \/ /\ records # {}
       /\ \A d \in 0..Day(now) :
            First < CutoffOf(d) /\ d > Day(now) - Limit => Succeeded(CutoffOf(d))
CatchesUp == <>[]CaughtUp
=============================================================================
