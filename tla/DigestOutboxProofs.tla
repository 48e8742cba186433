------------------------- MODULE DigestOutboxProofs -------------------------
(***************************************************************************)
(* Proofs about DigestOutbox, for any number of messages, digests and      *)
(* workers and whatever the times are.                                     *)
(*                                                                         *)
(* A step leaves claims and states of digests alone, moves a digest among  *)
(* the live states, or ends a digest and frees its messages at once.  With *)
(* what digests and mails contain, that makes what is digested mailed and  *)
(* what is retried safe; with the leases, it makes the whole an outbox.    *)
(***************************************************************************)
EXTENDS DigestOutbox, TLAPS

\* The part of the type invariant that claims rest on.
ClaimsTyped ==
    /\ claimedBy \in [Messages -> Digests \cup {None}]
    /\ status \in [Digests -> Statuses]

Sound == ClaimsTyped /\ ClaimedIsLive

LEMMA LiveAreStatuses == Live \subseteq Statuses
  BY DEF Live, Statuses

\* A digest goes from one live state to another.
LEMMA MoveKeeps ==
    ASSUME Sound, NEW d, NEW x \in Live,
           status' = Set(status, d, x), UNCHANGED claimedBy
    PROVE  Sound'
  BY LiveAreStatuses DEF Sound, ClaimsTyped, ClaimedIsLive, Set

\* A digest ends and its messages are free.
LEMMA EndKeeps ==
    ASSUME Sound, NEW d, NEW x \in Statuses,
           status' = Set(status, d, x), claimedBy' = Released(d)
    PROVE  Sound'
<1>1. ClaimsTyped'
  BY DEF Sound, ClaimsTyped, Set, Released
<1>2. ASSUME NEW m \in Messages, claimedBy'[m] # None
      PROVE  status'[claimedBy'[m]] \in Live
  <2>1. claimedBy'[m] = claimedBy[m] /\ claimedBy[m] # d
    BY <1>2 DEF Sound, ClaimsTyped, Released
  <2> QED
    BY <1>2, <2>1 DEF Sound, ClaimsTyped, ClaimedIsLive, Set
<1> QED
  BY <1>1, <1>2 DEF Sound, ClaimedIsLive

LEMMA SameKeeps ==
    ASSUME Sound, UNCHANGED <<status, claimedBy>>
    PROVE  Sound'
  BY DEF Sound, ClaimsTyped, ClaimedIsLive

LEMMA CancelKeeps ==
    ASSUME Sound, NEW d, Cancel(d)
    PROVE  Sound'
<1>1. "cancelled" \in Statuses
  BY DEF Statuses
<1> QED
  BY <1>1, EndKeeps DEF Cancel, Withdraw

LEMMA ClaimKeeps ==
    ASSUME Sound, NEW w, NEW d, Claim(w, d)
    PROVE  Sound'
<1>1. "sending" \in Live
  BY DEF Live
<1> QED
  BY <1>1, MoveKeeps DEF Claim, messages

LEMMA ClaimRowsKeeps ==
    ASSUME Sound, NEW p \in Pipelines, ClaimRows(p)
    PROVE  Sound'
<1> DEFINE mine == rows[p] \cap {m \in Messages : Free(m)}
<1>1. CASE UNCHANGED <<messages, digest>>
  BY <1>1, SameKeeps DEF messages, digest, lease
<1>2. ASSUME NEW d \in Digests, status' = Set(status, d, "building"),
             claimedBy' = [m \in Messages |-> IF m \in mine THEN d ELSE claimedBy[m]]
      PROVE  Sound'
  <2>1. "building" \in Live /\ "building" \in Statuses
    BY DEF Live, Statuses
  <2> HIDE DEF mine
  <2> QED
    BY <1>2, <2>1 DEF Sound, ClaimsTyped, ClaimedIsLive, Set
<1> QED
  BY <1>1, <1>2 DEF ClaimRows, ClaimAmong

LEMMA PipelineKeeps ==
    ASSUME Sound, NEW p \in Pipelines, Pipeline(p)
    PROVE  Sound'
<1>1. CASE Begin(p)
  BY <1>1, SameKeeps DEF Begin, messages, digest, lease
<1>2. CASE Check(p)
  BY <1>2, SameKeeps, CancelKeeps DEF Check, messages, digest, lease
<1>3. CASE Gather(p)
  BY <1>3, SameKeeps DEF Gather, messages, digest, lease
<1>4. CASE ClaimRows(p)
  BY <1>4, ClaimRowsKeeps
<1>5. CASE Persist(p)
  <2>1. "pending" \in Live
    BY DEF Live
  <2> QED
    BY <1>5, <2>1, SameKeeps, MoveKeeps DEF Persist, messages
<1>6. CASE Deliver(p)
  BY <1>6, SameKeeps, ClaimKeeps DEF Deliver, messages, digest, lease
<1> QED
  BY <1>1, <1>2, <1>3, <1>4, <1>5, <1>6 DEF Pipeline

LEMMA SendKeeps ==
    ASSUME Sound, NEW w \in Workers, Send(w)
    PROVE  Sound'
<1>1. CASE BeginSend(w)
  BY <1>1, SameKeeps, CancelKeeps DEF BeginSend, messages, digest, lease
<1>2. CASE Accept(w) \/ Raise(w)
  BY <1>2, SameKeeps DEF Accept, Raise, messages, digest, lease
<1>3. CASE Finalize(w)
  <2>1. "sent" \in Statuses
    BY DEF Statuses
  <2> QED
    BY <1>3, <2>1, EndKeeps DEF Finalize, Done
<1>4. CASE MarkPending(w)
  <2>1. "pending" \in Live
    BY DEF Live
  <2> QED
    BY <1>4, <2>1, MoveKeeps DEF MarkPending, messages
<1> QED
  BY <1>1, <1>2, <1>3, <1>4 DEF Send

\* A release makes a live digest pending, whichever they are.
LEMMA SweepKeeps ==
    ASSUME Sound, NEW w \in Sweepers,
           StartSweep(w) \/ Select(w) \/ Sweep(w) \/ EndSweep(w)
    PROVE  Sound'
<1>1. CASE StartSweep(w)
  <2>1. PICK R : status' = [d \in Digests |-> IF d \in R THEN "pending" ELSE status[d]]
    BY <1>1 DEF StartSweep
  <2>2. UNCHANGED claimedBy
    BY <1>1 DEF StartSweep, messages
  <2>3. "pending" \in Live /\ "pending" \in Statuses
    BY DEF Live, Statuses
  <2> QED
    BY <2>1, <2>2, <2>3 DEF Sound, ClaimsTyped, ClaimedIsLive
<1>2. CASE Select(w) \/ EndSweep(w)
  BY <1>2, SameKeeps DEF Select, EndSweep, messages, digest, lease
<1>3. CASE Sweep(w)
  BY <1>3, SameKeeps, CancelKeeps, ClaimKeeps DEF Sweep, messages, digest, lease
<1> QED
  BY <1>1, <1>2, <1>3

LEMMA StepKeeps == Sound /\ [Next]_vars => Sound'
<1> SUFFICES ASSUME Sound, [Next]_vars PROVE Sound'
  OBVIOUS
<1>1. CASE \/ \E m \in Messages : Arrive(m)
           \/ \E c \in Chats : EditIgnored(c)
           \/ Tick
           \/ \E w \in Workers : Crash(w)
           \/ UNCHANGED vars
  BY <1>1, SameKeeps
  DEF Arrive, EditIgnored, Tick, Crash, vars, messages, digest, lease
<1>2. CASE \E p \in Pipelines : Pipeline(p)
  BY <1>2, PipelineKeeps
<1>3. CASE \E w \in Sweepers : StartSweep(w) \/ Select(w) \/ Sweep(w) \/ EndSweep(w)
  BY <1>3, SweepKeeps
<1>4. CASE \E w \in Workers : Send(w)
  BY <1>4, SendKeeps
<1> QED
  BY <1>1, <1>2, <1>3, <1>4 DEF Next

\* No message stays claimed by a digest that is over, whoever wrote over its row
\* (_cancel_unsafe_digest, finalize_digest_sent).
THEOREM NoneIsStranded == Spec => []ClaimedIsLive
<1>1. Init => Sound
  BY DEF Init, Sound, ClaimsTyped, ClaimedIsLive, Statuses
<1>2. Sound /\ [Next]_vars => Sound'
  BY StepKeeps
<1>3. Sound => ClaimedIsLive
  BY DEF Sound
<1> QED
  BY <1>1, <1>2, <1>3, PTL DEF Spec

------------------------------------------------------------------------------
\* One sender.  What the lease is made of is typed, a worker with a digest has one, and
\* the cancel command never delivers.
Shape ==
    /\ status \in [Digests -> Statuses]
    /\ age \in [Digests -> Nat]
    /\ payload = [d \in Digests |-> payload[d]]
    /\ owner = [d \in Digests |-> owner[d]]
    /\ pc \in [Workers -> Steps]
    /\ hold \in [Workers -> Digests \cup {None}]
    /\ late \in [Workers -> Nat]
    /\ queue \in [Workers -> SUBSET Digests]
    /\ \A w \in Workers : pc[w] \notin {"idle", "gather", "rows", "select", "next"} =>
           hold[w] \in Digests
    /\ pc[Cli] \in {"idle", "select", "next"}

Leased == Shape /\ LeaseInv

LEMMA WorkerFacts ==
    /\ Cli \in Workers /\ Retrier \in Workers /\ Cli # Retrier
    /\ \A p \in Pipelines : p \in Workers /\ p \notin Sweepers /\ p # Cli /\ p # Retrier
  BY ConstantsAssumption DEF ConstantsAssumption, Workers, Sweepers

LEMMA ShapeInit == Init => Shape
  BY WorkerFacts DEF Init, Shape, Statuses, Steps

LEMMA WithdrawShape ==
    ASSUME Shape, NEW d \in Digests, Cancel(d)
    PROVE  /\ status' \in [Digests -> Statuses]
           /\ age' \in [Digests -> Nat]
           /\ payload' = [x \in Digests |-> payload'[x]]
           /\ owner' = [x \in Digests |-> owner'[x]]
  BY DEF Shape, Cancel, Withdraw, Set, Statuses

LEMMA WorldShape ==
    ASSUME Shape,
           \/ \E m \in Messages : Arrive(m)
           \/ \E c \in Chats : EditIgnored(c)
           \/ Tick
           \/ \E w \in Workers : Crash(w)
           \/ UNCHANGED vars
    PROVE  Shape'
<1> USE DEF messages, digest, lease, job, local, Goto, Set
<1>1. CASE \/ \E m \in Messages : Arrive(m)
           \/ \E c \in Chats : EditIgnored(c)
           \/ UNCHANGED vars
  BY <1>1 DEF Shape, Arrive, EditIgnored, vars
<1>2. CASE Tick
  <2>1. StaleAfter \in Nat
    BY ConstantsAssumption DEF ConstantsAssumption
  <2> QED
    BY <1>2, <2>1 DEF Shape, Tick, Smaller, Horizon
<1>3. ASSUME NEW w \in Workers, Crash(w) PROVE Shape'
  BY <1>3 DEF Shape, Crash, Steps
<1> QED
  BY <1>1, <1>2, <1>3

LEMMA PipelineShape ==
    ASSUME Shape, NEW p \in Pipelines, Pipeline(p)
    PROVE  Shape'
<1> USE WorkerFacts DEF messages, digest, lease, job, local, Goto, Set, Leave
<1>1. CASE Begin(p)
  BY <1>1 DEF Shape, Begin, Start, Steps
<1>2. CASE Check(p)
  <2>1. hold[p] \in Digests
    BY <1>2 DEF Shape, Check
  <2> QED
    BY <1>2, <2>1, WithdrawShape DEF Shape, Check, Steps
<1>3. CASE Gather(p)
  BY <1>3 DEF Shape, Gather, Steps
<1>4. CASE ClaimRows(p)
  <2>1. \/ Leave(p) /\ UNCHANGED digest
        \/ \E d \in Digests : /\ status' = Set(status, d, "building")
                             /\ hold' = Set(hold, p, d) /\ Goto(p, "generated")
                             /\ UNCHANGED <<payload, age, owner>>
    BY <1>4, Zenon DEF ClaimRows, ClaimAmong
  <2>2. UNCHANGED <<late, queue>>
    BY <1>4 DEF ClaimRows, ClaimAmong
  <2> QED
    BY <2>1, <2>2 DEF Shape, Steps, Statuses
<1>5. CASE Persist(p)
  BY <1>5 DEF Shape, Persist, Steps, Statuses
<1>6. CASE Deliver(p)
  BY <1>6 DEF Shape, Deliver, Claim, Steps, Statuses
<1> QED
  BY <1>1, <1>2, <1>3, <1>4, <1>5, <1>6 DEF Pipeline

LEMMA SweepShape ==
    ASSUME Shape, NEW w \in Sweepers,
           StartSweep(w) \/ Select(w) \/ Sweep(w) \/ EndSweep(w)
    PROVE  Shape'
<1> USE WorkerFacts DEF messages, digest, lease, job, local, Goto, Set
<1>0. w \in Workers
  BY DEF Workers
<1>1. CASE StartSweep(w)
  BY <1>0, <1>1 DEF Shape, StartSweep, Start, Steps, Statuses
<1>2. CASE Select(w)
  BY <1>0, <1>2 DEF Shape, Select, Steps
<1>3. CASE Sweep(w)
  <2>1. PICK d \in queue[w] :
          /\ queue' = Set(queue, w, queue[w] \ {d})
          /\ \/ Cancel(d) /\ UNCHANGED <<pc, hold, rows>>
             \/ w = Retrier /\ Claim(w, d)
             \/ UNCHANGED <<digest, pc, hold>>
    BY <1>3 DEF Sweep
  <2>2. d \in Digests /\ UNCHANGED late
    BY <1>0, <1>3 DEF Shape, Sweep
  <2> QED
    BY <1>0, <2>1, <2>2, WithdrawShape DEF Shape, Claim, Steps, Statuses
<1>4. CASE EndSweep(w)
  BY <1>0, <1>4 DEF Shape, EndSweep, Steps
<1> QED
  BY <1>1, <1>2, <1>3, <1>4

LEMMA SendShape ==
    ASSUME Shape, NEW w \in Workers, Send(w)
    PROVE  Shape'
<1> USE WorkerFacts DEF messages, digest, lease, job, local, Goto, Set, Leave
<1>0. hold[w] \in Digests /\ w # Cli
  BY DEF Shape, Send, BeginSend, Accept, Raise, Finalize, Done, MarkPending, Mailing
<1>1. CASE BeginSend(w)
  BY <1>0, <1>1, WithdrawShape DEF Shape, BeginSend, Steps
<1>2. CASE Accept(w) \/ Raise(w)
  BY <1>0, <1>2 DEF Shape, Accept, Raise, Steps
<1>3. CASE Finalize(w)
  BY <1>0, <1>3 DEF Shape, Finalize, Done, Steps, Statuses
<1>4. CASE MarkPending(w)
  BY <1>0, <1>4 DEF Shape, MarkPending, Steps, Statuses
<1> QED
  BY <1>1, <1>2, <1>3, <1>4 DEF Send

LEMMA ShapeKeeps == Shape /\ [Next]_vars => Shape'
  BY WorldShape, PipelineShape, SweepShape, SendShape DEF Next

\* The row of d is as it was, or was withdrawn.
RowKept(d) ==
    \/ /\ status'[d] = status[d] /\ payload'[d] = payload[d]
       /\ owner'[d] = owner[d] /\ age'[d] = age[d]
    \/ status'[d] = "cancelled" /\ payload'[d] = {}

\* Nobody begins to hold a digest, and what is held stays or is withdrawn.
Calm ==
    /\ \A w \in Workers, d \in Digests : Holds(w, d)' =>
           Holds(w, d) /\ late'[w] = late[w] /\ RowKept(d)
    /\ \A p \in Pipelines : Delivering(p)' => late'[p] <= MaxSend

LEMMA CalmKeeps ==
    ASSUME LeaseInv, Calm
    PROVE  LeaseInv'
<1>1. OneHolder'
  BY DEF LeaseInv, OneHolder, Calm
<1>2. HoldersOwn'
  BY DEF LeaseInv, HoldersOwn, Calm, RowKept, Owned
<1>3. InTime'
  BY DEF Calm, InTime
<1>4. ASSUME NEW p \in Pipelines, NEW d \in Digests, Holds(p, d)', Owned(p, d)'
      PROVE  age'[d] <= late'[p]
  <2>1. Holds(p, d) /\ late'[p] = late[p] /\ RowKept(d)
    BY <1>4, WorkerFacts DEF Calm
  <2> QED
    BY <1>4, <2>1 DEF LeaseInv, ClaimAge, RowKept, Owned
<1> QED
  BY <1>1, <1>2, <1>3, <1>4 DEF LeaseInv, ClaimAge

\* The rows stay as they are, or one is withdrawn.
LEMMA RowsKept ==
    ASSUME Shape, NEW d \in Digests,
           UNCHANGED <<status, payload, owner, age>> \/ \E x \in Digests : Cancel(x)
    PROVE  RowKept(d)
  BY DEF Shape, RowKept, Cancel, Withdraw, Set

LEMMA WorldIsCalm ==
    ASSUME Leased,
           \/ \E m \in Messages : Arrive(m)
           \/ \E c \in Chats : EditIgnored(c)
           \/ \E w \in Workers : Crash(w)
           \/ UNCHANGED vars
    PROVE  Calm
<1> USE DEF messages, digest, lease, job, local, Goto, Set, Leased, LeaseInv, InTime
<1>1. UNCHANGED <<status, payload, owner, age>>
  BY DEF Arrive, EditIgnored, Crash, vars
<1>2. CASE UNCHANGED <<pc, hold, late>>
  BY <1>1, <1>2, RowsKept DEF Calm, Holds, Delivering
<1>3. ASSUME NEW w \in Workers, Crash(w) PROVE Calm
  BY <1>1, <1>3, RowsKept, WorkerFacts DEF Shape, Calm, Crash, Holds, Delivering
<1> QED
  BY <1>2, <1>3 DEF Arrive, EditIgnored, vars

LEMMA PipelineIsCalm ==
    ASSUME Leased, NEW p \in Pipelines,
           Begin(p) \/ Check(p) \/ Gather(p) \/ ClaimRows(p) \/ Persist(p)
    PROVE  Calm
<1> USE WorkerFacts
    DEF messages, digest, lease, job, local, Goto, Set, Leave, Leased, LeaseInv, InTime
<1>1. CASE Begin(p) \/ Check(p) \/ Gather(p)
  <2>1. UNCHANGED <<status, payload, owner, age>> \/ \E x \in Digests : Cancel(x)
    BY <1>1 DEF Shape, Begin, Check, Gather
  <2>2. UNCHANGED late /\ \A w \in Workers : ~(Delivering(w)' /\ ~Delivering(w))
    BY <1>1 DEF Shape, Begin, Start, Check, Gather, Delivering
  <2>3. \A w \in Workers, d \in Digests : Holds(w, d)' => Holds(w, d)
    BY <1>1 DEF Shape, Begin, Start, Check, Gather, Holds
  <2> QED
    BY <2>1, <2>2, <2>3, RowsKept DEF Calm
<1>2. CASE ClaimRows(p)
  <2>1. \/ Leave(p) /\ UNCHANGED digest
        \/ \E d \in Digests : /\ status[d] = "none"
                             /\ status' = Set(status, d, "building")
                             /\ hold' = Set(hold, p, d) /\ Goto(p, "generated")
                             /\ UNCHANGED <<payload, age, owner>>
    BY <1>2, Zenon DEF ClaimRows, ClaimAmong, IsNext
  <2>2. UNCHANGED late
    BY <1>2 DEF ClaimRows, ClaimAmong
  <2>3. \A w \in Workers, d \in Digests : Holds(w, d)' => Holds(w, d) /\ RowKept(d)
    BY <2>1 DEF Shape, Holds, RowKept, HoldersOwn, Owned
  <2> QED
    BY <2>1, <2>2, <2>3 DEF Shape, Calm, Delivering
<1>3. CASE Persist(p)
  <2>1. \A w \in Workers, d \in Digests : Holds(w, d)' => Holds(w, d) /\ w # p
    BY <1>3 DEF Shape, Persist, Holds
  <2>2. \A w \in Workers, d \in Digests : Holds(w, d) => RowKept(d)
    BY <1>3 DEF Shape, Persist, RowKept, HoldersOwn, Owned
  <2>3. \A w \in Workers : w # p => late'[w] = late[w] /\ pc'[w] = pc[w]
    BY <1>3 DEF Shape, Persist
  <2>4. late'[p] = 0 /\ 0 <= MaxSend
    BY <1>3, ConstantsAssumption DEF Shape, Persist, ConstantsAssumption
  <2> QED
    BY <2>1, <2>2, <2>3, <2>4 DEF Calm, Delivering
<1> QED
  BY <1>1, <1>2, <1>3

LEMMA SendIsCalm ==
    ASSUME Leased, NEW w \in Workers, Send(w)
    PROVE  Calm
<1> USE WorkerFacts
    DEF messages, digest, lease, job, local, Goto, Set, Leave, Leased, LeaseInv, InTime
<1>0. hold[w] \in Digests /\ Holds(w, hold[w])
  BY DEF Shape, Send, BeginSend, Accept, Raise, Finalize, Done, MarkPending, Mailing, Holds
<1>1. UNCHANGED late /\ \A v \in Workers : Delivering(v)' => Delivering(v)
  BY DEF Shape, Send, BeginSend, Accept, Raise, Finalize, Done, MarkPending, Mailing, Delivering
<1>2. \A v \in Workers, d \in Digests : Holds(v, d)' => Holds(v, d)
  BY DEF Shape, Send, BeginSend, Accept, Raise, Finalize, Done, MarkPending, Mailing, Holds
<1>3. \A v \in Workers, d \in Digests : Holds(v, d)' => RowKept(d)
  <2>1. CASE BeginSend(w) \/ Accept(w) \/ Raise(w)
    BY <1>0, <2>1, RowsKept DEF BeginSend, Accept, Raise
  <2>2. CASE Finalize(w) \/ MarkPending(w)
    <3>1. \A v \in Workers, d \in Digests : Holds(v, d)' => v # w
      BY <2>2 DEF Shape, Finalize, Done, MarkPending, Holds
    <3>2. \A v \in Workers, d \in Digests : Holds(v, d)' => d # hold[w]
      BY <1>0, <1>2, <3>1 DEF OneHolder
    <3> QED
      BY <2>2, <3>2 DEF Shape, Finalize, Done, MarkPending, RowKept
  <2> QED
    BY <2>1, <2>2 DEF Send
<1> QED
  BY <1>1, <1>2, <1>3 DEF Calm

\* A stale claim is nobody's: its holder would be a pipeline, and late.
LEMMA StartSweepIsCalm ==
    ASSUME Leased, LeaseOutlivesSend, NEW w \in Sweepers, StartSweep(w)
    PROVE  Calm
<1> USE WorkerFacts DEF Leased, LeaseInv, Goto, Set
<1>0. w \in Workers
  BY DEF Workers
<1>1. \A v \in Workers, d \in Digests : Holds(v, d)' => Holds(v, d) /\ v # w
  BY <1>0 DEF Shape, StartSweep, Holds
<1>2. \A v \in Workers : v # w => late'[v] = late[v] /\ pc'[v] = pc[v]
  BY DEF Shape, StartSweep
<1>3. ASSUME NEW v \in Workers, NEW d \in Digests, Holds(v, d), v # w, w = Retrier, Stale(d)
      PROVE  FALSE
  <2>1. Owned(v, d)
    BY <1>3 DEF HoldersOwn, Stale
  <2>2. v \in Pipelines
    BY <1>3 DEF Shape, Holds, Workers, Sweepers
  <2>3. age[d] <= late[v] /\ late[v] <= MaxSend
    BY <1>3, <2>1, <2>2 DEF ClaimAge, InTime, Holds, Delivering
  <2> QED
    BY <1>3, <2>3, ConstantsAssumption
    DEF Shape, Stale, LeaseOutlivesSend, ConstantsAssumption
<1>4. UNCHANGED payload
  BY DEF StartSweep, job
<1>5. \A v \in Workers, d \in Digests : Holds(v, d) /\ v # w => RowKept(d)
  BY <1>3, <1>4 DEF Shape, StartSweep, RowKept
<1>6. \A p \in Pipelines : Delivering(p)' => late'[p] <= MaxSend
  BY <1>2 DEF InTime, Delivering
<1> QED
  BY <1>1, <1>2, <1>5, <1>6 DEF Calm

\* Whoever claims a digest is alone with it: what others hold is being sent, or has
\* no payload.
LEMMA ClaimKeepsLease ==
    ASSUME Leased, NEW w \in Workers, NEW d \in Digests,
           Claimable(w, d), Claim(w, d), UNCHANGED late,
           w \in Pipelines => Delivering(w)
    PROVE  LeaseInv'
<1> USE WorkerFacts DEF Leased, LeaseInv, Goto, Set
<1>1. \A v \in Workers : ~Holds(v, d)
  BY DEF Shape, HoldersOwn, Owned, Claimable, Sendable
<1>2. \A v \in Workers, x \in Digests :
          Holds(v, x)' => (v = w /\ x = d) \/ (v # w /\ x # d /\ Holds(v, x))
  BY <1>1 DEF Shape, Claim, Holds
<1>3. /\ payload' = payload
      /\ status'[d] = "sending" /\ owner'[d] = w /\ age'[d] = late[w]
      /\ \A x \in Digests \ {d} :
           status'[x] = status[x] /\ owner'[x] = owner[x] /\ age'[x] = age[x]
  BY DEF Shape, Claim, job
<1>4. OneHolder'
  BY <1>2 DEF OneHolder
<1>5. HoldersOwn'
  BY <1>2, <1>3 DEF HoldersOwn, Owned
<1>6. InTime'
  BY DEF Shape, InTime, Delivering, Claim
<1>7. ASSUME NEW p \in Pipelines, NEW x \in Digests, Holds(p, x)', Owned(p, x)'
      PROVE  age'[x] <= late'[p]
  BY <1>2, <1>3, <1>7 DEF Shape, ClaimAge, Owned
<1> QED
  BY <1>4, <1>5, <1>6, <1>7 DEF ClaimAge

LEMMA DeliverKeepsLease ==
    ASSUME Leased, NEW p \in Pipelines, Deliver(p)
    PROVE  LeaseInv'
<1>1. CASE Claim(p, hold[p]) /\ Claimable(p, hold[p])
  <2>1. hold[p] \in Digests /\ Delivering(p) /\ UNCHANGED late
    BY WorkerFacts DEF Leased, Shape, Deliver, Delivering
  <2> QED
    BY <1>1, <2>1, ClaimKeepsLease, WorkerFacts
<1>2. CASE Leave(p) /\ UNCHANGED digest
  <2>1. Calm
    BY <1>2, WorkerFacts, RowsKept
    DEF Leased, LeaseInv, InTime, Shape, Deliver, Leave, Goto, Calm, Holds, Delivering,
        digest, lease, job
  <2> QED
    BY <2>1, CalmKeeps DEF Leased
<1> QED
  BY <1>1, <1>2 DEF Deliver

LEMMA SweepKeepsLease ==
    ASSUME Leased, NEW w \in Sweepers, Sweep(w)
    PROVE  LeaseInv'
<1>0. w \in Workers /\ w \notin Pipelines /\ UNCHANGED late
  BY WorkerFacts DEF Workers, Sweep
<1>1. PICK d \in queue[w] :
        \/ Claimable(w, d) /\ Claim(w, d)
        \/ (Cancel(d) \/ UNCHANGED digest) /\ UNCHANGED <<pc, hold>>
  BY DEF Sweep
<1>2. d \in Digests
  BY <1>0 DEF Leased, Shape
<1>3. CASE Claimable(w, d) /\ Claim(w, d)
  BY <1>0, <1>2, <1>3, ClaimKeepsLease
<1>4. CASE (Cancel(d) \/ UNCHANGED digest) /\ UNCHANGED <<pc, hold>>
  <2>1. UNCHANGED <<status, payload, owner, age>> \/ \E x \in Digests : Cancel(x)
    BY <1>2, <1>4 DEF digest, lease, job
  <2>2. Calm
    BY <1>0, <1>4, <2>1, RowsKept DEF Leased, LeaseInv, InTime, Calm, Holds, Delivering
  <2> QED
    BY <2>2, CalmKeeps DEF Leased
<1> QED
  BY <1>1, <1>3, <1>4

LEMMA PassIsCalm ==
    ASSUME Leased, NEW w \in Sweepers, Select(w) \/ EndSweep(w)
    PROVE  Calm
<1>1. w \in Workers
  BY DEF Workers
<1>2. UNCHANGED <<status, payload, owner, age>>
  BY DEF Select, EndSweep, digest, lease, job
<1> QED
  BY <1>1, <1>2, RowsKept, WorkerFacts
  DEF Leased, LeaseInv, InTime, Shape, Select, EndSweep, Goto, Set, Calm, Holds, Delivering

\* Time goes on while every pipeline that delivers has time left.
LEMMA TickKeepsLease ==
    ASSUME Leased, LeaseOutlivesSend, Tick
    PROVE  LeaseInv'
<1> USE WorkerFacts, ConstantsAssumption DEF Leased, LeaseInv, ConstantsAssumption
<1>1. UNCHANGED <<status, payload, owner, pc, hold>>
  BY DEF Tick
<1>2. \A p \in Pipelines : Delivering(p) => late'[p] = late[p] + 1 /\ late[p] < MaxSend
  BY DEF Shape, Tick, Smaller, Horizon, LeaseOutlivesSend
<1>3. \A d \in Digests : age'[d] <= age[d] + 1
  BY DEF Shape, Tick, Smaller, Horizon
<1>4. OneHolder' /\ HoldersOwn'
  BY <1>1 DEF OneHolder, HoldersOwn, Holds, Owned
<1>5. InTime'
  BY <1>1, <1>2 DEF Shape, InTime, Delivering
<1>6. ASSUME NEW p \in Pipelines, NEW d \in Digests, Holds(p, d)', Owned(p, d)'
      PROVE  age'[d] <= late'[p]
  <2>1. Holds(p, d) /\ Owned(p, d) /\ Delivering(p)
    BY <1>1, <1>6 DEF Holds, Owned, Delivering
  <2>2. age[d] <= late[p]
    BY <2>1 DEF ClaimAge
  <2>3. age[d] \in Nat /\ late[p] \in Nat /\ age'[d] \in Int
    BY DEF Shape, Tick, Smaller, Horizon
  <2> QED
    BY <1>2, <1>3, <2>1, <2>2, <2>3
<1> QED
  BY <1>4, <1>5, <1>6 DEF ClaimAge

LEMMA LeaseKeeps == LeaseOutlivesSend /\ Leased /\ [Next]_vars => Leased'
<1> SUFFICES ASSUME LeaseOutlivesSend, Leased, [Next]_vars PROVE LeaseInv'
  BY ShapeKeeps DEF Leased
<1>1. CASE \/ \E m \in Messages : Arrive(m)
           \/ \E c \in Chats : EditIgnored(c)
           \/ \E w \in Workers : Crash(w)
           \/ UNCHANGED vars
  BY <1>1, WorldIsCalm, CalmKeeps DEF Leased
<1>2. CASE Tick
  BY <1>2, TickKeepsLease
<1>3. ASSUME NEW p \in Pipelines, Pipeline(p) PROVE LeaseInv'
  BY <1>3, PipelineIsCalm, DeliverKeepsLease, CalmKeeps DEF Pipeline, Leased
<1>4. ASSUME NEW w \in Sweepers, StartSweep(w) \/ Select(w) \/ Sweep(w) \/ EndSweep(w)
      PROVE  LeaseInv'
  BY <1>4, StartSweepIsCalm, PassIsCalm, SweepKeepsLease, CalmKeeps DEF Leased
<1>5. ASSUME NEW w \in Workers, Send(w) PROVE LeaseInv'
  BY <1>5, SendIsCalm, CalmKeeps DEF Leased
<1> QED
  BY <1>1, <1>2, <1>3, <1>4, <1>5 DEF Next

\* If a delivery takes less than the lease, no two workers ever have the same digest at
\* the mail server (claim_pending_digest, release_stale_digest_claims).
THEOREM SingleSender == LeaseOutlivesSend => (Spec => []OneSender)
<1> SUFFICES ASSUME LeaseOutlivesSend PROVE Spec => []OneSender
  OBVIOUS
<1>1. Init => Leased
  BY ShapeInit, WorkerFacts
  DEF Leased, LeaseInv, Init, OneHolder, HoldersOwn, InTime, ClaimAge, Holds, Delivering
<1>2. Leased /\ [Next]_vars => Leased'
  BY LeaseKeeps
<1>3. Leased => OneSender
  BY DEF Leased, Shape, LeaseInv, OneHolder, OneSender, Mailing, Holds
<1> QED
  BY <1>1, <1>2, <1>3, PTL DEF Spec

------------------------------------------------------------------------------
\* Type correctness.  What is claimed, or read to be claimed, is stored.
Arrived ==
    /\ \A m \in Messages : claimedBy[m] # None => m \in arrived
    /\ \A p \in Pipelines : pc[p] = "rows" => rows[p] \subseteq arrived

\* The two halves of TypeOK: what the workers hold, and all else.
LocalTyped ==
    /\ pc \in [Workers -> Steps] /\ hold \in [Workers -> Digests \cup {None}]
    /\ rows \in [Workers -> SUBSET Messages] /\ snap \in [Workers -> SUBSET Chats]
    /\ late \in [Workers -> 0..Horizon] /\ queue \in [Workers -> SUBSET Digests]

StoredTyped ==
    /\ arrived \subseteq Messages /\ digested \subseteq arrived
    /\ claimedBy \in [Messages -> Digests \cup {None}]
    /\ status \in [Digests -> Statuses]
    /\ key \in [Digests -> SUBSET Messages] /\ payload \in [Digests -> SUBSET Messages]
    /\ sources \in [Digests -> SUBSET Chats] /\ attempts \in [Digests -> 0..Len(Backoff)]
    /\ age \in [Digests -> 0..Horizon] /\ due \in [Digests -> Int]
    /\ owner \in [Digests -> Workers \cup {None}]
    /\ ignored \subseteq Chats
    /\ mailed \in [Messages -> 0..2] /\ carried \in [Digests -> SUBSET Messages]
    /\ omitted \subseteq Messages /\ doubt \subseteq Digests
    /\ incidents \in 0..MaxIncidents /\ runs \in 0..MaxRuns

Typed == LocalTyped /\ StoredTyped /\ Shape /\ Arrived

LEMMA BackoffFacts ==
    /\ StaleAfter \in Nat /\ Len(Backoff) \in Nat /\ Len(Backoff) >= 1
    /\ \A n \in 1..Len(Backoff) : Backoff[n] \in Int
    /\ MaxIncidents \in Nat /\ MaxRuns \in Nat
    /\ 0 \in 0..Horizon
  BY ConstantsAssumption DEF ConstantsAssumption, Horizon

LEMMA ChatsOfMessages == \A S \in SUBSET Messages : ChatsOf(S) \in SUBSET Chats
  BY DEF ChatsOf, Chats

LEMMA TypedInit == Init => Typed
  BY BackoffFacts, ShapeInit, WorkerFacts
  DEF Init, Typed, LocalTyped, StoredTyped, Arrived, Statuses, Steps, Horizon

\* A step that leaves all but the workers alone.
LEMMA LocalStep ==
    ASSUME Typed, UNCHANGED <<messages, digest, ignored, past, bounds>>, LocalTyped',
           \A p \in Pipelines : pc'[p] = "rows" => rows'[p] \subseteq arrived
    PROVE  LocalTyped' /\ StoredTyped' /\ Arrived'
  BY DEF Typed, StoredTyped, Arrived, messages, digest, lease, job, past, bounds

\* Withdrawing a digest keeps the types, and what is claimed stays stored.
LEMMA WithdrawTyped ==
    ASSUME Typed, NEW d \in Digests, Cancel(d), UNCHANGED <<ignored, bounds>>
    PROVE  /\ StoredTyped' /\ UNCHANGED arrived
           /\ \A m \in Messages : claimedBy'[m] # None => m \in arrived
<1> USE BackoffFacts DEF Typed, StoredTyped, Cancel, Withdraw, Set, bounds
<1>1. /\ claimedBy' \in [Messages -> Digests \cup {None}]
      /\ \A m \in Messages : claimedBy'[m] # None => claimedBy'[m] = claimedBy[m]
  BY DEF Released
<1>2. "cancelled" \in Statuses
  BY DEF Statuses
<1>3. StoredTyped'
  BY <1>1, <1>2
<1> QED
  BY <1>1, <1>3 DEF Arrived

LEMMA ClaimTyped ==
    ASSUME Typed, NEW w \in Workers, NEW d \in Digests, Claim(w, d),
           UNCHANGED <<ignored, snap, late, bounds>>, queue' \in [Workers -> SUBSET Digests]
    PROVE  LocalTyped' /\ StoredTyped' /\ Arrived'
<1> USE DEF messages, job, past, bounds, Goto, Set, Typed, Claim
<1>1. "claimed" \in Steps /\ "sending" \in Statuses
  BY DEF Steps, Statuses
<1>2. LocalTyped' /\ Arrived'
  <2>1. LocalTyped'
    BY <1>1 DEF LocalTyped
  <2>2. Arrived'
    BY DEF LocalTyped, Arrived
  <2> QED
    BY <2>1, <2>2
<1>3. StoredTyped'
  BY <1>1 DEF StoredTyped, LocalTyped
<1> QED
  BY <1>2, <1>3

LEMMA LeaveTyped ==
    ASSUME Typed, NEW w \in Workers, Leave(w), UNCHANGED <<snap, late, queue>>
    PROVE  LocalTyped' /\ \A p \in Pipelines : pc'[p] = "rows" => rows'[p] \subseteq arrived
  BY DEF Typed, LocalTyped, Arrived, Leave, Goto, Steps

\* A pipeline that goes on, to another step than to read its rows.
LEMMA PlaceTyped ==
    ASSUME Typed, NEW p \in Workers, NEW step \in Steps \ {"rows"},
           pc' = [pc EXCEPT ![p] = step], UNCHANGED <<late, queue, arrived, claimedBy>>,
           hold' \in [Workers -> Digests \cup {None}],
           rows' \in [Workers -> SUBSET Messages], snap' \in [Workers -> SUBSET Chats],
           \A q \in Pipelines \ {p} : rows'[q] = rows[q]
    PROVE  LocalTyped' /\ Arrived'
<1>1. LocalTyped'
  BY DEF Typed, LocalTyped
<1>2. Arrived'
  BY WorkerFacts DEF Typed, LocalTyped, Arrived
<1> QED
  BY <1>1, <1>2

LEMMA WorldTyped ==
    ASSUME Typed,
           \/ \E m \in Messages : Arrive(m)
           \/ \E c \in Chats : EditIgnored(c)
           \/ Tick
           \/ \E w \in Workers : Crash(w)
           \/ UNCHANGED vars
    PROVE  LocalTyped' /\ StoredTyped' /\ Arrived'
<1> USE BackoffFacts
    DEF messages, digest, lease, job, local, past, bounds, Goto, Set, Typed
<1>1. CASE \/ \E m \in Messages : Arrive(m)
           \/ \E c \in Chats : EditIgnored(c)
           \/ UNCHANGED vars
  BY <1>1 DEF Arrive, EditIgnored, vars, LocalTyped, StoredTyped, Arrived
<1>2. CASE Tick
  BY <1>2 DEF Tick, Smaller, Horizon, LocalTyped, StoredTyped, Arrived
<1>3. ASSUME NEW w \in Workers, Crash(w) PROVE LocalTyped' /\ StoredTyped' /\ Arrived'
  <2>1. doubt' \subseteq Digests
    BY <1>3 DEF Crash, Shape, Mailing, StoredTyped
  <2>2. LocalTyped' /\ Arrived'
    BY <1>3 DEF Crash, LocalTyped, Arrived, Steps
  <2>3. StoredTyped'
    BY <1>3, <2>1 DEF Crash, StoredTyped
  <2> QED
    BY <2>2, <2>3
<1> QED
  BY <1>1, <1>2, <1>3

LEMMA PipelineTyped ==
    ASSUME Typed, NEW p \in Pipelines, Pipeline(p)
    PROVE  LocalTyped' /\ StoredTyped' /\ Arrived'
<1> USE BackoffFacts DEF Typed, Goto, Set
<1>0. p \in Workers /\ p \notin Sweepers
  BY WorkerFacts
<1>1. CASE Begin(p)
  <2>1. /\ pc'[p] \in {"gather", "building", "found"}
        /\ pc' = [pc EXCEPT ![p] = pc'[p]]
        /\ hold' \in [Workers -> Digests \cup {None}]
    BY <1>0, <1>1 DEF Begin, LocalTyped
  <2>2. LocalTyped' /\ Arrived'
    <3>1. pc' = [pc EXCEPT ![p] = pc'[p]] /\ UNCHANGED <<rows, late, queue, arrived, claimedBy>>
          /\ snap' = [snap EXCEPT ![p] = ignored]
      BY <1>1, <2>1 DEF Begin, Start, messages
    <3> QED
      BY <1>0, <2>1, <3>1, PlaceTyped DEF StoredTyped, LocalTyped, Steps
  <2>3. StoredTyped'
    BY <1>1 DEF Begin, Start, StoredTyped, messages, digest, lease, job, past
  <2> QED
    BY <2>2, <2>3
<1>2. CASE Check(p)
  <2>1. hold[p] \in Digests
    BY <1>0, <1>2 DEF Shape, Check
  <2>2. UNCHANGED <<ignored, snap, late, queue, bounds>>
    BY <1>2 DEF Check
  <2>3. CASE Cancel(hold[p]) /\ Goto(p, "gather") /\ hold' = Set(hold, p, None)
             /\ UNCHANGED rows
    <3>1. LocalTyped' /\ Arrived'
      BY <1>0, <2>1, <2>2, <2>3, WithdrawTyped DEF LocalTyped, Arrived, Steps
    <3> QED
      BY <2>1, <2>2, <2>3, <3>1, WithdrawTyped
  <2>4. CASE Leave(p) /\ UNCHANGED <<messages, digest, past>>
    BY <1>0, <2>2, <2>4, LeaveTyped, LocalStep
  <2>5. CASE /\ Goto(p, "generated") /\ rows' = Set(rows, p, rows'[p])
             /\ rows'[p] \subseteq Messages /\ UNCHANGED <<hold, messages, digest, past>>
    <3>1. LocalTyped' /\ Arrived'
      <4>1. pc' = [pc EXCEPT ![p] = "generated"] /\ rows' \in [Workers -> SUBSET Messages]
        BY <2>5 DEF LocalTyped
      <4>2. "generated" \in Steps \ {"rows"}
        BY DEF Steps
      <4>3. \A q \in Pipelines \ {p} : rows'[q] = rows[q]
        BY <2>5, WorkerFacts DEF LocalTyped
      <4>4. hold' \in [Workers -> Digests \cup {None}] /\ snap' \in [Workers -> SUBSET Chats]
        BY <2>2, <2>5 DEF LocalTyped
      <4>5. UNCHANGED <<late, queue, arrived, claimedBy>>
        BY <2>2, <2>5 DEF messages
      <4> QED
        BY <1>0, <4>1, <4>2, <4>3, <4>4, <4>5, PlaceTyped
    <3> QED
      BY <2>2, <2>5, <3>1 DEF StoredTyped, messages, digest, lease, job, past, bounds
  <2>6. {m \in Claims(hold[p]) : ChatOf[m] \notin snap[p]} \subseteq Messages
    BY DEF Claims
  <2>7. rows \in [Workers -> SUBSET Messages]
    BY DEF LocalTyped
  <2> QED
    BY <1>0, <1>2, <2>3, <2>4, <2>5, <2>6, <2>7 DEF Check
<1>3. CASE Gather(p)
  <2>1. PICK S \in SUBSET arrived :
          \/ Leave(p)
          \/ rows' = Set(rows, p, S) /\ Goto(p, "rows") /\ UNCHANGED hold
    <3>1. CASE Leave(p)
      BY <3>1
    <3>2. CASE ~Leave(p)
      BY <1>3, <3>2, Zenon DEF Gather
    <3> QED
      BY <3>1, <3>2
  <2>2. UNCHANGED <<messages, digest, ignored, snap, late, queue, past, bounds>>
    BY <1>3 DEF Gather
  <2>3. CASE Leave(p)
    BY <1>0, <2>2, <2>3, LeaveTyped, LocalStep
  <2>4. CASE rows' = Set(rows, p, S) /\ Goto(p, "rows") /\ UNCHANGED hold
    <3>1. LocalTyped' /\ Arrived'
      BY <1>0, <2>2, <2>4 DEF LocalTyped, StoredTyped, Arrived, Steps, messages
    <3> QED
      BY <2>2, <2>4, <3>1 DEF StoredTyped, messages, digest, lease, job, past, bounds
  <2> QED
    BY <2>1, <2>3, <2>4
<1>4. CASE ClaimRows(p)
  <2> DEFINE mine == rows[p] \cap {m \in Messages : Free(m)}
  <2>1. mine \subseteq arrived /\ mine \subseteq Messages /\ ChatsOf(mine) \subseteq Chats
    BY <1>4, ChatsOfMessages DEF ClaimRows, ClaimAmong, Arrived
  <2>2. \/ Leave(p) /\ UNCHANGED <<messages, digest>>
        \/ \E d \in Digests :
             /\ status' = Set(status, d, "building") /\ key' = Set(key, d, rows[p])
             /\ sources' = Set(sources, d, ChatsOf(mine))
             /\ claimedBy' = [m \in Messages |-> IF m \in mine THEN d ELSE claimedBy[m]]
             /\ hold' = Set(hold, p, d) /\ Goto(p, "generated") /\ rows' = Set(rows, p, mine)
             /\ UNCHANGED <<arrived, digested, payload, attempts, due, age, owner>>
    BY <1>4, Zenon DEF ClaimRows, ClaimAmong
  <2>3. UNCHANGED <<ignored, snap, late, queue, past, bounds>>
    BY <1>4 DEF ClaimRows, ClaimAmong
  <2> HIDE DEF mine
  <2>4. CASE Leave(p) /\ UNCHANGED <<messages, digest>>
    BY <1>0, <2>3, <2>4, LeaveTyped, LocalStep
  <2>5. ASSUME NEW d \in Digests,
               /\ status' = Set(status, d, "building") /\ key' = Set(key, d, rows[p])
               /\ sources' = Set(sources, d, ChatsOf(mine))
               /\ claimedBy' = [m \in Messages |-> IF m \in mine THEN d ELSE claimedBy[m]]
               /\ hold' = Set(hold, p, d) /\ Goto(p, "generated") /\ rows' = Set(rows, p, mine)
               /\ UNCHANGED <<arrived, digested, payload, attempts, due, age, owner>>
        PROVE  LocalTyped' /\ StoredTyped' /\ Arrived'
    <3>1. "building" \in Statuses /\ "generated" \in Steps
      BY DEF Steps, Statuses
    <3>2. LocalTyped' /\ Arrived'
      BY <1>0, <2>1, <2>3, <2>5, <3>1 DEF LocalTyped, Arrived
    <3>3. StoredTyped'
      BY <1>0, <2>1, <2>3, <2>5, <3>1 DEF LocalTyped, StoredTyped, past, bounds
    <3> QED
      BY <3>2, <3>3
  <2> QED
    BY <2>2, <2>4, <2>5
<1>5. CASE Persist(p)
  <2>1. hold[p] \in Digests
    BY <1>0, <1>5 DEF Shape, Persist
  <2>2. Claims(hold[p]) \subseteq Messages /\ ChatsOf(Claims(hold[p])) \subseteq Chats
    BY ChatsOfMessages DEF Claims
  <2>3. "pending" \in Statuses /\ "deliver" \in Steps
    BY DEF Steps, Statuses
  <2>4. LocalTyped' /\ Arrived'
    BY <1>0, <1>5, <2>3 DEF Persist, LocalTyped, Arrived, messages
  <2>5. rows[p] \subseteq Messages
    BY <1>0 DEF LocalTyped
  <2>6. StoredTyped'
    <3>1. UNCHANGED <<messages, key, attempts, age, owner, ignored, mailed, carried, doubt, bounds>>
      BY <1>5 DEF Persist
    <3>2. CASE status[hold[p]] = "building"
      <4> DEFINE d == hold[p]
      <4>1. /\ status' = Set(status, d, "pending") /\ payload' = Set(payload, d, rows[p])
            /\ sources' = Set(sources, d, ChatsOf(Claims(d))) /\ due' = Set(due, d, 0)
            /\ omitted' = omitted \cup (Claims(d) \ rows[p])
        BY <1>5, <3>2 DEF Persist
      <4> HIDE DEF d
      <4>2. d \in Digests /\ Claims(d) \subseteq Messages /\ ChatsOf(Claims(d)) \subseteq Chats
        BY <2>1, <2>2 DEF d
      <4> QED
        BY <2>3, <2>5, <3>1, <4>1, <4>2 DEF StoredTyped, messages, bounds
    <3>3. CASE status[hold[p]] # "building"
      BY <1>5, <3>1, <3>3 DEF Persist, StoredTyped, messages, bounds
    <3> QED
      BY <3>2, <3>3
  <2> QED
    BY <2>4, <2>6
<1>6. CASE Deliver(p)
  <2>1. hold[p] \in Digests /\ UNCHANGED <<ignored, snap, late, queue, bounds>>
    BY <1>0, <1>6 DEF Shape, Deliver
  <2>2. CASE Claim(p, hold[p])
    BY <1>0, <2>1, <2>2, ClaimTyped DEF LocalTyped
  <2>3. CASE Leave(p) /\ UNCHANGED <<messages, digest, past>>
    BY <1>0, <2>1, <2>3, LeaveTyped, LocalStep
  <2> QED
    BY <1>6, <2>2, <2>3 DEF Deliver
<1> QED
  BY <1>1, <1>2, <1>3, <1>4, <1>5, <1>6 DEF Pipeline

LEMMA SweepTyped ==
    ASSUME Typed, NEW w \in Sweepers,
           StartSweep(w) \/ Select(w) \/ Sweep(w) \/ EndSweep(w)
    PROVE  LocalTyped' /\ StoredTyped' /\ Arrived'
<1> USE BackoffFacts DEF Typed, Goto, Set
<1>0. w \in Workers /\ w \notin Pipelines
  BY WorkerFacts DEF Workers, Sweepers
<1>1. CASE StartSweep(w)
  <2>1. LocalTyped' /\ Arrived'
    BY <1>0, <1>1 DEF StartSweep, Start, Steps, LocalTyped, StoredTyped, Arrived, messages
  <2>2. StoredTyped'
    BY <1>1 DEF StartSweep, Start, Statuses, StoredTyped, messages, job, past
  <2> QED
    BY <2>1, <2>2
<1>2. CASE Select(w)
  <2>1. LocalTyped' /\ \A p \in Pipelines : pc'[p] = "rows" => rows'[p] \subseteq arrived
    BY <1>0, <1>2 DEF Select, Steps, LocalTyped, Arrived
  <2> QED
    BY <1>2, <2>1, LocalStep DEF Select
<1>3. CASE Sweep(w)
  <2>1. PICK d \in queue[w] :
          /\ queue' = Set(queue, w, queue[w] \ {d})
          /\ \/ Cancel(d) /\ UNCHANGED <<pc, hold, rows>>
             \/ Claim(w, d)
             \/ UNCHANGED <<messages, digest, pc, hold, rows, past>>
    BY <1>3 DEF Sweep
  <2>2. /\ d \in Digests /\ UNCHANGED <<ignored, snap, late, bounds>>
        /\ queue' \in [Workers -> SUBSET Digests]
    BY <1>0, <1>3, <2>1 DEF Sweep, LocalTyped
  <2>3. CASE Cancel(d) /\ UNCHANGED <<pc, hold, rows>>
    <3>1. LocalTyped' /\ Arrived'
      BY <2>2, <2>3, WithdrawTyped DEF LocalTyped, Arrived
    <3> QED
      BY <2>2, <2>3, <3>1, WithdrawTyped
  <2>4. CASE Claim(w, d)
    BY <1>0, <2>2, <2>4, ClaimTyped
  <2>5. CASE UNCHANGED <<messages, digest, pc, hold, rows, past>>
    BY <2>2, <2>5, LocalStep DEF LocalTyped, Arrived
  <2> QED
    BY <2>1, <2>3, <2>4, <2>5
<1>4. CASE EndSweep(w)
  <2>1. LocalTyped' /\ \A p \in Pipelines : pc'[p] = "rows" => rows'[p] \subseteq arrived
    BY <1>0, <1>4 DEF EndSweep, Steps, LocalTyped, Arrived
  <2> QED
    BY <1>4, <2>1, LocalStep DEF EndSweep
<1> QED
  BY <1>1, <1>2, <1>3, <1>4

LEMMA SendTyped ==
    ASSUME Typed, NEW w \in Workers, Send(w)
    PROVE  LocalTyped' /\ StoredTyped' /\ Arrived'
<1> USE BackoffFacts DEF Typed, Goto, Set
<1>0. hold[w] \in Digests /\ pc[w] # "rows"
  BY DEF Shape, Send, BeginSend, Accept, Raise, Finalize, Done, MarkPending, Mailing
<1>1. CASE BeginSend(w)
  <2>1. UNCHANGED <<ignored, snap, late, queue, bounds>>
    BY <1>1 DEF BeginSend
  <2>2. CASE Cancel(hold[w]) /\ Leave(w)
    BY <1>0, <2>1, <2>2, WithdrawTyped, LeaveTyped DEF Arrived
  <2>3. CASE Leave(w) /\ UNCHANGED <<messages, digest, past>>
    BY <2>1, <2>3, LeaveTyped, LocalStep
  <2>4. CASE /\ Goto(w, "sending") /\ rows' = Set(rows, w, payload[hold[w]])
             /\ carried' = Set(carried, hold[w], carried[hold[w]] \cup payload[hold[w]])
             /\ UNCHANGED <<messages, digest, hold, mailed, omitted, doubt>>
    <3>1. LocalTyped' /\ Arrived'
      BY <1>0, <2>1, <2>4 DEF LocalTyped, StoredTyped, Arrived, Steps, messages
    <3>2. StoredTyped'
      BY <1>0, <2>1, <2>4 DEF StoredTyped, messages, digest, lease, job, bounds
    <3> QED
      BY <3>1, <3>2
  <2> QED
    BY <1>1, <2>2, <2>3, <2>4 DEF BeginSend
<1>2. CASE Accept(w)
  <2>1. LocalTyped' /\ Arrived'
    BY <1>2 DEF Accept, Steps, LocalTyped, Arrived, messages
  <2>2. StoredTyped'
    BY <1>2 DEF Accept, Smaller, StoredTyped, messages, digest, lease, job, bounds
  <2> QED
    BY <2>1, <2>2
<1>3. CASE Raise(w)
  <2>1. LocalTyped' /\ Arrived'
    BY <1>3 DEF Raise, Steps, LocalTyped, Arrived, messages
  <2>2. StoredTyped'
    BY <1>0, <1>3 DEF Raise, StoredTyped, messages, digest, lease, job, bounds
  <2> QED
    BY <2>1, <2>2
<1>4. CASE Finalize(w)
  <2>1. Claims(hold[w]) \subseteq arrived
    BY <1>0, ConstantsAssumption DEF Claims, ConstantsAssumption, Arrived
  <2>2. Released(hold[w]) \in [Messages -> Digests \cup {None}]
    BY DEF Released, StoredTyped
  <2>3. \A m \in Messages : Released(hold[w])[m] # None => m \in arrived
    BY DEF Released, Arrived
  <2>4. "sent" \in Statuses
    BY DEF Statuses
  <2>5. LocalTyped' /\ Arrived'
    BY <1>4, <2>3, LeaveTyped DEF Finalize, Done, Arrived
  <2>6. StoredTyped'
    BY <1>0, <1>4, <2>1, <2>2, <2>4 DEF Finalize, Done, StoredTyped, past, bounds
  <2> QED
    BY <2>5, <2>6
<1>5. CASE MarkPending(w)
  <2> DEFINE n == Smaller(attempts[hold[w]] + 1, Len(Backoff))
  <2>1. n \in 1..Len(Backoff)
    BY <1>0 DEF Smaller, StoredTyped
  <2>2. n \in 0..Len(Backoff) /\ Backoff[n] - late[w] \in Int
    BY <2>1 DEF LocalTyped
  <2>3. "pending" \in Statuses
    BY DEF Statuses
  <2> HIDE DEF n
  <2>4. /\ status' = Set(status, hold[w], "pending") /\ attempts' = Set(attempts, hold[w], n)
        /\ due' = Set(due, hold[w], Backoff[n] - late[w])
    BY <1>5 DEF MarkPending, n
  <2>5. LocalTyped' /\ Arrived'
    BY <1>5, LeaveTyped DEF MarkPending, Arrived, messages
  <2>6. StoredTyped'
    BY <1>0, <1>5, <2>2, <2>3, <2>4 DEF MarkPending, StoredTyped, messages, past, bounds
  <2> QED
    BY <2>5, <2>6
<1> QED
  BY <1>1, <1>2, <1>3, <1>4, <1>5 DEF Send

LEMMA TypedKeeps == Typed /\ [Next]_vars => Typed'
  BY WorldTyped, PipelineTyped, SweepTyped, SendTyped, ShapeKeeps DEF Next, Typed

\* The rows of digests and messages and what the workers hold are of their types.
THEOREM TypeCorrect == Spec => []TypeOK
<1>1. Typed => TypeOK
  BY DEF Typed, LocalTyped, StoredTyped, TypeOK
<1> QED
  BY <1>1, TypedInit, TypedKeeps, PTL DEF Spec

------------------------------------------------------------------------------
\* What digests and mails contain.
Kept == Typed /\ ClaimedIsLive /\ Contents /\ DigestedWasMailed /\ RetryRespectsIgnored

Promised == Contents /\ DigestedWasMailed /\ RetryRespectsIgnored

LEMMA KeptFacts ==
    ASSUME Kept
    PROVE  /\ \A d \in Digests : ~Written(d) => payload[d] = {}
           /\ \A d \in Digests : Claims(d) # {} => status[d] \in Live
           /\ \A d \in Digests : status[d] = "building" => ~Written(d)
           /\ \A d \in Digests : status[d] \in {"pending", "sending", "sent", "cancelled"} => Written(d)
  BY ConstantsAssumption
  DEF Kept, Contents, PayloadIsWritten, ClaimedIsLive, Claims, Written, ConstantsAssumption

\* Rows and mails stay as they are, but for the state a written digest is in.
LEMMA QuietKeeps ==
    ASSUME Kept, UNCHANGED <<claimedBy, digested, payload, sources, mailed, omitted>>,
           \A d \in Digests : status'[d] = status[d] \/ (Written(d) /\ Written(d)'),
           \A w \in Workers :
             /\ pc'[w] \in {"claimed", "sending", "accepted", "failed"} =>
                    pc[w] \in {"claimed", "sending", "accepted", "failed"}
             /\ pc'[w] \in {"generated", "claimed", "sending", "accepted"} => pc'[w] = pc[w]
             /\ pc'[w] \in {"generated", "claimed", "sending", "accepted", "failed"} =>
                    hold'[w] = hold[w] /\ rows'[w] = rows[w] /\ snap'[w] = snap[w]
    PROVE  Promised'
<1> USE DEF Kept, Contents
<1>1. \A d \in Digests : Written(d)' <=> Written(d)
  BY DEF Written
<1>2. \A d : Claims(d)' = Claims(d)
  BY DEF Claims
<1>3. \A w \in Workers, d \in Digests : Holds(w, d)' => Holds(w, d)
  BY DEF Holds
<1>4. \A w \in Workers : Mailing(w)' => Mailing(w)
  BY DEF Mailing
<1>5. PayloadIsWritten'
  BY <1>1 DEF PayloadIsWritten
<1>6. ClaimsAreCovered'
  BY <1>1, <1>2 DEF ClaimsAreCovered
<1>7. RowsAreClaimed'
  <2> SUFFICES ASSUME NEW p \in Pipelines, pc'[p] = "generated"
               PROVE  /\ rows'[p] # {} /\ status'[hold'[p]] # "none"
                      /\ status'[hold'[p]] = "building" => rows'[p] \subseteq Claims(hold[p])
    BY <1>2, WorkerFacts DEF RowsAreClaimed
  <2>1. pc[p] = "generated" /\ hold'[p] = hold[p] /\ rows'[p] = rows[p]
    BY WorkerFacts
  <2>2. hold[p] \in Digests
    BY <2>1, WorkerFacts DEF Typed, Shape
  <2>3. /\ status'[hold[p]] = "building" => status[hold[p]] = "building"
        /\ status[hold[p]] # "none" => status'[hold[p]] # "none"
    BY <2>2 DEF Written
  <2> QED
    BY <2>1, <2>3 DEF RowsAreClaimed
<1>8. SourcesAreKnown'
  BY DEF SourcesAreKnown
<1>9. MailIsPayload'
  BY <1>1, <1>3, <1>4 DEF MailIsPayload, Mailing
<1>10. RetryIsSafe' /\ RetryRespectsIgnored'
  BY WorkerFacts DEF RetryIsSafe, RetryRespectsIgnored
<1>11. DigestedWasMailed'
  BY DEF DigestedWasMailed
<1> QED
  BY <1>5, <1>6, <1>7, <1>8, <1>9, <1>10, <1>11 DEF Promised

LEMMA WorldKeepsPromise ==
    ASSUME Kept,
           \/ \E m \in Messages : Arrive(m)
           \/ \E c \in Chats : EditIgnored(c)
           \/ Tick
           \/ \E w \in Workers : Crash(w)
           \/ UNCHANGED vars
    PROVE  Promised'
<1> USE DEF messages, digest, lease, job, local, past, Goto, Set
<1>1. UNCHANGED <<claimedBy, digested, status, payload, sources, mailed, omitted>>
  BY DEF Arrive, EditIgnored, Tick, Crash, vars
<1>2. CASE UNCHANGED <<pc, hold, rows, snap>>
  BY <1>1, <1>2, QuietKeeps
<1>3. ASSUME NEW w \in Workers, Crash(w) PROVE Promised'
  BY <1>1, <1>3, QuietKeeps DEF Crash, Kept, Typed, LocalTyped
<1> QED
  BY <1>2, <1>3 DEF Arrive, EditIgnored, Tick, vars

\* A digest withdrawn: nothing is claimed or written of it.
LEMMA WithdrawKeepsPromise ==
    ASSUME Kept, NEW d \in Digests, Cancel(d),
           \A w \in Workers :
             /\ pc'[w] \in {"generated", "claimed", "sending", "accepted", "failed"} =>
                    pc'[w] = pc[w] /\ hold'[w] = hold[w] /\ rows'[w] = rows[w] /\ snap'[w] = snap[w]
    PROVE  Promised'
<1> USE DEF Kept, Contents
<1>1. /\ status' = [status EXCEPT ![d] = "cancelled"] /\ payload' = [payload EXCEPT ![d] = {}]
      /\ UNCHANGED <<digested, sources, mailed>> /\ omitted' = omitted \ Claims(d)
      /\ claimedBy' = Released(d)
  BY DEF Cancel, Withdraw, Set
<1>2. /\ status'[d] = "cancelled" /\ payload'[d] = {} /\ Written(d)'
      /\ \A x \in Digests \ {d} : status'[x] = status[x] /\ payload'[x] = payload[x]
                                  /\ (Written(x)' <=> Written(x))
  BY <1>1 DEF Typed, StoredTyped, Written
<1>3. Claims(d)' = {} /\ \A x \in Digests \ {d} : Claims(x)' = Claims(x)
  BY <1>1, ConstantsAssumption DEF Released, Claims, Typed, StoredTyped, ConstantsAssumption
<1>4. PayloadIsWritten'
  BY <1>2 DEF PayloadIsWritten
<1>5. ClaimsAreCovered'
  <2>1. \A m \in digested' : claimedBy'[m] = None
    BY <1>1 DEF Released, Typed, StoredTyped, ClaimsAreCovered
  <2>2. ASSUME NEW x \in Digests, Written(x)', Claims(x)' # {}
        PROVE  payload'[x] # {} /\ Claims(x)' \subseteq payload'[x] \cup omitted'
    <3>1. x # d /\ Claims(x)' = Claims(x) /\ Claims(x) \cap Claims(d) = {}
      BY <1>3, <2>2 DEF Claims
    <3> QED
      BY <1>1, <1>2, <2>2, <3>1 DEF ClaimsAreCovered
  <2> QED
    BY <2>1, <2>2 DEF ClaimsAreCovered
<1>6. RowsAreClaimed'
  <2> SUFFICES ASSUME NEW p \in Pipelines, pc'[p] = "generated"
               PROVE  /\ rows'[p] # {} /\ status'[hold'[p]] # "none"
                      /\ status'[hold'[p]] = "building" =>
                             rows'[p] \subseteq {m \in Messages : claimedBy'[m] = hold'[p]}
    BY DEF RowsAreClaimed, Claims
  <2>1. pc[p] = "generated" /\ hold'[p] = hold[p] /\ rows'[p] = rows[p] /\ hold[p] \in Digests
    BY WorkerFacts DEF Typed, Shape
  <2> QED
    BY <1>2, <1>3, <2>1 DEF RowsAreClaimed, Claims
<1>7. SourcesAreKnown'
  BY <1>1, <1>2 DEF SourcesAreKnown, ChatsOf
<1>8. MailIsPayload'
  <2> SUFFICES ASSUME NEW w \in Workers
               PROVE  /\ \A x \in Digests : Holds(w, x)' => Written(x)'
                      /\ Mailing(w)' => payload'[hold'[w]] \in {rows'[w], {}}
                      /\ pc'[w] = "accepted" => \A m \in rows'[w] : mailed'[m] > 0
    BY DEF MailIsPayload
  <2>1. \A x \in Digests : Holds(w, x)' => Holds(w, x)
    BY DEF Holds
  <2>2. Mailing(w)' => hold[w] \in Digests /\ Mailing(w) /\ hold'[w] = hold[w] /\ rows'[w] = rows[w]
    BY DEF Mailing, Typed, Shape
  <2> QED
    BY <1>1, <1>2, <2>1, <2>2 DEF MailIsPayload
<1>9. RetryIsSafe' /\ RetryRespectsIgnored'
  BY <1>1, WorkerFacts DEF RetryIsSafe, RetryRespectsIgnored
<1>10. DigestedWasMailed'
  BY <1>1, ConstantsAssumption
  DEF DigestedWasMailed, ClaimsAreCovered, Claims, ConstantsAssumption
<1> QED
  BY <1>4, <1>5, <1>6, <1>7, <1>8, <1>9, <1>10 DEF Promised

LEMMA BeginKeepsPromise ==
    ASSUME Kept, NEW p \in Pipelines, Begin(p) \/ Gather(p)
    PROVE  Promised'
<1>1. UNCHANGED <<claimedBy, digested, status, payload, sources, mailed, omitted>>
  BY DEF Begin, Gather, messages, digest, lease, job, past
<1>2. \A w \in Workers \ {p} :
        pc'[w] = pc[w] /\ hold'[w] = hold[w] /\ rows'[w] = rows[w] /\ snap'[w] = snap[w]
  BY WorkerFacts DEF Begin, Start, Gather, Leave, Goto, Set, Kept, Typed, LocalTyped
<1>3. pc'[p] \in {"gather", "building", "found", "rows", "idle"}
  BY WorkerFacts DEF Begin, Start, Gather, Leave, Goto, Set, Kept, Typed, LocalTyped
<1> QED
  BY <1>1, <1>2, <1>3, WorkerFacts, QuietKeeps

LEMMA CheckKeepsPromise ==
    ASSUME Kept, NEW p \in Pipelines, Check(p)
    PROVE  Promised'
<1> USE DEF Kept, Typed, LocalTyped
<1>1. hold[p] \in Digests /\ UNCHANGED snap
  BY WorkerFacts DEF Shape, Check
<1>2. CASE Cancel(hold[p]) /\ Goto(p, "gather") /\ hold' = Set(hold, p, None) /\ UNCHANGED rows
  <2>1. \A w \in Workers : pc'[w] \in {"generated", "claimed", "sending", "accepted", "failed"} =>
          pc'[w] = pc[w] /\ hold'[w] = hold[w] /\ rows'[w] = rows[w]
    BY <1>2, WorkerFacts DEF Goto, Set
  <2> QED
    BY <1>1, <1>2, <2>1, WithdrawKeepsPromise
<1>3. CASE Leave(p) /\ UNCHANGED <<messages, digest, past>>
  <2>1. \A w \in Workers :
          \/ pc'[w] = pc[w] /\ hold'[w] = hold[w] /\ rows'[w] = rows[w]
          \/ pc'[w] = "idle"
    BY <1>3, WorkerFacts DEF Leave, Goto
  <2> QED
    BY <1>1, <1>3, <2>1, QuietKeeps DEF messages, digest, lease, job, past
<1>4. CASE /\ Goto(p, "generated") /\ rows'[p] # {} /\ rows'[p] \subseteq Claims(hold[p])
           /\ rows' = Set(rows, p, rows'[p])
           /\ UNCHANGED <<hold, messages, digest, past>>
  <2>1. UNCHANGED <<claimedBy, digested, status, payload, sources, mailed, omitted, hold, snap>>
    BY <1>1, <1>4 DEF messages, digest, lease, job, past
  <2>2. /\ \A w \in Workers \ {p} : pc'[w] = pc[w] /\ rows'[w] = rows[w]
        /\ pc'[p] = "generated"
    BY <1>4, WorkerFacts DEF Goto, Set
  <2>3. \A d : Claims(d)' = Claims(d) /\ (Written(d)' <=> Written(d))
    BY <2>1 DEF Claims, Written
  <2> USE DEF Contents
  <2>4. RowsAreClaimed'
    <3>1. status[hold[p]] # "none"
      BY <1>1, <1>4, KeptFacts DEF Live
    <3> QED
      BY <1>4, <2>1, <2>2, <2>3, <3>1, WorkerFacts DEF RowsAreClaimed
  <2>5. MailIsPayload'
    BY <2>1, <2>2, <2>3 DEF MailIsPayload, Holds, Mailing
  <2>6. RetryIsSafe' /\ RetryRespectsIgnored'
    BY <2>1, <2>2, WorkerFacts DEF RetryIsSafe, RetryRespectsIgnored
  <2>7. PayloadIsWritten' /\ ClaimsAreCovered' /\ SourcesAreKnown' /\ DigestedWasMailed'
    BY <2>1, <2>3 DEF PayloadIsWritten, ClaimsAreCovered, SourcesAreKnown, DigestedWasMailed
  <2> QED
    BY <2>4, <2>5, <2>6, <2>7 DEF Promised
<1> QED
  BY <1>2, <1>3, <1>4, WorkerFacts DEF Check, Set

LEMMA LeaveKeepsPromise ==
    ASSUME Kept, NEW w \in Workers, Leave(w), UNCHANGED <<messages, digest, past, snap>>
    PROVE  Promised'
<1>1. UNCHANGED <<claimedBy, digested, status, payload, sources, mailed, omitted>>
  BY DEF messages, digest, lease, job, past
<1>2. \A v \in Workers :
        \/ pc'[v] = pc[v] /\ hold'[v] = hold[v] /\ rows'[v] = rows[v]
        \/ pc'[v] \in {"idle", "next"}
  BY DEF Leave, Goto, Kept, Typed, LocalTyped
<1> QED
  BY <1>1, <1>2, QuietKeeps

LEMMA ClaimRowsKeepsPromise ==
    ASSUME Kept, NEW p \in Pipelines, ClaimRows(p)
    PROVE  Promised'
<1> DEFINE mine == rows[p] \cap {m \in Messages : Free(m)}
<1>0. /\ UNCHANGED <<snap, mailed, omitted>>
      /\ \/ Leave(p) /\ UNCHANGED <<messages, digest, past>>
         \/ \E d \in Digests :
             /\ mine # {} /\ status[d] = "none"
             /\ status' = Set(status, d, "building")
             /\ sources' = Set(sources, d, ChatsOf(mine))
             /\ claimedBy' = [m \in Messages |-> IF m \in mine THEN d ELSE claimedBy[m]]
             /\ hold' = Set(hold, p, d) /\ Goto(p, "generated") /\ rows' = Set(rows, p, mine)
             /\ UNCHANGED <<digested, payload>>
  <2>1. UNCHANGED <<snap, past>>
    BY DEF ClaimRows, ClaimAmong
  <2> QED
    BY <2>1, Zenon DEF ClaimRows, ClaimAmong, IsNext, past
<1>m. mine \subseteq Messages /\ \A m \in mine : claimedBy[m] = None /\ m \notin digested
  BY DEF Free
<1> HIDE DEF mine
<1>1. CASE Leave(p) /\ UNCHANGED <<messages, digest, past>>
  BY <1>0, <1>1, WorkerFacts, LeaveKeepsPromise
<1>2. ASSUME NEW d \in Digests,
             /\ mine # {} /\ status[d] = "none"
             /\ status' = Set(status, d, "building")
             /\ sources' = Set(sources, d, ChatsOf(mine))
             /\ claimedBy' = [m \in Messages |-> IF m \in mine THEN d ELSE claimedBy[m]]
             /\ hold' = Set(hold, p, d) /\ Goto(p, "generated") /\ rows' = Set(rows, p, mine)
             /\ UNCHANGED <<digested, payload>>
      PROVE  Promised'
  <2> USE DEF Kept, Contents, Typed, LocalTyped, StoredTyped
  <2>1. /\ status'[d] = "building" /\ ~Written(d) /\ ~Written(d)' /\ payload'[d] = {}
        /\ \A x \in Digests \ {d} : status'[x] = status[x] /\ sources'[x] = sources[x]
                                    /\ (Written(x)' <=> Written(x))
    BY <1>2 DEF Set, Written, PayloadIsWritten
  <2>2. /\ pc'[p] = "generated" /\ hold'[p] = d /\ rows'[p] = mine
        /\ \A w \in Workers \ {p} :
             pc'[w] = pc[w] /\ hold'[w] = hold[w] /\ rows'[w] = rows[w] /\ snap'[w] = snap[w]
    BY <1>0, <1>2, WorkerFacts DEF Goto, Set
  <2>3. Claims(d) = {}
    BY <1>2, KeptFacts DEF Live
  <2>4. Claims(d)' = mine /\ \A x \in Digests \ {d} : Claims(x)' = Claims(x)
    BY <1>2, <1>m, <2>3, ConstantsAssumption DEF Claims, ConstantsAssumption
  <2>5. PayloadIsWritten'
    BY <1>2, <2>1 DEF PayloadIsWritten
  <2>6. ClaimsAreCovered'
    <3>1. \A m \in digested' : claimedBy'[m] = None
      BY <1>2, <1>m DEF ClaimsAreCovered
    <3>2. \A x \in Digests : Written(x)' /\ Claims(x)' # {} =>
            payload'[x] # {} /\ Claims(x)' \subseteq payload'[x] \cup omitted'
      <4> SUFFICES ASSUME NEW x \in Digests, Written(x)', Claims(x)' # {}
                   PROVE  payload'[x] # {} /\ Claims(x)' \subseteq payload'[x] \cup omitted'
        OBVIOUS
      <4>1. x # d /\ Written(x) /\ Claims(x)' = Claims(x)
        BY <2>1, <2>4
      <4>2. UNCHANGED <<payload, omitted>> /\ ClaimsAreCovered
        BY <1>0, <1>2
      <4> QED
        BY <4>1, <4>2, Zenon DEF ClaimsAreCovered
    <3> QED
      BY <3>1, <3>2 DEF ClaimsAreCovered
  <2>7. RowsAreClaimed'
    <3> SUFFICES ASSUME NEW q \in Pipelines, pc'[q] = "generated"
                 PROVE  /\ rows'[q] # {} /\ status'[hold'[q]] # "none"
                        /\ status'[hold'[q]] = "building" =>
                               rows'[q] \subseteq {m \in Messages : claimedBy'[m] = hold'[q]}
      BY DEF RowsAreClaimed, Claims
    <3>1. CASE q = p
      BY <1>2, <2>1, <2>2, <2>4, <3>1 DEF Claims
    <3>2. CASE q # p
      <4>1. pc[q] = "generated" /\ hold'[q] = hold[q] /\ rows'[q] = rows[q] /\ hold[q] \in Digests
        BY <2>2, <3>2, WorkerFacts DEF Shape
      <4>2. rows[q] # {} /\ status[hold[q]] # "none" /\ (status[hold[q]] = "building" => rows[q] \subseteq Claims(hold[q]))
        BY <4>1 DEF RowsAreClaimed
      <4>3. CASE hold[q] = d
        BY <1>2, <2>3, <4>1, <4>2, <4>3
      <4>4. CASE hold[q] # d
        BY <2>1, <2>4, <4>1, <4>2, <4>4 DEF Claims
      <4> QED
        BY <4>3, <4>4
    <3> QED
      BY <3>1, <3>2
  <2>8. SourcesAreKnown'
    BY <1>2, <2>1 DEF SourcesAreKnown, ChatsOf
  <2>9. MailIsPayload'
    <3> SUFFICES ASSUME NEW w \in Workers
                 PROVE  /\ \A x \in Digests : Holds(w, x)' => Written(x)'
                        /\ Mailing(w)' => payload'[hold'[w]] \in {rows'[w], {}}
                        /\ pc'[w] = "accepted" => \A m \in rows'[w] : mailed'[m] > 0
      BY DEF MailIsPayload
    <3>1. CASE w = p
      BY <2>2, <3>1 DEF Holds, Mailing
    <3>2. CASE w # p
      <4>1. /\ \A x \in Digests : Holds(w, x)' <=> Holds(w, x)
            /\ Mailing(w)' <=> Mailing(w)
            /\ pc'[w] = pc[w] /\ hold'[w] = hold[w] /\ rows'[w] = rows[w]
        BY <2>2, <3>2 DEF Holds, Mailing
      <4>2. /\ \A x \in Digests : Holds(w, x) => Written(x)
            /\ Mailing(w) => payload[hold[w]] \in {rows[w], {}}
            /\ pc[w] = "accepted" => \A m \in rows[w] : mailed[m] > 0
        BY DEF MailIsPayload
      <4>3. payload' = payload /\ mailed' = mailed
        BY <1>0, <1>2
      <4>4. ASSUME NEW x \in Digests, Holds(w, x)' PROVE Written(x)'
        <5>1. Written(x) /\ x # d
          BY <2>1, <4>1, <4>2, <4>4
        <5> QED
          BY <2>1, <5>1
      <4> QED
        BY <4>1, <4>2, <4>3, <4>4
    <3> QED
      BY <3>1, <3>2
  <2>10. RetryIsSafe' /\ RetryRespectsIgnored'
    <3>1. pc[Retrier] = "claimed" => hold[Retrier] \in Digests \ {d}
      BY <2>1, WorkerFacts DEF MailIsPayload, Holds, Shape
    <3> QED
      BY <2>1, <2>2, <3>1, WorkerFacts DEF RetryIsSafe, RetryRespectsIgnored
  <2>11. DigestedWasMailed'
    BY <1>0, <1>2 DEF DigestedWasMailed
  <2> QED
    BY <2>5, <2>6, <2>7, <2>8, <2>9, <2>10, <2>11 DEF Promised
<1> QED
  BY <1>0, <1>1, <1>2

LEMMA PersistKeepsPromise ==
    ASSUME Kept, NEW p \in Pipelines, Persist(p)
    PROVE  Promised'
<1> USE DEF Kept, Contents, Typed, LocalTyped, StoredTyped
<1>1. /\ UNCHANGED <<claimedBy, digested, hold, rows, snap, mailed>>
      /\ pc'[p] = "deliver" /\ \A w \in Workers \ {p} : pc'[w] = pc[w]
  BY WorkerFacts DEF Persist, Goto, messages
<1>2. CASE status[hold[p]] # "building"
  <2>1. UNCHANGED <<status, payload, sources, omitted>>
    BY <1>2 DEF Persist
  <2> QED
    BY <1>1, <2>1, QuietKeeps
<1>3. ASSUME NEW d \in Digests, d = hold[p], status[d] = "building" PROVE Promised'
  <2>1. /\ status' = Set(status, d, "pending") /\ payload' = Set(payload, d, rows[p])
        /\ sources' = Set(sources, d, ChatsOf(Claims(d)))
        /\ omitted' = omitted \cup (Claims(d) \ rows[p])
    BY <1>3 DEF Persist
  <2>2. d \in Digests /\ rows[p] # {} /\ rows[p] \subseteq Claims(d)
    BY <1>3, WorkerFacts DEF Persist, Shape, RowsAreClaimed
  <2>3. status[d] = "building"
    BY <1>3
  <2>4. /\ status'[d] = "pending" /\ ~Written(d) /\ Written(d)' /\ payload'[d] = rows[p]
        /\ sources'[d] = ChatsOf(Claims(d))
        /\ \A x \in Digests \ {d} :
             /\ status'[x] = status[x] /\ payload'[x] = payload[x] /\ sources'[x] = sources[x]
             /\ (Written(x)' <=> Written(x))
    BY <2>1, <2>2, <2>3 DEF Set, Written
  <2>5. \A x : Claims(x)' = Claims(x)
    BY <1>1 DEF Claims
  <2>6. PayloadIsWritten'
    BY <2>4 DEF PayloadIsWritten
  <2>7. ClaimsAreCovered'
    BY <1>1, <2>1, <2>2, <2>4, <2>5 DEF ClaimsAreCovered
  <2>8. RowsAreClaimed'
    <3> SUFFICES ASSUME NEW q \in Pipelines, pc'[q] = "generated"
                 PROVE  /\ rows[q] # {} /\ status'[hold[q]] # "none"
                        /\ status'[hold[q]] = "building" => rows[q] \subseteq Claims(hold[q])
      BY <1>1, <2>5 DEF RowsAreClaimed
    <3>1. pc[q] = "generated" /\ hold[q] \in Digests
      BY <1>1, WorkerFacts DEF Shape
    <3> QED
      BY <2>4, <3>1 DEF RowsAreClaimed
  <2>9. SourcesAreKnown'
    BY <2>2, <2>4 DEF SourcesAreKnown, ChatsOf
  <2>10. MailIsPayload'
    <3> SUFFICES ASSUME NEW w \in Workers
                 PROVE  /\ \A x \in Digests : Holds(w, x)' => Written(x)'
                        /\ Mailing(w)' => payload'[hold[w]] \in {rows[w], {}}
                        /\ pc'[w] = "accepted" => \A m \in rows[w] : mailed[m] > 0
      BY <1>1 DEF MailIsPayload
    <3>1. \A x \in Digests : Holds(w, x)' => Holds(w, x)
      BY <1>1 DEF Holds
    <3>2. Mailing(w)' => Mailing(w) /\ hold[w] \in Digests /\ Holds(w, hold[w])
      BY <1>1 DEF Mailing, Shape, Holds
    <3>3. Mailing(w)' => hold[w] # d
      BY <2>4, <3>2 DEF MailIsPayload
    <3> QED
      BY <1>1, <2>4, <3>1, <3>2, <3>3 DEF MailIsPayload
  <2>11. RetryIsSafe' /\ RetryRespectsIgnored'
    <3>1. pc[Retrier] = "claimed" => hold[Retrier] \in Digests \ {d}
      BY <2>4, WorkerFacts DEF MailIsPayload, Holds, Shape
    <3> QED
      BY <1>1, <2>4, <3>1, WorkerFacts DEF RetryIsSafe, RetryRespectsIgnored
  <2>12. DigestedWasMailed'
    BY <1>1, <2>1 DEF DigestedWasMailed
  <2> QED
    BY <2>6, <2>7, <2>8, <2>9, <2>10, <2>11, <2>12 DEF Promised
<1>4. hold[p] \in Digests
  BY WorkerFacts DEF Persist, Shape
<1> QED
  BY <1>2, <1>3, <1>4

\* The retry claims only what has nothing of the chats it saw ignored.
LEMMA ClaimKeepsPromise ==
    ASSUME Kept, NEW w \in Workers, NEW d \in Digests, Claimable(w, d), Claim(w, d),
           UNCHANGED snap, w = Retrier => sources[d] \cap snap[w] = {}
    PROVE  Promised'
<1> USE DEF Kept, Contents, Typed, LocalTyped, StoredTyped
<1>1. /\ UNCHANGED <<claimedBy, digested, payload, sources, mailed, omitted, rows, snap>>
      /\ pc'[w] = "claimed" /\ hold'[w] = d
      /\ \A v \in Workers \ {w} : pc'[v] = pc[v] /\ hold'[v] = hold[v]
      /\ status'[d] = "sending" /\ \A x \in Digests \ {d} : status'[x] = status[x]
  BY DEF Claim, Goto, Set, messages, job, past
<1>2. \A x \in Digests : Written(x)' <=> Written(x)
  BY <1>1 DEF Written, Claimable
<1>3. Written(d)'
  BY <1>1 DEF Written
<1>4. \A x : Claims(x)' = Claims(x)
  BY <1>1 DEF Claims
<1>5. PayloadIsWritten' /\ ClaimsAreCovered' /\ SourcesAreKnown' /\ DigestedWasMailed'
  BY <1>1, <1>2, <1>4
  DEF PayloadIsWritten, ClaimsAreCovered, SourcesAreKnown, DigestedWasMailed
<1>6. RowsAreClaimed'
  <2> SUFFICES ASSUME NEW p \in Pipelines, pc'[p] = "generated"
               PROVE  /\ rows[p] # {} /\ status'[hold'[p]] # "none"
                      /\ status'[hold'[p]] = "building" => rows[p] \subseteq Claims(hold'[p])
    BY <1>1, <1>4 DEF RowsAreClaimed
  <2>1. pc[p] = "generated" /\ hold'[p] = hold[p] /\ hold[p] \in Digests
    BY <1>1, WorkerFacts DEF Shape
  <2> QED
    BY <1>1, <2>1 DEF RowsAreClaimed
<1>7. MailIsPayload'
  BY <1>1, <1>2, <1>3 DEF MailIsPayload, Holds, Mailing
<1>8. RetryIsSafe' /\ RetryRespectsIgnored'
  BY <1>1, WorkerFacts DEF RetryIsSafe, RetryRespectsIgnored
<1> QED
  BY <1>5, <1>6, <1>7, <1>8 DEF Promised

LEMMA DeliverKeepsPromise ==
    ASSUME Kept, NEW p \in Pipelines, Deliver(p)
    PROVE  Promised'
<1>1. hold[p] \in Digests /\ UNCHANGED snap
  BY WorkerFacts DEF Deliver, Kept, Typed, Shape
<1> QED
  BY <1>1, WorkerFacts, ClaimKeepsPromise, LeaveKeepsPromise DEF Deliver

LEMMA SweepKeepsPromise ==
    ASSUME Kept, NEW w \in Sweepers,
           StartSweep(w) \/ Select(w) \/ Sweep(w) \/ EndSweep(w)
    PROVE  Promised'
<1> USE DEF Kept, Typed, LocalTyped, StoredTyped
<1>0. w \in Workers
  BY DEF Workers
<1>1. CASE StartSweep(w) \/ Select(w) \/ EndSweep(w)
  <2>1. UNCHANGED <<claimedBy, digested, payload, sources, mailed, omitted, hold, rows>>
    BY <1>1 DEF StartSweep, Select, EndSweep, messages, digest, lease, job, past
  <2>2. \A d \in Digests : status'[d] = status[d] \/ (Written(d) /\ Written(d)')
    BY <1>1 DEF StartSweep, Select, EndSweep, Stale, Written, digest, lease
  <2>3. pc'[w] \in {"select", "next", "idle"}
    BY <1>0, <1>1 DEF StartSweep, Select, EndSweep, Goto
  <2>4. \A v \in Workers \ {w} : pc'[v] = pc[v] /\ snap'[v] = snap[v]
    BY <1>0, <1>1 DEF StartSweep, Start, Select, EndSweep, Goto, Set
  <2> QED
    BY <2>1, <2>2, <2>3, <2>4, QuietKeeps
<1>2. CASE Sweep(w)
  <2>1. PICK d \in queue[w] :
          \/ Cancel(d) /\ UNCHANGED <<pc, hold, rows>>
          \/ RetrySafe(w, d) /\ Claimable(w, d) /\ Claim(w, d)
          \/ UNCHANGED <<messages, digest, pc, hold, rows, past>>
    BY <1>2 DEF Sweep
  <2>2. d \in Digests /\ UNCHANGED snap
    BY <1>0, <1>2 DEF Sweep
  <2>3. CASE Cancel(d) /\ UNCHANGED <<pc, hold, rows>>
    BY <2>2, <2>3, WithdrawKeepsPromise
  <2>4. CASE RetrySafe(w, d) /\ Claimable(w, d) /\ Claim(w, d)
    BY <1>0, <2>2, <2>4, ClaimKeepsPromise DEF RetrySafe
  <2>5. CASE UNCHANGED <<messages, digest, pc, hold, rows, past>>
    BY <2>2, <2>5, QuietKeeps DEF messages, digest, lease, job, past
  <2> QED
    BY <2>1, <2>3, <2>4, <2>5
<1> QED
  BY <1>1, <1>2

\* The mail begun is the payload: a digest that is being sent has one.
LEMMA BeginSendKeepsPromise ==
    ASSUME Kept, NEW w \in Workers, BeginSend(w)
    PROVE  Promised'
<1> USE DEF Kept, Contents, Typed, LocalTyped, StoredTyped
<1>0. hold[w] \in Digests /\ UNCHANGED snap
  BY DEF BeginSend, Shape
<1>1. CASE Leave(w) /\ UNCHANGED <<messages, digest, past>>
  BY <1>0, <1>1, LeaveKeepsPromise
<1>2. CASE Cancel(hold[w]) /\ Leave(w)
  <2>1. \A v \in Workers : pc'[v] \in {"generated", "claimed", "sending", "accepted", "failed"} =>
          pc'[v] = pc[v] /\ hold'[v] = hold[v] /\ rows'[v] = rows[v]
    BY <1>2 DEF Leave, Goto
  <2> QED
    BY <1>0, <1>2, <2>1, WithdrawKeepsPromise
<1>3. CASE /\ Goto(w, "sending") /\ rows' = Set(rows, w, payload[hold[w]])
           /\ UNCHANGED <<messages, digest, hold, mailed, omitted, doubt>>
  <2>1. UNCHANGED <<claimedBy, digested, status, payload, sources, mailed, omitted, hold, snap>>
    BY <1>0, <1>3 DEF messages, digest, lease, job
  <2>2. /\ pc[w] = "claimed" /\ pc'[w] = "sending" /\ rows'[w] = payload[hold[w]]
        /\ \A v \in Workers \ {w} : pc'[v] = pc[v] /\ rows'[v] = rows[v]
    BY <1>0, <1>3 DEF BeginSend, Goto, Set
  <2>3. \A d : Claims(d)' = Claims(d) /\ (Written(d)' <=> Written(d))
    BY <2>1 DEF Claims, Written
  <2>4. PayloadIsWritten' /\ ClaimsAreCovered' /\ SourcesAreKnown' /\ DigestedWasMailed'
    BY <2>1, <2>3 DEF PayloadIsWritten, ClaimsAreCovered, SourcesAreKnown, DigestedWasMailed
  <2>5. RowsAreClaimed'
    BY <2>1, <2>2, <2>3, WorkerFacts DEF RowsAreClaimed
  <2>6. MailIsPayload'
    BY <2>1, <2>2, <2>3 DEF MailIsPayload, Holds, Mailing
  <2>7. RetryIsSafe'
    BY <2>1, <2>2, WorkerFacts DEF RetryIsSafe
  <2>8. RetryRespectsIgnored'
    <3>1. CASE w = Retrier
      <4>1. sources[hold[w]] \cap snap[w] = {}
        BY <2>2, <3>1 DEF RetryIsSafe
      <4>2. ChatsOf(payload[hold[w]]) \subseteq sources[hold[w]]
        BY <1>0 DEF SourcesAreKnown
      <4>3. ChatsOf(rows'[Retrier]) \cap snap'[Retrier] = {}
        BY <2>1, <2>2, <3>1, <4>1, <4>2
      <4> QED
        BY <4>3 DEF RetryRespectsIgnored, ChatsOf
    <3>2. CASE w # Retrier
      BY <2>1, <2>2, <3>2, WorkerFacts DEF RetryRespectsIgnored
    <3> QED
      BY <3>1, <3>2
  <2> QED
    BY <2>4, <2>5, <2>6, <2>7, <2>8 DEF Promised
<1> QED
  BY <1>1, <1>2, <1>3 DEF BeginSend

\* What is digested was in the mail that was accepted, or was left out.
LEMMA FinalizeKeepsPromise ==
    ASSUME Kept, NEW w \in Workers, Finalize(w)
    PROVE  Promised'
<1> USE DEF Kept, Contents, Typed, LocalTyped, StoredTyped
<1>1. /\ UNCHANGED <<payload, sources, mailed, omitted, snap>>
      /\ status' = Set(status, hold[w], "sent") /\ claimedBy' = Released(hold[w])
      /\ digested' = digested \cup Claims(hold[w]) /\ pc[w] = "accepted" /\ Leave(w)
  BY DEF Finalize, Done, past
<1>d. PICK d \in Digests : d = hold[w]
  BY <1>1 DEF Shape
<1>2. Written(hold[w]) /\ payload[hold[w]] \in {rows[w], {}}
  BY <1>1, <1>d DEF MailIsPayload, Holds, Mailing
<1>3. /\ Written(d)' /\ status'[d] = "sent"
      /\ \A x \in Digests \ {d} : status'[x] = status[x] /\ (Written(x)' <=> Written(x))
  <2>1. status' = [status EXCEPT ![d] = "sent"]
    BY <1>1, <1>d DEF Set
  <2>2. status'[d] = "sent" /\ \A x \in Digests \ {d} : status'[x] = status[x]
    BY <2>1
  <2> QED
    BY <2>2 DEF Written
<1>4. Claims(hold[w]) \subseteq rows[w] \cup omitted
  BY <1>d, <1>2 DEF ClaimsAreCovered
<1>5. {m \in Messages : claimedBy'[m] = hold[w]} = {}
      /\ \A x \in Digests \ {hold[w]} : Claims(x)' = Claims(x)
  BY <1>1, <1>d, ConstantsAssumption DEF Released, Claims, ConstantsAssumption
<1>6. /\ pc'[w] \in {"idle", "next"}
      /\ \A v \in Workers \ {w} : pc'[v] = pc[v] /\ hold'[v] = hold[v] /\ rows'[v] = rows[v]
  BY <1>1 DEF Leave, Goto
<1>7. DigestedWasMailed'
  BY <1>1, <1>4 DEF DigestedWasMailed, MailIsPayload, Claims
<1>8. PayloadIsWritten' /\ SourcesAreKnown'
  <2>1. ASSUME NEW x \in Digests, ~Written(x)' PROVE payload'[x] = {}
    <3>1. x # d /\ ~Written(x)
      BY <1>3, <2>1
    <3> QED
      BY <1>1, <3>1 DEF PayloadIsWritten
  <2>2. SourcesAreKnown'
    BY <1>1 DEF SourcesAreKnown
  <2> QED
    BY <2>1, <2>2 DEF PayloadIsWritten
<1>9. ClaimsAreCovered'
  <2>1. \A m \in digested' : claimedBy'[m] = None
    BY <1>1 DEF ClaimsAreCovered, Claims, Released
  <2>2. ASSUME NEW x \in Digests, Written(x)', Claims(x)' # {}
        PROVE  payload'[x] # {} /\ Claims(x)' \subseteq payload'[x] \cup omitted'
    <3>1. x # hold[w]
      BY <1>5, <2>2 DEF Claims
    <3> QED
      <4>1. Written(x) /\ Claims(x)' = Claims(x) /\ UNCHANGED <<payload, omitted>>
        BY <1>1, <1>d, <1>3, <1>5, <2>2, <3>1
      <4>2. Claims(x) # {}
        BY <2>2, <4>1
      <4> QED
        BY <4>1, <4>2, Zenon DEF ClaimsAreCovered
  <2> QED
    BY <2>1, <2>2 DEF ClaimsAreCovered
<1>10. RowsAreClaimed'
  <2> SUFFICES ASSUME NEW p \in Pipelines, pc'[p] = "generated"
               PROVE  /\ rows'[p] # {} /\ status'[hold'[p]] # "none"
                      /\ status'[hold'[p]] = "building" =>
                             rows'[p] \subseteq {m \in Messages : claimedBy'[m] = hold'[p]}
    BY DEF RowsAreClaimed, Claims
  <2>1. pc[p] = "generated" /\ hold'[p] = hold[p] /\ rows'[p] = rows[p] /\ hold[p] \in Digests
    BY <1>6, WorkerFacts DEF Shape
  <2> QED
    <3>1. rows[p] # {} /\ status[hold[p]] # "none"
          /\ (status[hold[p]] = "building" => rows[p] \subseteq Claims(hold[p]))
      BY <2>1 DEF RowsAreClaimed
    <3>2. CASE hold[p] = hold[w]
      BY <1>d, <1>3, <2>1, <3>1, <3>2
    <3>3. CASE hold[p] # hold[w]
      <4>1. status'[hold[p]] = status[hold[p]]
        BY <1>d, <1>3, <2>1, <3>3
      <4>2. Claims(hold[p]) = {m \in Messages : claimedBy'[m] = hold[p]}
        BY <1>5, <2>1, <3>3 DEF Claims
      <4> QED
        BY <2>1, <3>1, <4>1, <4>2
    <3> QED
      BY <3>2, <3>3
<1>11. MailIsPayload'
  <2> SUFFICES ASSUME NEW v \in Workers
               PROVE  /\ \A x \in Digests : Holds(v, x)' => Written(x)'
                      /\ Mailing(v)' => payload'[hold'[v]] \in {rows'[v], {}}
                      /\ pc'[v] = "accepted" => \A m \in rows'[v] : mailed'[m] > 0
    BY DEF MailIsPayload
  <2>1. CASE v = w
    BY <1>6, <2>1 DEF Holds, Mailing
  <2>2. CASE v # w
    <3>1. pc'[v] = pc[v] /\ hold'[v] = hold[v] /\ rows'[v] = rows[v] /\ UNCHANGED <<payload, mailed>>
      BY <1>1, <1>6, <2>2
    <3>2. \A x \in Digests : Written(x) => Written(x)'
      BY <1>2, <1>d, <1>3
    <3> QED
      BY <3>1, <3>2 DEF MailIsPayload, Holds, Mailing
  <2> QED
    BY <2>1, <2>2
<1>12. RetryIsSafe' /\ RetryRespectsIgnored'
  BY <1>1, <1>6, WorkerFacts DEF RetryIsSafe, RetryRespectsIgnored
<1> QED
  BY <1>7, <1>8, <1>9, <1>10, <1>11, <1>12 DEF Promised

LEMMA SendKeepsPromise ==
    ASSUME Kept, NEW w \in Workers, Send(w)
    PROVE  Promised'
<1> USE DEF Kept, Typed, LocalTyped, StoredTyped
<1>1. CASE BeginSend(w)
  BY <1>1, BeginSendKeepsPromise
<1>2. CASE Accept(w)
  <2>1. UNCHANGED <<claimedBy, digested, status, payload, sources, omitted, hold, rows, snap>>
    BY <1>2 DEF Accept, messages, digest, lease, job
  <2>2. /\ \A m \in Messages : mailed[m] > 0 => mailed'[m] > 0
        /\ \A m \in rows[w] : mailed'[m] > 0
    <3>1. mailed' = [m \in Messages |->
                       IF m \in rows[w] THEN Smaller(mailed[m] + 1, 2) ELSE mailed[m]]
      BY <1>2 DEF Accept
    <3>2. \A m \in Messages : mailed[m] \in 0..2 /\ Smaller(mailed[m] + 1, 2) > 0
      BY DEF Smaller
    <3>3. rows[w] \subseteq Messages
      OBVIOUS
    <3> QED
      BY <3>1, <3>2, <3>3
  <2>3. /\ pc[w] = "sending" /\ pc'[w] = "accepted"
        /\ \A v \in Workers \ {w} : pc'[v] = pc[v]
    BY <1>2 DEF Accept, Goto
  <2>4. \A d : Claims(d)' = Claims(d) /\ (Written(d)' <=> Written(d))
    BY <2>1 DEF Claims, Written
  <2> USE DEF Contents
  <2>5. PayloadIsWritten' /\ ClaimsAreCovered' /\ SourcesAreKnown'
    BY <2>1, <2>4 DEF PayloadIsWritten, ClaimsAreCovered, SourcesAreKnown
  <2>6. RowsAreClaimed'
    BY <2>1, <2>3, <2>4, WorkerFacts DEF RowsAreClaimed
  <2>7. MailIsPayload'
    BY <2>1, <2>2, <2>3, <2>4 DEF MailIsPayload, Holds, Mailing
  <2>8. RetryIsSafe' /\ RetryRespectsIgnored'
    BY <2>1, <2>3, WorkerFacts DEF RetryIsSafe, RetryRespectsIgnored
  <2>9. DigestedWasMailed'
    BY <2>1, <2>2 DEF DigestedWasMailed
  <2> QED
    BY <2>5, <2>6, <2>7, <2>8, <2>9 DEF Promised
<1>3. CASE Raise(w)
  <2>1. UNCHANGED <<claimedBy, digested, status, payload, sources, mailed, omitted, hold, rows,
                    snap>>
    BY <1>3 DEF Raise, messages, digest, lease, job
  <2>2. Mailing(w) /\ pc'[w] = "failed" /\ \A v \in Workers \ {w} : pc'[v] = pc[v]
    BY <1>3 DEF Raise, Goto
  <2> QED
    BY <2>1, <2>2, QuietKeeps DEF Mailing
<1>4. CASE Finalize(w)
  BY <1>4, FinalizeKeepsPromise
<1>5. CASE MarkPending(w)
  <2>1. /\ UNCHANGED <<claimedBy, digested, payload, sources, mailed, omitted, snap>>
        /\ status' = Set(status, hold[w], "pending") /\ pc[w] = "failed" /\ Leave(w)
    BY <1>5 DEF MarkPending, messages, past
  <2>2. hold[w] \in Digests /\ Written(hold[w])
    BY <2>1 DEF Shape, Holds, Contents, MailIsPayload
  <2>3. \A d \in Digests : status'[d] = status[d] \/ (Written(d) /\ Written(d)')
    BY <2>1, <2>2 DEF Set, Written
  <2>4. \A v \in Workers :
          \/ pc'[v] = pc[v] /\ hold'[v] = hold[v] /\ rows'[v] = rows[v]
          \/ pc'[v] \in {"idle", "next"}
    BY <2>1 DEF Leave, Goto
  <2> QED
    BY <2>1, <2>3, <2>4, QuietKeeps
<1> QED
  BY <1>1, <1>2, <1>3, <1>4, <1>5 DEF Send

LEMMA KeptKeeps == Kept /\ [Next]_vars => Kept'
<1> SUFFICES ASSUME Kept, [Next]_vars PROVE Kept'
  OBVIOUS
<1>1. Typed' /\ ClaimedIsLive'
  <2>1. Sound
    BY DEF Kept, Sound, ClaimsTyped, Typed, StoredTyped
  <2> QED
    BY <2>1, TypedKeeps, StepKeeps DEF Kept, Sound
<1>2. ASSUME NEW p \in Pipelines, Pipeline(p) PROVE Promised'
  BY <1>2, BeginKeepsPromise, CheckKeepsPromise, ClaimRowsKeepsPromise, PersistKeepsPromise,
     DeliverKeepsPromise DEF Pipeline
<1>3. Promised'
  BY <1>2, WorldKeepsPromise, SweepKeepsPromise, SendKeepsPromise DEF Next
<1> QED
  BY <1>1, <1>3 DEF Kept, Promised

LEMMA KeptInit == Init => Kept
<1> SUFFICES ASSUME Init PROVE Kept
  OBVIOUS
<1>1. Typed
  BY TypedInit
<1>2. Contents
  BY WorkerFacts, ConstantsAssumption
  DEF Init, Contents, PayloadIsWritten, ClaimsAreCovered, RowsAreClaimed, SourcesAreKnown,
      MailIsPayload, RetryIsSafe, Written, Holds, Mailing, ChatsOf, Claims, ConstantsAssumption
<1>3. ClaimedIsLive /\ DigestedWasMailed /\ RetryRespectsIgnored
  BY WorkerFacts DEF Init, ClaimedIsLive, DigestedWasMailed, RetryRespectsIgnored
<1> QED
  BY <1>1, <1>2, <1>3 DEF Kept

LEMMA AlwaysKept == Spec => []Kept
  BY KeptInit, KeptKeeps, PTL DEF Spec

\* Nothing is marked as digested that was not mailed, but for what was ignored when its
\* digest was built again, however long the deliveries take and whoever writes over
\* whose row (finalize_digest_sent).
THEOREM DigestedOnlyIfMailed == Spec => []DigestedWasMailed
<1>1. Kept => DigestedWasMailed
  BY DEF Kept
<1> QED
  BY <1>1, AlwaysKept, PTL

\* A retry mails nothing of a chat that was ignored when it began, although it compares
\* the sources of the digest and mails its payload (_digest_retry_is_safe).
THEOREM RetryMailsNothingIgnored == Spec => []RetryRespectsIgnored
<1>1. Kept => RetryRespectsIgnored
  BY DEF Kept
<1> QED
  BY <1>1, AlwaysKept, PTL

------------------------------------------------------------------------------
\* The outbox.
Whole == Kept /\ Leased /\ OutboxInv

\* No row is withdrawn or written, and who mails goes on with it or stops.
LEMMA QuietKeepsOutbox ==
    ASSUME Whole, UNCHANGED <<claimedBy, payload, carried, doubt>>,
           \A d \in Digests : /\ status'[d] \in Live => status[d] \in Live
                              /\ Written(d) => Written(d)',
           \A w \in Workers : Mailing(w)' =>
             /\ Mailing(w) /\ hold'[w] = hold[w] /\ rows'[w] = rows[w]
             /\ \/ status'[hold[w]] = status[hold[w]] /\ owner'[hold[w]] = owner[hold[w]]
                \/ ~Owned(w, hold[w]) /\ status'[hold[w]] # "sending"
    PROVE  OutboxInv'
<1> USE DEF Whole, OutboxInv
<1>1. PayloadIsClaimed'
  BY DEF PayloadIsClaimed, Claims
<1>2. \A d \in Digests : carried'[d] # {} => Written(d)' /\ payload'[d] \in {carried'[d], {}}
  BY DEF CarriedIsPayload
<1>3. \A d \in doubt' : Written(d)' /\ payload'[d] \subseteq carried'[d]
  BY DEF CarriedIsPayload, Kept, Typed, StoredTyped
<1>4. \A w \in Workers : Mailing(w)' =>
           /\ rows'[w] = carried'[hold'[w]]
           /\ IF Owned(w, hold[w])' THEN payload'[hold'[w]] = rows'[w]
                      ELSE hold'[w] \in doubt'
  BY DEF CarriedIsPayload, Owned
<1> QED
  BY <1>1, <1>2, <1>3, <1>4 DEF CarriedIsPayload

\* Workers leave, or stay where they are.
LEMMA LeaveKeepsOutbox ==
    ASSUME Whole, UNCHANGED <<claimedBy, payload, carried, doubt, status, owner>>,
           \A w \in Workers : pc'[w] \in {"sending", "accepted"} =>
             pc[w] \in {"sending", "accepted"} /\ hold'[w] = hold[w] /\ rows'[w] = rows[w]
    PROVE  OutboxInv'
<1>1. \A d \in Digests : Written(d) => Written(d)'
  BY DEF Written
<1>2. \A w \in Workers : Mailing(w)' => Mailing(w) /\ hold'[w] = hold[w] /\ rows'[w] = rows[w]
  BY DEF Mailing
<1> QED
  BY <1>1, <1>2, QuietKeepsOutbox

\* A mail whose outcome is lost leaves its digest in doubt.
LEMMA LoseKeepsOutbox ==
    ASSUME Whole, NEW w \in Workers, Mailing(w), ~Mailing(w)', doubt' = doubt \cup {hold[w]},
           UNCHANGED <<claimedBy, payload, carried, status, owner>>,
           \A v \in Workers \ {w} : pc'[v] = pc[v] /\ hold'[v] = hold[v] /\ rows'[v] = rows[v]
    PROVE  OutboxInv'
<1> USE DEF Whole, OutboxInv
<1>0. hold[w] \in Digests /\ Written(hold[w]) /\ payload[hold[w]] \subseteq carried[hold[w]]
  BY DEF Leased, Shape, Mailing, Kept, Contents, MailIsPayload, Holds, CarriedIsPayload
<1>1. PayloadIsClaimed'
  BY DEF PayloadIsClaimed, Claims
<1>2. \A d \in Digests : Written(d) <=> Written(d)'
  BY DEF Written
<1>3. \A d \in doubt' : Written(d)' /\ payload'[d] \subseteq carried'[d]
  BY <1>0, <1>2 DEF CarriedIsPayload, Kept, Typed, StoredTyped
<1>4. \A v \in Workers : Mailing(v)' =>
           /\ rows'[v] = carried'[hold'[v]]
           /\ IF Owned(v, hold[v])' THEN payload'[hold'[v]] = rows'[v]
                      ELSE hold'[v] \in doubt'
  BY DEF CarriedIsPayload, Owned, Mailing
<1>5. \A d \in Digests : carried'[d] # {} => Written(d)' /\ payload'[d] \in {carried'[d], {}}
  BY <1>2 DEF CarriedIsPayload
<1> QED
  BY <1>1, <1>3, <1>4, <1>5 DEF CarriedIsPayload

\* Whoever mails a digest that is withdrawn leaves it in doubt.
LEMMA WithdrawKeepsOutbox ==
    ASSUME Whole, NEW d \in Digests, Cancel(d),
           \A w \in Workers : pc'[w] \in {"sending", "accepted"} =>
             pc'[w] = pc[w] /\ hold'[w] = hold[w] /\ rows'[w] = rows[w]
    PROVE  OutboxInv'
<1> USE DEF Whole, OutboxInv
<1>1. /\ status' = [status EXCEPT ![d] = "cancelled"] /\ payload' = [payload EXCEPT ![d] = {}]
      /\ owner' = [owner EXCEPT ![d] = None]
      /\ UNCHANGED carried /\ claimedBy' = Released(d)
      /\ doubt' = IF \E w \in Workers : Mailing(w) /\ hold[w] = d
                  THEN doubt \cup {d} ELSE doubt
  BY DEF Cancel, Withdraw, Set
<1>2. /\ status'[d] = "cancelled" /\ payload'[d] = {} /\ Written(d)'
      /\ \A x \in Digests \ {d} : status'[x] = status[x] /\ payload'[x] = payload[x]
                                  /\ owner'[x] = owner[x] /\ (Written(x)' <=> Written(x))
  BY <1>1 DEF Kept, Typed, StoredTyped, Written
<1>3. \A x \in Digests \ {d} : Claims(x)' = Claims(x)
  BY <1>1, ConstantsAssumption
  DEF Released, Claims, Kept, Typed, StoredTyped, ConstantsAssumption
<1>4. PayloadIsClaimed'
  BY <1>2, <1>3 DEF PayloadIsClaimed, Live
<1>5. \A x \in Digests : carried'[x] # {} => Written(x)' /\ payload'[x] \in {carried'[x], {}}
  BY <1>1, <1>2 DEF CarriedIsPayload
<1>6. \A x \in doubt' : Written(x)' /\ payload'[x] \subseteq carried'[x]
  BY <1>1, <1>2 DEF CarriedIsPayload, Kept, Typed, StoredTyped
<1>7. ASSUME NEW w \in Workers, Mailing(w)'
      PROVE  /\ rows'[w] = carried'[hold'[w]]
             /\ IF Owned(w, hold[w])' THEN payload'[hold'[w]] = rows'[w]
                      ELSE hold'[w] \in doubt'
  <2>1. Mailing(w) /\ hold'[w] = hold[w] /\ rows'[w] = rows[w] /\ hold[w] \in Digests
    BY <1>7 DEF Mailing, Leased, Shape
  <2> QED
    BY <1>1, <1>2, <2>1 DEF CarriedIsPayload, Owned
<1> QED
  BY <1>4, <1>5, <1>6, <1>7 DEF CarriedIsPayload

LEMMA WorldKeepsOutbox ==
    ASSUME Whole,
           \/ \E m \in Messages : Arrive(m)
           \/ \E c \in Chats : EditIgnored(c)
           \/ Tick
           \/ \E w \in Workers : Crash(w)
           \/ UNCHANGED vars
    PROVE  OutboxInv'
<1> USE DEF messages, digest, lease, job, local, past, Goto, Set
<1>1. UNCHANGED <<claimedBy, status, payload, owner, carried>>
  BY DEF Arrive, EditIgnored, Tick, Crash, vars
<1>2. CASE UNCHANGED <<pc, hold, rows, doubt>>
  BY <1>1, <1>2, LeaveKeepsOutbox
<1>3. ASSUME NEW w \in Workers, Crash(w) PROVE OutboxInv'
  <2>1. /\ pc'[w] = "idle"
        /\ \A v \in Workers \ {w} : pc'[v] = pc[v] /\ hold'[v] = hold[v] /\ rows'[v] = rows[v]
    BY <1>3 DEF Crash, Whole, Kept, Typed, LocalTyped
  <2>2. CASE Mailing(w)
    BY <1>1, <1>3, <2>1, <2>2, LoseKeepsOutbox DEF Crash, Mailing
  <2>3. CASE ~Mailing(w)
    BY <1>1, <1>3, <2>1, <2>3, LeaveKeepsOutbox DEF Crash, Mailing
  <2> QED
    BY <2>2, <2>3
<1> QED
  BY <1>2, <1>3 DEF Arrive, EditIgnored, Tick, vars

LEMMA ClaimKeepsOutbox ==
    ASSUME Whole, NEW w \in Workers, NEW d \in Digests, Claimable(w, d), Claim(w, d)
    PROVE  OutboxInv'
<1> USE DEF Whole, Kept, Typed, LocalTyped, StoredTyped
<1>1. /\ UNCHANGED <<claimedBy, payload, carried, doubt, rows>>
      /\ pc'[w] = "claimed" /\ hold'[w] = d
      /\ \A v \in Workers \ {w} : pc'[v] = pc[v] /\ hold'[v] = hold[v]
      /\ status[d] = "pending" /\ status'[d] = "sending"
      /\ \A x \in Digests \ {d} : status'[x] = status[x] /\ owner'[x] = owner[x]
  BY DEF Claim, Claimable, Goto, Set, messages, job, past
<1>2. \A x \in Digests : /\ status'[x] \in Live => status[x] \in Live
                         /\ Written(x) => Written(x)'
  BY <1>1 DEF Written, Live
<1>3. ASSUME NEW v \in Workers, Mailing(v)'
      PROVE  /\ Mailing(v) /\ hold'[v] = hold[v] /\ rows'[v] = rows[v]
             /\ \/ status'[hold[v]] = status[hold[v]] /\ owner'[hold[v]] = owner[hold[v]]
                \/ ~Owned(v, hold[v]) /\ status'[hold[v]] # "sending"
  <2>1. v # w /\ Mailing(v) /\ hold'[v] = hold[v] /\ rows'[v] = rows[v] /\ hold[v] \in Digests
    BY <1>1, <1>3 DEF Mailing, Leased, Shape
  <2>2. hold[v] # d
    BY <1>1, <2>1 DEF Leased, LeaseInv, HoldersOwn, Owned, Holds, Mailing
  <2> QED
    BY <1>1, <2>1, <2>2
<1> QED
  BY <1>1, <1>2, <1>3, QuietKeepsOutbox

LEMMA PipelineKeepsOutbox ==
    ASSUME Whole, NEW p \in Pipelines,
           Begin(p) \/ Check(p) \/ Gather(p) \/ Deliver(p)
    PROVE  OutboxInv'
<1> USE WorkerFacts DEF messages, digest, lease, job, past, Goto, Set
<1>0. pc'[p] \notin {"sending", "accepted"}
      /\ \A w \in Workers \ {p} : pc'[w] = pc[w] /\ hold'[w] = hold[w] /\ rows'[w] = rows[w]
  <2> USE DEF Whole, Kept, Typed, LocalTyped, Leave
  <2>1. CASE Begin(p)
    BY <2>1 DEF Begin
  <2>2. CASE Check(p)
    BY <2>2 DEF Check
  <2>3. CASE Gather(p)
    BY <2>3 DEF Gather
  <2>4. CASE Deliver(p)
    BY <2>4 DEF Deliver, Claim
  <2> QED
    BY <2>1, <2>2, <2>3, <2>4
<1>1. CASE UNCHANGED <<messages, digest, past>>
  BY <1>0, <1>1, LeaveKeepsOutbox
<1>2. CASE Cancel(hold[p]) /\ Check(p)
  <2>1. hold[p] \in Digests
    BY <1>2 DEF Whole, Leased, Shape, Check
  <2> QED
    BY <1>0, <1>2, <2>1, WithdrawKeepsOutbox
<1>3. CASE Claimable(p, hold[p]) /\ Claim(p, hold[p]) /\ Deliver(p)
  <2>1. hold[p] \in Digests
    BY <1>3 DEF Whole, Leased, Shape, Deliver
  <2> QED
    BY <1>3, <2>1, ClaimKeepsOutbox
<1> QED
  BY <1>1, <1>2, <1>3 DEF Begin, Check, Gather, Deliver

\* A row begins without payload or mails.
LEMMA ClaimRowsKeepsOutbox ==
    ASSUME Whole, NEW p \in Pipelines, ClaimRows(p)
    PROVE  OutboxInv'
<1> DEFINE mine == rows[p] \cap {m \in Messages : Free(m)}
<1>0. /\ UNCHANGED <<carried, doubt>>
      /\ \/ Leave(p) /\ UNCHANGED <<messages, digest>>
         \/ \E d \in Digests :
             /\ status[d] = "none"
             /\ status' = Set(status, d, "building")
             /\ claimedBy' = [m \in Messages |-> IF m \in mine THEN d ELSE claimedBy[m]]
             /\ hold' = Set(hold, p, d) /\ Goto(p, "generated") /\ rows' = Set(rows, p, mine)
             /\ UNCHANGED <<payload, owner>>
  <2>1. UNCHANGED past
    BY DEF ClaimRows, ClaimAmong
  <2> QED
    BY <2>1, Zenon DEF ClaimRows, ClaimAmong, IsNext, past
<1>m. \A m \in mine : claimedBy[m] = None
  BY DEF Free
<1> HIDE DEF mine
<1> USE WorkerFacts DEF Whole, Kept, Typed, LocalTyped, StoredTyped, OutboxInv
<1>1. CASE Leave(p) /\ UNCHANGED <<messages, digest>>
  <2>1. \A w \in Workers : pc'[w] \in {"sending", "accepted"} =>
          pc'[w] = pc[w] /\ hold'[w] = hold[w] /\ rows'[w] = rows[w]
    BY <1>1 DEF Leave, Goto
  <2> QED
    BY <1>0, <1>1, <2>1, LeaveKeepsOutbox DEF messages, digest, lease, job
<1>2. ASSUME NEW d \in Digests,
             /\ status[d] = "none"
             /\ status' = Set(status, d, "building")
             /\ claimedBy' = [m \in Messages |-> IF m \in mine THEN d ELSE claimedBy[m]]
             /\ hold' = Set(hold, p, d) /\ Goto(p, "generated") /\ rows' = Set(rows, p, mine)
             /\ UNCHANGED <<payload, owner>>
      PROVE  OutboxInv'
  <2>1. /\ ~Written(d) /\ payload'[d] = {} /\ carried'[d] = {} /\ d \notin doubt'
        /\ \A x \in Digests \ {d} : status'[x] = status[x] /\ (Written(x)' <=> Written(x))
    BY <1>0, <1>2 DEF Set, Written, Contents, PayloadIsWritten, CarriedIsPayload
  <2>2. \A x \in Digests \ {d} : Claims(x)' = Claims(x)
    BY <1>2, <1>m, ConstantsAssumption DEF Claims, ConstantsAssumption
  <2>3. PayloadIsClaimed'
    <3> SUFFICES ASSUME NEW x \in Digests, status'[x] \in Live
                 PROVE  payload'[x] \subseteq Claims(x)'
      BY DEF PayloadIsClaimed
    <3>1. CASE x = d
      BY <2>1, <3>1
    <3>2. CASE x # d
      <4>1. status[x] \in Live /\ payload'[x] = payload[x] /\ Claims(x)' = Claims(x)
        BY <1>2, <2>1, <2>2, <3>2
      <4> QED
        BY <4>1, Zenon DEF PayloadIsClaimed
    <3> QED
      BY <3>1, <3>2
  <2>4. \A x \in Digests : carried'[x] # {} => Written(x)' /\ payload'[x] \in {carried'[x], {}}
    BY <1>0, <1>2, <2>1 DEF CarriedIsPayload
  <2>5. \A x \in doubt' : Written(x)' /\ payload'[x] \subseteq carried'[x]
    BY <1>0, <1>2, <2>1 DEF CarriedIsPayload
  <2>6. ASSUME NEW w \in Workers, Mailing(w)'
        PROVE  /\ rows'[w] = carried'[hold'[w]]
               /\ IF Owned(w, hold[w])' THEN payload'[hold'[w]] = rows'[w]
                      ELSE hold'[w] \in doubt'
    <3>1. w # p /\ Mailing(w) /\ hold'[w] = hold[w] /\ rows'[w] = rows[w]
      BY <1>2, <2>6 DEF Mailing, Goto, Set
    <3>2. hold[w] \in Digests /\ Written(hold[w])
      BY <3>1 DEF Mailing, Leased, Shape, Contents, MailIsPayload, Holds
    <3>3. status'[hold[w]] = status[hold[w]]
      BY <2>1, <3>2
    <3> QED
      BY <1>0, <1>2, <3>1, <3>3 DEF CarriedIsPayload, Owned
  <2> QED
    BY <2>3, <2>4, <2>5, <2>6 DEF CarriedIsPayload
<1> QED
  BY <1>0, <1>1, <1>2

\* A payload is written once, of what is claimed.
LEMMA PersistKeepsOutbox ==
    ASSUME Whole, NEW p \in Pipelines, Persist(p)
    PROVE  OutboxInv'
<1> USE WorkerFacts DEF Whole, Kept, Typed, LocalTyped, StoredTyped, OutboxInv
<1>1. /\ UNCHANGED <<claimedBy, hold, rows, owner, carried, doubt>>
      /\ pc'[p] = "deliver" /\ \A w \in Workers \ {p} : pc'[w] = pc[w]
  BY DEF Persist, Goto, messages
<1>2. CASE status[hold[p]] # "building"
  <2>1. UNCHANGED <<status, payload>>
    BY <1>2 DEF Persist
  <2> QED
    BY <1>1, <2>1, LeaveKeepsOutbox
<1>3. ASSUME NEW d \in Digests, d = hold[p], status[d] = "building" PROVE OutboxInv'
  <2>1. status' = Set(status, d, "pending") /\ payload' = Set(payload, d, rows[p])
    BY <1>3 DEF Persist
  <2>2. rows[p] \subseteq Claims(d)
    BY <1>3 DEF Persist, Contents, RowsAreClaimed
  <2>3. /\ ~Written(d) /\ payload'[d] = rows[p] /\ carried[d] = {} /\ d \notin doubt
        /\ \A x \in Digests \ {d} : status'[x] = status[x] /\ payload'[x] = payload[x]
                                    /\ (Written(x)' <=> Written(x))
    BY <1>3, <2>1 DEF Set, Written, CarriedIsPayload
  <2>4. \A x : Claims(x)' = Claims(x)
    BY <1>1 DEF Claims
  <2>5. PayloadIsClaimed'
    <3> SUFFICES ASSUME NEW x \in Digests, status'[x] \in Live
                 PROVE  payload'[x] \subseteq Claims(x)
      BY <2>4 DEF PayloadIsClaimed
    <3> QED
      BY <2>2, <2>3 DEF PayloadIsClaimed
  <2>6. \A x \in Digests : carried'[x] # {} => Written(x)' /\ payload'[x] \in {carried'[x], {}}
    BY <1>1, <2>3 DEF CarriedIsPayload
  <2>7. \A x \in doubt' : Written(x)' /\ payload'[x] \subseteq carried'[x]
    BY <1>1, <2>3 DEF CarriedIsPayload
  <2>8. ASSUME NEW w \in Workers, Mailing(w)'
        PROVE  /\ rows'[w] = carried'[hold'[w]]
               /\ IF Owned(w, hold[w])' THEN payload'[hold'[w]] = rows'[w]
                      ELSE hold'[w] \in doubt'
    <3>1. Mailing(w) /\ hold'[w] = hold[w] /\ rows'[w] = rows[w]
      BY <1>1, <2>8 DEF Mailing
    <3>2. hold[w] \in Digests /\ Written(hold[w])
      BY <3>1 DEF Mailing, Leased, Shape, Contents, MailIsPayload, Holds
    <3>3. status'[hold[w]] = status[hold[w]] /\ payload'[hold[w]] = payload[hold[w]]
      BY <2>3, <3>2
    <3> QED
      BY <1>1, <3>1, <3>3 DEF CarriedIsPayload, Owned
  <2> QED
    BY <2>5, <2>6, <2>7, <2>8 DEF CarriedIsPayload
<1>4. hold[p] \in Digests
  BY DEF Persist, Shape
<1> QED
  BY <1>2, <1>3, <1>4

\* A stale claim is nobody's.
LEMMA SweepKeepsOutbox ==
    ASSUME Whole, LeaseOutlivesSend, NEW w \in Sweepers,
           StartSweep(w) \/ Select(w) \/ Sweep(w) \/ EndSweep(w)
    PROVE  OutboxInv'
<1> USE DEF Whole, Kept, Typed, LocalTyped, StoredTyped
<1>0. w \in Workers
  BY DEF Workers
<1>1. CASE StartSweep(w)
  <2>1. UNCHANGED <<claimedBy, payload, carried, doubt, hold, rows>>
    BY <1>1 DEF StartSweep, messages, job, past
  <2>2. \A d \in Digests : /\ status'[d] \in Live => status[d] \in Live
                           /\ Written(d) => Written(d)'
                           /\ status[d] = "sending" => status'[d] # "cancelled"
    BY <1>1 DEF StartSweep, Stale, Written, Live
  <2>3. pc'[w] = "select" /\ \A v \in Workers \ {w} : pc'[v] = pc[v]
    BY <1>0, <1>1 DEF StartSweep, Goto
  <2>4. Calm
    BY <1>1, StartSweepIsCalm
  <2>5. ASSUME NEW v \in Workers, Mailing(v)'
        PROVE  /\ Mailing(v) /\ hold'[v] = hold[v] /\ rows'[v] = rows[v]
               /\ \/ status'[hold[v]] = status[hold[v]] /\ owner'[hold[v]] = owner[hold[v]]
                  \/ ~Owned(v, hold[v]) /\ status'[hold[v]] # "sending"
    <3>1. Mailing(v) /\ hold'[v] = hold[v] /\ rows'[v] = rows[v] /\ hold[v] \in Digests
      BY <2>1, <2>3, <2>5 DEF Mailing, Leased, Shape
    <3>2. Holds(v, hold[v]) /\ pc'[v] \in {"sending", "accepted"}
      BY <2>5, <3>1 DEF Mailing, Holds
    <3>3. \A d \in Digests : d = hold[v] => RowKept(d)
      BY <3>1, <3>2, <2>4 DEF Calm, Holds
    <3> QED
      BY <2>2, <3>1, <3>3 DEF RowKept, Owned
  <2> QED
    BY <2>1, <2>2, <2>5, QuietKeepsOutbox
<1>2. CASE Select(w) \/ EndSweep(w)
  <2>1. UNCHANGED <<claimedBy, payload, carried, doubt, hold, rows, status, owner>>
    BY <1>2 DEF Select, EndSweep, messages, digest, lease, job, past
  <2>2. pc'[w] \in {"next", "idle"} /\ \A v \in Workers \ {w} : pc'[v] = pc[v]
    BY <1>0, <1>2 DEF Select, EndSweep, Goto
  <2> QED
    BY <2>1, <2>2, LeaveKeepsOutbox
<1>3. CASE Sweep(w)
  <2>1. PICK d \in queue[w] :
          \/ Cancel(d) /\ UNCHANGED <<pc, hold, rows>>
          \/ Claimable(w, d) /\ Claim(w, d)
          \/ UNCHANGED <<messages, digest, pc, hold, rows, past>>
    BY <1>3 DEF Sweep
  <2>2. d \in Digests
    BY <1>0
  <2>3. CASE Cancel(d) /\ UNCHANGED <<pc, hold, rows>>
    BY <2>2, <2>3, WithdrawKeepsOutbox
  <2>4. CASE Claimable(w, d) /\ Claim(w, d)
    BY <1>0, <2>2, <2>4, ClaimKeepsOutbox
  <2>5. CASE UNCHANGED <<messages, digest, pc, hold, rows, past>>
    BY <2>5, LeaveKeepsOutbox DEF messages, digest, lease, job, past
  <2> QED
    BY <2>1, <2>3, <2>4, <2>5
<1> QED
  BY <1>1, <1>2, <1>3

\* The mail begun carries the payload, like any begun before it.
LEMMA BeginSendKeepsOutbox ==
    ASSUME Whole, NEW w \in Workers, BeginSend(w)
    PROVE  OutboxInv'
<1> USE DEF Whole, Kept, Typed, LocalTyped, StoredTyped, OutboxInv
<1>0. PICK d \in Digests : d = hold[w] /\ pc[w] = "claimed"
  BY DEF BeginSend, Leased, Shape
<1>1. CASE Leave(w)
  <2>1. \A v \in Workers : pc'[v] \in {"sending", "accepted"} =>
          pc'[v] = pc[v] /\ hold'[v] = hold[v] /\ rows'[v] = rows[v]
    BY <1>1 DEF Leave, Goto
  <2>2. CASE UNCHANGED <<messages, digest, past>>
    BY <2>1, <2>2, LeaveKeepsOutbox DEF messages, digest, lease, job, past
  <2>3. CASE Cancel(hold[w])
    BY <1>0, <2>1, <2>3, WithdrawKeepsOutbox
  <2>4. CASE pc'[w] = "sending"
    BY <1>1, <2>4 DEF Leave, Goto
  <2> QED
    BY <2>2, <2>3, <2>4 DEF BeginSend, Goto
<1>2. CASE ~Leave(w)
  <2>1. /\ Owned(w, d) /\ Claims(d) # {}
        /\ Goto(w, "sending") /\ rows' = Set(rows, w, payload[d])
        /\ carried' = Set(carried, d, carried[d] \cup payload[d])
        /\ UNCHANGED <<messages, digest, hold, doubt>>
    BY <1>0, <1>2 DEF BeginSend
  <2>2. UNCHANGED <<claimedBy, status, payload, owner, hold, doubt>>
    BY <2>1 DEF messages, digest, lease, job
  <2>3. payload[d] # {} /\ Written(d)
    BY <2>1 DEF Contents, ClaimsAreCovered, Owned, Written
  <2>4. carried'[d] = payload[d] /\ \A x \in Digests \ {d} : carried'[x] = carried[x]
    <3>1. carried[d] \cup payload[d] = payload[d]
      BY <2>3 DEF CarriedIsPayload
    <3> QED
      BY <2>1, <3>1 DEF Set
  <2>5. /\ pc'[w] = "sending" /\ rows'[w] = payload[d]
        /\ \A v \in Workers \ {w} : pc'[v] = pc[v] /\ rows'[v] = rows[v]
    BY <2>1 DEF Goto, Set
  <2>6. \A x \in Digests : Written(x)' <=> Written(x)
    BY <2>2 DEF Written
  <2>7. PayloadIsClaimed'
    BY <2>2 DEF PayloadIsClaimed, Claims
  <2>8. \A x \in Digests : carried'[x] # {} => Written(x)' /\ payload'[x] \in {carried'[x], {}}
    BY <2>2, <2>3, <2>4, <2>6 DEF CarriedIsPayload
  <2>9. \A x \in doubt' : Written(x)' /\ payload'[x] \subseteq carried'[x]
    BY <2>2, <2>4, <2>6 DEF CarriedIsPayload
  <2>10. ASSUME NEW v \in Workers, Mailing(v)'
         PROVE  /\ rows'[v] = carried'[hold'[v]]
                /\ IF Owned(v, hold[v])' THEN payload'[hold'[v]] = rows'[v]
                      ELSE hold'[v] \in doubt'
    <3>1. CASE v = w
      BY <1>0, <2>1, <2>2, <2>4, <2>5, <3>1 DEF Owned
    <3>2. CASE v # w
      <4>1. Mailing(v) /\ rows'[v] = rows[v] /\ hold[v] \in Digests
        BY <2>5, <2>10, <3>2 DEF Mailing, Leased, Shape
      <4>2. hold[v] # d
        BY <1>0, <3>2, <4>1 DEF Leased, LeaseInv, OneHolder, Holds, Mailing
      <4> QED
        BY <2>2, <2>4, <4>1, <4>2 DEF CarriedIsPayload, Owned
    <3> QED
      BY <3>1, <3>2
  <2> QED
    BY <2>7, <2>8, <2>9, <2>10 DEF CarriedIsPayload
<1> QED
  BY <1>1, <1>2

\* The outcome is written on the row of a digest nobody else holds.
LEMMA OutcomeKeepsOutbox ==
    ASSUME Whole, NEW w \in Workers, Finalize(w) \/ MarkPending(w)
    PROVE  OutboxInv'
<1> USE DEF Whole, Kept, Typed, LocalTyped, StoredTyped, OutboxInv
<1>0. PICK d \in Digests : d = hold[w] /\ Holds(w, d)
  BY DEF Finalize, Done, MarkPending, Leased, Shape, Holds
<1>1. /\ UNCHANGED <<payload, carried, doubt>>
      /\ claimedBy' \in {claimedBy, Released(d)} /\ Leave(w)
      /\ \/ status' = Set(status, d, "sent")
         \/ status' = Set(status, d, "pending") /\ UNCHANGED claimedBy
      /\ owner' = Set(owner, d, None)
  BY <1>0 DEF Finalize, Done, MarkPending, messages, past
<1>2. /\ status'[d] = "sent" \/ (status'[d] = "pending" /\ UNCHANGED claimedBy)
      /\ Written(d) /\ Written(d)'
      /\ \A x \in Digests \ {d} : status'[x] = status[x] /\ owner'[x] = owner[x]
                                  /\ (Written(x)' <=> Written(x))
  BY <1>0, <1>1 DEF Set, Written, Contents, MailIsPayload
<1>3. \A x \in Digests \ {d} : Claims(x)' = Claims(x)
  BY <1>1, ConstantsAssumption DEF Released, Claims, ConstantsAssumption
<1>4. PayloadIsClaimed'
  <2> SUFFICES ASSUME NEW x \in Digests, status'[x] \in Live
               PROVE  payload'[x] \subseteq Claims(x)'
    BY DEF PayloadIsClaimed
  <2>1. CASE x = d
    <3>1. UNCHANGED claimedBy
      BY <1>2, <2>1 DEF Live
    <3>2. payload[d] \subseteq Claims(d)
      <4>1. Owned(w, d) \/ payload[d] = {}
        BY <1>0 DEF Leased, LeaseInv, HoldersOwn
      <4> QED
        BY <4>1 DEF PayloadIsClaimed, Owned, Live
    <3> QED
      BY <1>1, <2>1, <3>1, <3>2 DEF Claims
  <2>2. CASE x # d
    <3>1. status[x] \in Live /\ payload'[x] = payload[x] /\ Claims(x)' = Claims(x)
      BY <1>1, <1>2, <1>3, <2>2
    <3> QED
      BY <3>1, Zenon DEF PayloadIsClaimed
  <2> QED
    BY <2>1, <2>2
<1>5. \A x \in Digests : carried'[x] # {} => Written(x)' /\ payload'[x] \in {carried'[x], {}}
  BY <1>1, <1>2 DEF CarriedIsPayload
<1>6. \A x \in doubt' : Written(x)' /\ payload'[x] \subseteq carried'[x]
  BY <1>1, <1>2 DEF CarriedIsPayload
<1>7. ASSUME NEW v \in Workers, Mailing(v)'
      PROVE  /\ rows'[v] = carried'[hold'[v]]
             /\ IF Owned(v, hold[v])' THEN payload'[hold'[v]] = rows'[v]
                      ELSE hold'[v] \in doubt'
  <2>1. v # w /\ Mailing(v) /\ rows'[v] = rows[v] /\ hold'[v] = hold[v] /\ hold[v] \in Digests
    BY <1>1, <1>7 DEF Mailing, Leave, Goto, Leased, Shape
  <2>2. hold[v] # d
    BY <1>0, <2>1 DEF Leased, LeaseInv, OneHolder, Holds, Mailing
  <2> QED
    BY <1>1, <1>2, <2>1, <2>2 DEF CarriedIsPayload, Owned
<1> QED
  BY <1>4, <1>5, <1>6, <1>7 DEF CarriedIsPayload

LEMMA SendKeepsOutbox ==
    ASSUME Whole, NEW w \in Workers, Send(w)
    PROVE  OutboxInv'
<1> USE DEF Whole, Kept, Typed, LocalTyped, StoredTyped
<1>1. CASE Accept(w)
  <2>1. UNCHANGED <<claimedBy, payload, carried, doubt, hold, rows, status, owner>>
    BY <1>1 DEF Accept, messages, digest, lease, job
  <2>2. pc[w] = "sending" /\ \A v \in Workers \ {w} : pc'[v] = pc[v]
    BY <1>1 DEF Accept, Goto
  <2> QED
    BY <2>1, <2>2, LeaveKeepsOutbox
<1>2. CASE Raise(w)
  <2>1. UNCHANGED <<claimedBy, payload, carried, hold, rows, status, owner>>
    BY <1>2 DEF Raise, messages, digest, lease, job
  <2>2. Mailing(w) /\ pc'[w] = "failed" /\ \A v \in Workers \ {w} : pc'[v] = pc[v]
    BY <1>2 DEF Raise, Goto
  <2>3. doubt' \in {doubt, doubt \cup {hold[w]}}
    BY <1>2 DEF Raise
  <2> QED
    BY <2>1, <2>2, <2>3, LeaveKeepsOutbox, LoseKeepsOutbox DEF Mailing
<1> QED
  BY <1>1, <1>2, BeginSendKeepsOutbox, OutcomeKeepsOutbox DEF Send

LEMMA WholeKeeps == LeaseOutlivesSend /\ Whole /\ [Next]_vars => Whole'
<1> SUFFICES ASSUME LeaseOutlivesSend, Whole, [Next]_vars PROVE Whole'
  OBVIOUS
<1>1. Kept' /\ Leased'
  BY KeptKeeps, LeaseKeeps DEF Whole
<1>2. ASSUME NEW p \in Pipelines, Pipeline(p) PROVE OutboxInv'
  BY <1>2, PipelineKeepsOutbox, ClaimRowsKeepsOutbox, PersistKeepsOutbox DEF Pipeline
<1>3. OutboxInv'
  BY <1>2, WorldKeepsOutbox, SweepKeepsOutbox, SendKeepsOutbox DEF Next
<1> QED
  BY <1>1, <1>3 DEF Whole

LEMMA LeasedInit == Init => Leased
  BY ShapeInit, WorkerFacts
  DEF Leased, LeaseInv, Init, OneHolder, HoldersOwn, InTime, ClaimAge, Holds, Delivering

LEMMA WholeInit == Init => Whole
<1> SUFFICES ASSUME Init PROVE Whole
  OBVIOUS
<1>1. OutboxInv
  BY DEF Init, OutboxInv, PayloadIsClaimed, CarriedIsPayload, Mailing
<1> QED
  BY <1>1, KeptInit, LeasedInit DEF Whole

\* Who has a message at the mail server, as far as the rows know.
Carrier(w, m) == Mailing(w) /\ m \in rows[w] /\ Owned(w, hold[w])

Doubtful(m) == \E d \in doubt : m \in carried[d]

LEMMA StageIs ==
    ASSUME NEW m
    PROVE  Stage(m) = IF m \in digested THEN "closed"
                      ELSE IF \E w \in Workers : Carrier(w, m) /\ pc[w] = "accepted" THEN "taken"
                      ELSE IF \E w \in Workers : Carrier(w, m) /\ pc[w] = "sending" THEN "trying"
                      ELSE "open"
  BY DEF Stage, InMail, Carrier, Mailing

\* Who carries a message is its only carrier; the digest has claimed it.
CarriedOnce ==
    \A w \in Workers, m \in Messages : Carrier(w, m) =>
        /\ m \notin digested /\ m \in Claims(hold[w])
        /\ \A v \in Workers : Carrier(v, m) => v = w
        /\ Stage(m) = IF pc[w] = "accepted" THEN "taken" ELSE "trying"

LEMMA OneCarrier == Whole => CarriedOnce
<1> SUFFICES ASSUME Whole, NEW w \in Workers, NEW m \in Messages, Carrier(w, m)
             PROVE  /\ m \notin digested /\ m \in Claims(hold[w])
                    /\ \A v \in Workers : Carrier(v, m) => v = w
                    /\ Stage(m) = IF pc[w] = "accepted" THEN "taken" ELSE "trying"
  BY DEF CarriedOnce
<1> USE DEF Whole, OutboxInv
<1>1. \A v \in Workers : Carrier(v, m) => m \in Claims(hold[v]) /\ hold[v] \in Digests
  BY DEF Carrier, CarriedIsPayload, PayloadIsClaimed, Owned, Live, Leased, Shape, Mailing
<1>2. m \notin digested
  BY <1>1, ConstantsAssumption
  DEF Kept, Contents, ClaimsAreCovered, Claims, ConstantsAssumption
<1>3. ASSUME NEW v \in Workers, Carrier(v, m) PROVE v = w
  <2>1. hold[v] = hold[w]
    BY <1>1, <1>3 DEF Claims
  <2> QED
    BY <1>1, <1>3, <2>1 DEF Leased, LeaseInv, OneHolder, Holds, Carrier, Mailing
<1>4. Stage(m) = IF pc[w] = "accepted" THEN "taken" ELSE "trying"
  BY <1>2, <1>3, StageIs DEF Carrier, Mailing
<1> QED
  BY <1>1, <1>2, <1>3, <1>4

LEMMA NotCarried ==
    ASSUME NEW m, \A w \in Workers : ~Carrier(w, m)
    PROVE  Stage(m) = IF m \in digested THEN "closed" ELSE "open"
  BY StageIs

\* A message that a step does not touch.
LEMMA Untouched ==
    ASSUME NEW m \in Messages, m \in digested' <=> m \in digested,
           \A w \in Workers : Carrier(w, m) \/ Carrier(w, m)' =>
               Carrier(w, m) /\ Carrier(w, m)' /\ pc'[w] = pc[w],
           mailed'[m] = mailed[m], Doubtful(m)' <=> Doubtful(m)
    PROVE  Abstract!Rest(m)
<1>1. Stage(m)' = Stage(m)
  <2>1. Stage(m)' = IF m \in digested' THEN "closed"
                    ELSE IF \E w \in Workers : Carrier(w, m)' /\ pc'[w] = "accepted" THEN "taken"
                    ELSE IF \E w \in Workers : Carrier(w, m)' /\ pc'[w] = "sending" THEN "trying"
                    ELSE "open"
    BY DEF Stage, InMail, Carrier, Mailing
  <2> QED
    BY <2>1, StageIs
<1> QED
  BY <1>1 DEF Abstract!Rest, Abstract!Uncounted, Abstract!Sure, Doubtful

\* Who is at the mail server stays, and with the rows as far as these matter.
Steady ==
    /\ UNCHANGED <<digested, mailed, carried, doubt>>
    /\ \A w \in Workers : Mailing(w) \/ Mailing(w)' =>
         /\ pc'[w] = pc[w] /\ hold'[w] = hold[w] /\ rows'[w] = rows[w]
         /\ \/ status'[hold[w]] = status[hold[w]] /\ owner'[hold[w]] = owner[hold[w]]
            \/ ~Owned(w, hold[w]) /\ status'[hold[w]] # "sending"

LEMMA SteadyRests ==
    ASSUME Steady, NEW m \in Messages
    PROVE  Abstract!Rest(m)
<1>1. ASSUME NEW w \in Workers, Carrier(w, m) \/ Carrier(w, m)'
      PROVE  Carrier(w, m) /\ Carrier(w, m)' /\ pc'[w] = pc[w]
  BY <1>1 DEF Steady, Carrier, Mailing, Owned
<1> QED
  BY <1>1, Untouched DEF Steady, Doubtful

LEMMA WorldIsSteady ==
    ASSUME Whole,
           \/ \E m \in Messages : Arrive(m)
           \/ \E c \in Chats : EditIgnored(c)
           \/ Tick
    PROVE  Steady
  BY DEF Arrive, EditIgnored, Tick, Steady, messages, digest, lease, job, local, past, Mailing

LEMMA PipelineIsSteady ==
    ASSUME Whole, NEW p \in Pipelines, Begin(p) \/ Gather(p) \/ ClaimRows(p) \/ Persist(p)
    PROVE  Steady
<1> USE WorkerFacts
    DEF Whole, Kept, Typed, LocalTyped, StoredTyped, messages, digest, lease, job, past,
        Goto, Set, Leave
<1>1. UNCHANGED <<digested, mailed, carried, doubt>>
  <2>1. CASE Begin(p) \/ Gather(p) \/ Persist(p)
    BY <2>1 DEF Begin, Gather, Persist
  <2>2. CASE ClaimRows(p)
    BY <2>2, Zenon DEF ClaimRows, ClaimAmong
  <2> QED
    BY <2>1, <2>2
<1>2. /\ ~Mailing(p) /\ ~Mailing(p)'
      /\ \A w \in Workers \ {p} : pc'[w] = pc[w] /\ hold'[w] = hold[w] /\ rows'[w] = rows[w]
  <2>1. CASE Begin(p)
    BY <2>1 DEF Begin, Start, Mailing
  <2>2. CASE Gather(p)
    BY <2>2 DEF Gather, Mailing
  <2>3. CASE ClaimRows(p)
    BY <2>3 DEF ClaimRows, ClaimAmong, Mailing
  <2>4. CASE Persist(p)
    BY <2>4 DEF Persist, Mailing
  <2> QED
    BY <2>1, <2>2, <2>3, <2>4
<1>3. ASSUME NEW d \in Digests, Written(d)
      PROVE  status'[d] = status[d] /\ owner'[d] = owner[d]
  <2>1. CASE Begin(p) \/ Gather(p)
    BY <2>1 DEF Begin, Gather
  <2>2. CASE Persist(p)
    BY <1>3, <2>2 DEF Persist, Written
  <2>3. CASE ClaimRows(p)
    <3>1. \/ UNCHANGED digest
          \/ \E x \in Digests : status[x] = "none" /\ status' = Set(status, x, "building")
                                /\ UNCHANGED owner
      BY <2>3, Zenon DEF ClaimRows, ClaimAmong, IsNext
    <3> QED
      BY <1>3, <3>1 DEF Written
  <2> QED
    BY <2>1, <2>2, <2>3
<1>4. \A w \in Workers : Mailing(w) => hold[w] \in Digests /\ Written(hold[w])
  BY DEF Mailing, Leased, Shape, Contents, MailIsPayload, Holds
<1>5. ASSUME NEW w \in Workers, Mailing(w) \/ Mailing(w)'
      PROVE  /\ pc'[w] = pc[w] /\ hold'[w] = hold[w] /\ rows'[w] = rows[w]
             /\ status'[hold[w]] = status[hold[w]] /\ owner'[hold[w]] = owner[hold[w]]
  <2>1. w # p /\ pc'[w] = pc[w] /\ hold'[w] = hold[w] /\ rows'[w] = rows[w] /\ Mailing(w)
    BY <1>2, <1>5 DEF Mailing
  <2> QED
    BY <1>3, <1>4, <2>1
<1> QED
  BY <1>1, <1>5 DEF Steady

LEMMA ClaimIsSteady ==
    ASSUME Whole, NEW w \in Workers, ~Mailing(w), NEW d \in Digests, Claimable(w, d),
           Claim(w, d)
    PROVE  Steady
<1> USE DEF Whole, Kept, Typed, LocalTyped, StoredTyped
<1>1. /\ UNCHANGED <<digested, mailed, carried, doubt, rows>>
      /\ pc'[w] = "claimed"
      /\ \A v \in Workers \ {w} : pc'[v] = pc[v] /\ hold'[v] = hold[v]
      /\ status[d] = "pending"
      /\ \A x \in Digests \ {d} : status'[x] = status[x] /\ owner'[x] = owner[x]
  BY DEF Claim, Claimable, Goto, Set, messages, job, past
<1>2. ASSUME NEW v \in Workers, Mailing(v) \/ Mailing(v)'
      PROVE  /\ pc'[v] = pc[v] /\ hold'[v] = hold[v] /\ rows'[v] = rows[v]
             /\ status'[hold[v]] = status[hold[v]] /\ owner'[hold[v]] = owner[hold[v]]
  <2>1. v # w /\ Mailing(v) /\ pc'[v] = pc[v] /\ hold'[v] = hold[v] /\ rows'[v] = rows[v]
        /\ hold[v] \in Digests
    BY <1>1, <1>2 DEF Mailing, Leased, Shape
  <2>2. hold[v] # d
    BY <1>1, <2>1 DEF Leased, LeaseInv, HoldersOwn, Owned, Holds, Mailing
  <2> QED
    BY <1>1, <2>1, <2>2
<1> QED
  BY <1>1, <1>2 DEF Steady

LEMMA StartSweepIsSteady ==
    ASSUME Whole, LeaseOutlivesSend, NEW w \in Sweepers, StartSweep(w)
    PROVE  Steady
<1> USE DEF Whole, Kept, Typed, LocalTyped, StoredTyped
<1>0. w \in Workers
  BY DEF Workers
<1>1. UNCHANGED <<digested, mailed, carried, doubt, hold, rows>>
  BY DEF StartSweep, messages, job, past
<1>2. pc[w] = "idle" /\ pc'[w] = "select" /\ \A v \in Workers \ {w} : pc'[v] = pc[v]
  BY <1>0 DEF StartSweep, Start, Goto
<1>3. \A d \in Digests : status[d] # "cancelled" => status'[d] # "cancelled"
  BY DEF StartSweep
<1>4. \A d \in Digests : status[d] = "cancelled" =>
        status'[d] = "cancelled" /\ owner'[d] = owner[d]
  BY DEF StartSweep, Stale
<1>5. Calm
  BY StartSweepIsCalm
<1>6. ASSUME NEW v \in Workers, Mailing(v) \/ Mailing(v)'
      PROVE  /\ pc'[v] = pc[v] /\ hold'[v] = hold[v] /\ rows'[v] = rows[v]
             /\ status'[hold[v]] = status[hold[v]] /\ owner'[hold[v]] = owner[hold[v]]
  <2>1. v # w /\ pc'[v] = pc[v] /\ hold'[v] = hold[v] /\ rows'[v] = rows[v]
        /\ hold[v] \in Digests /\ pc'[v] \in {"sending", "accepted"}
    BY <1>1, <1>2, <1>6 DEF Mailing, Leased, Shape
  <2>2. \A d \in Digests : d = hold[v] => RowKept(d)
    BY <1>5, <2>1 DEF Calm, Holds
  <2> QED
    BY <1>3, <1>4, <2>1, <2>2 DEF RowKept
<1> QED
  BY <1>1, <1>6 DEF Steady

\* A mail whose digest is withdrawn is lost; nothing else happens.
LEMMA WithdrawIsStep ==
    ASSUME Whole, Whole', NEW d \in Digests, Cancel(d),
           \A w \in Workers : Mailing(w) \/ Mailing(w)' =>
             pc'[w] = pc[w] /\ hold'[w] = hold[w] /\ rows'[w] = rows[w],
           NEW m \in Messages
    PROVE  Abstract!Step(m) \/ Abstract!Rest(m)
<1>1. /\ status' = [status EXCEPT ![d] = "cancelled"] /\ owner' = [owner EXCEPT ![d] = None]
      /\ UNCHANGED <<carried, mailed, digested>>
      /\ doubt' = IF \E w \in Workers : Mailing(w) /\ hold[w] = d
                  THEN doubt \cup {d} ELSE doubt
  BY DEF Cancel, Withdraw, Set
<1>2. /\ status'[d] = "cancelled"
      /\ \A x \in Digests \ {d} : status'[x] = status[x] /\ owner'[x] = owner[x]
  BY <1>1 DEF Whole, Kept, Typed, StoredTyped
<1>3. \A w \in Workers : Mailing(w) => hold[w] \in Digests
  BY DEF Mailing, Whole, Leased, Shape
<1>4. ASSUME NEW w \in Workers
      PROVE  Carrier(w, m)' <=> Carrier(w, m) /\ hold[w] # d
  <2>1. CASE Mailing(w) \/ Mailing(w)'
    <3>1. Mailing(w) /\ Mailing(w)' /\ hold'[w] = hold[w] /\ rows'[w] = rows[w]
          /\ hold[w] \in Digests
      BY <1>3, <2>1 DEF Mailing
    <3> QED
      BY <1>2, <3>1 DEF Carrier, Owned
  <2>2. CASE ~(Mailing(w) \/ Mailing(w)')
    BY <2>2 DEF Carrier
  <2> QED
    BY <2>1, <2>2
<1>5. CASE \E w \in Workers : Carrier(w, m) /\ hold[w] = d
  <2>1. PICK w \in Workers : Carrier(w, m) /\ hold[w] = d
    BY <1>5
  <2>2. Stage(m) \in {"trying", "taken"} /\ m \notin digested
    BY <2>1, OneCarrier DEF CarriedOnce
  <2>3. \A v \in Workers : ~Carrier(v, m)'
    BY <1>4, <2>1, OneCarrier DEF CarriedOnce
  <2>4. Stage(m)' = "open"
    <3>1. \A v \in Workers : ~(Mailing(v)' /\ m \in rows'[v] /\ Owned(v, hold[v])')
      BY <2>3 DEF Carrier
    <3> QED
      BY <1>1, <2>2, <3>1 DEF Stage, InMail, Mailing
  <2>5. Doubtful(m)'
    <3>1. d \in doubt' /\ m \in carried'[d]
      BY <1>1, <2>1 DEF Carrier, Whole, OutboxInv, CarriedIsPayload
    <3> QED
      BY <3>1 DEF Doubtful
  <2> QED
    BY <1>1, <2>2, <2>4, <2>5
    DEF Abstract!Step, Abstract!Lose, Abstract!Moves, Abstract!Uncounted, Doubtful
<1>6. CASE ~\E w \in Workers : Carrier(w, m) /\ hold[w] = d
  <2>1. \A w \in Workers : Carrier(w, m) \/ Carrier(w, m)' =>
          Carrier(w, m) /\ Carrier(w, m)' /\ pc'[w] = pc[w]
    BY <1>4, <1>6 DEF Carrier
  <2>2. ASSUME NEW w \in Workers, Mailing(w), hold[w] = d, m \in carried[d]
        PROVE  d \in doubt
    BY <1>6, <2>2 DEF Carrier, Whole, OutboxInv, CarriedIsPayload
  <2>3. Doubtful(m)' <=> Doubtful(m)
    BY <1>1, <2>2 DEF Doubtful
  <2> QED
    BY <1>1, <2>1, <2>3, Untouched
<1> QED
  BY <1>5, <1>6

\* A worker that dies or sees its mail fail gives up what it carries.
LEMMA StopIsStep ==
    ASSUME Whole, NEW w \in Workers, Mailing(w), ~Mailing(w)', NEW m \in Messages,
           UNCHANGED <<digested, status, owner, mailed, carried>>,
           \A v \in Workers \ {w} : pc'[v] = pc[v] /\ hold'[v] = hold[v] /\ rows'[v] = rows[v],
           \/ doubt' = doubt \cup {hold[w]}
           \/ pc[w] = "sending" /\ doubt' = doubt
    PROVE  Abstract!Step(m) \/ Abstract!Rest(m)
<1>1. \A v \in Workers : Carrier(v, m)' <=> Carrier(v, m) /\ v # w
  BY DEF Carrier, Mailing, Owned
<1>2. CASE Carrier(w, m)
  <2>1. m \notin digested /\ Stage(m) = IF pc[w] = "accepted" THEN "taken" ELSE "trying"
    BY <1>2, OneCarrier DEF CarriedOnce
  <2>2. \A v \in Workers : ~Carrier(v, m)'
    BY <1>1, <1>2, OneCarrier DEF CarriedOnce
  <2>3. Stage(m)' = "open"
    <3>1. \A v \in Workers : ~(Mailing(v)' /\ m \in rows'[v] /\ Owned(v, hold[v])')
      BY <2>2 DEF Carrier
    <3> QED
      BY <2>1, <3>1 DEF Stage, InMail, Mailing
  <2>4. m \in carried[hold[w]]
    BY <1>2 DEF Carrier, Whole, OutboxInv, CarriedIsPayload
  <2>5. CASE doubt' = doubt \cup {hold[w]}
    <3>1. Doubtful(m)'
      BY <2>4, <2>5 DEF Doubtful
    <3> QED
      BY <2>1, <2>3, <3>1
      DEF Abstract!Step, Abstract!Lose, Abstract!Moves, Abstract!Uncounted, Doubtful
  <2>6. CASE pc[w] = "sending" /\ doubt' = doubt
    BY <2>1, <2>3, <2>6
    DEF Abstract!Step, Abstract!Refuse, Abstract!Moves, Abstract!Uncounted, Abstract!Sure
  <2> QED
    BY <2>5, <2>6
<1>3. CASE ~Carrier(w, m)
  <2>1. \A v \in Workers : Carrier(v, m) \/ Carrier(v, m)' =>
          Carrier(v, m) /\ Carrier(v, m)' /\ pc'[v] = pc[v]
    BY <1>1, <1>3
  <2>2. m \in carried[hold[w]] => hold[w] \in doubt
    BY <1>3 DEF Carrier, Whole, OutboxInv, CarriedIsPayload
  <2>3. Doubtful(m)' <=> Doubtful(m)
    BY <2>2 DEF Doubtful
  <2> QED
    BY <2>1, <2>3, Untouched
<1> QED
  BY <1>2, <1>3

\* A mail is begun: what it carries was open.
LEMMA BeginSendIsStep ==
    ASSUME Whole, Whole', NEW w \in Workers, BeginSend(w), NEW m \in Messages
    PROVE  Abstract!Step(m) \/ Abstract!Rest(m)
<1> USE DEF Whole, Kept, Typed, LocalTyped, StoredTyped
<1>0. PICK d \in Digests : d = hold[w] /\ pc[w] = "claimed"
  BY DEF BeginSend, Leased, Shape
<1>1. CASE Leave(w)
  <2>1. /\ ~Mailing(w) /\ ~Mailing(w)'
        /\ \A v \in Workers \ {w} : pc'[v] = pc[v] /\ hold'[v] = hold[v] /\ rows'[v] = rows[v]
    BY <1>0, <1>1 DEF Leave, Goto, Mailing
  <2>2. CASE UNCHANGED <<messages, digest, past>>
    <3>1. Steady
      BY <2>1, <2>2 DEF Steady, messages, digest, lease, job, past, Mailing
    <3> QED
      BY <3>1, SteadyRests
  <2>3. CASE Cancel(hold[w])
    <3>1. \A v \in Workers : Mailing(v) \/ Mailing(v)' =>
            pc'[v] = pc[v] /\ hold'[v] = hold[v] /\ rows'[v] = rows[v]
      BY <2>1
    <3> QED
      BY <1>0, <2>3, <3>1, WithdrawIsStep
  <2>4. pc'[w] # "sending"
    BY <2>1 DEF Mailing
  <2> QED
    BY <2>2, <2>3, <2>4 DEF BeginSend, Goto
<1>2. CASE ~Leave(w)
  <2>1. /\ Owned(w, d) /\ Claims(d) # {}
        /\ Goto(w, "sending") /\ rows' = Set(rows, w, payload[d])
        /\ carried' = Set(carried, d, carried[d] \cup payload[d])
        /\ UNCHANGED <<messages, digest, hold, mailed, doubt>>
    BY <1>0, <1>2 DEF BeginSend
  <2>2. UNCHANGED <<claimedBy, digested, status, payload, owner, hold, mailed, doubt>>
    BY <2>1 DEF messages, digest, lease, job
  <2>3. /\ pc'[w] = "sending" /\ rows'[w] = payload[d] /\ ~Mailing(w)
        /\ \A v \in Workers \ {w} : pc'[v] = pc[v] /\ rows'[v] = rows[v]
    BY <1>0, <2>1 DEF Goto, Set, Mailing
  <2>4. d \in doubt => carried'[d] = carried[d]
    <3>1. payload[d] # {}
      BY <2>1 DEF Contents, ClaimsAreCovered, Owned, Written
    <3>2. d \in doubt => payload[d] \subseteq carried[d]
      BY DEF OutboxInv, CarriedIsPayload
    <3> QED
      BY <2>1, <3>1, <3>2 DEF Set
  <2>5. \A x \in Digests \ {d} : carried'[x] = carried[x]
    BY <2>1 DEF Set
  <2>6. Doubtful(m)' <=> Doubtful(m)
    BY <2>2, <2>4, <2>5 DEF Doubtful
  <2>7. CASE m \in payload[d]
    <3>1. Carrier(w, m)'
      BY <1>0, <2>1, <2>2, <2>3, <2>7 DEF Carrier, Mailing, Owned
    <3>2. m \notin digested' /\ Stage(m)' = "trying"
      <4>1. CarriedOnce'
        BY OneCarrier, PTL
      <4> QED
        BY <2>3, <3>1, <4>1 DEF CarriedOnce
    <3>3. ASSUME NEW v \in Workers, Carrier(v, m) PROVE FALSE
      <4>1. m \in Claims(hold[v]) /\ m \in Claims(d)
        BY <2>1, <2>7, <3>3, OneCarrier DEF CarriedOnce, OutboxInv, PayloadIsClaimed, Owned, Live
      <4>2. hold[v] = d
        BY <4>1 DEF Claims
      <4>3. v = w
        BY <1>0, <3>3, <4>2 DEF Leased, LeaseInv, OneHolder, Holds, Carrier, Mailing
      <4> QED
        BY <2>3, <3>3, <4>3 DEF Carrier
    <3>4. Stage(m) = "open"
      BY <2>2, <3>2, <3>3, NotCarried
    <3> QED
      BY <2>2, <2>6, <3>2, <3>4
      DEF Abstract!Step, Abstract!Try, Abstract!Moves, Abstract!Uncounted, Abstract!Sure,
          Doubtful
  <2>8. CASE m \notin payload[d]
    <3>1. \A v \in Workers : Carrier(v, m) \/ Carrier(v, m)' =>
            Carrier(v, m) /\ Carrier(v, m)' /\ pc'[v] = pc[v]
      BY <2>2, <2>3, <2>8 DEF Carrier, Mailing, Owned
    <3> QED
      BY <2>2, <2>6, <3>1, Untouched
  <2> QED
    BY <2>7, <2>8
<1> QED
  BY <1>1, <1>2

\* The mail is taken: in time, or when its digest is withdrawn and in doubt.
LEMMA AcceptIsStep ==
    ASSUME Whole, NEW w \in Workers, Accept(w), NEW m \in Messages
    PROVE  Abstract!Step(m) \/ Abstract!Rest(m)
<1> USE DEF Whole, Kept, Typed, LocalTyped, StoredTyped
<1>1. /\ UNCHANGED <<digested, status, owner, hold, rows, carried, doubt>>
      /\ pc[w] = "sending" /\ pc'[w] = "accepted"
      /\ \A v \in Workers \ {w} : pc'[v] = pc[v]
  BY DEF Accept, Goto, messages, digest, lease
<1>2. mailed'[m] = IF m \in rows[w] THEN IF mailed[m] = 0 THEN 1 ELSE 2 ELSE mailed[m]
  <2>1. mailed[m] \in 0..2
    OBVIOUS
  <2> QED
    BY <2>1 DEF Accept, Smaller
<1>3. \A v \in Workers : Carrier(v, m)' <=> Carrier(v, m)
  BY <1>1 DEF Carrier, Mailing, Owned
<1>4. Doubtful(m)' <=> Doubtful(m)
  BY <1>1 DEF Doubtful
<1>5. CASE Carrier(w, m)
  <2>1. /\ m \notin digested /\ Stage(m) = "trying"
        /\ \A v \in Workers : Carrier(v, m) => v = w
    BY <1>1, <1>5, OneCarrier DEF CarriedOnce
  <2>2. Stage(m)' = "taken"
    <3>1. /\ m \notin digested' /\ pc'[w] = "accepted"
          /\ m \in rows'[w] /\ Owned(w, hold[w])'
      BY <1>1, <1>5, <2>1 DEF Carrier, Owned
    <3> QED
      BY <3>1 DEF Stage, InMail
  <2>3. m \in rows[w]
    BY <1>5 DEF Carrier
  <2> QED
    BY <1>2, <1>4, <2>1, <2>2, <2>3
    DEF Abstract!Step, Abstract!Take, Abstract!Moves, Abstract!Counted, Abstract!Sure,
        Doubtful
<1>6. CASE ~Carrier(w, m)
  <2>1. \A v \in Workers : Carrier(v, m) \/ Carrier(v, m)' =>
          Carrier(v, m) /\ Carrier(v, m)' /\ pc'[v] = pc[v]
    BY <1>1, <1>3, <1>6
  <2>2. CASE m \notin rows[w]
    BY <1>1, <1>2, <1>4, <2>1, <2>2, Untouched
  <2>3. CASE m \in rows[w]
    <3>1. Doubtful(m)
      BY <1>1, <1>6, <2>3
      DEF Carrier, Mailing, OutboxInv, CarriedIsPayload, Doubtful
    <3>2. Stage(m)' = Stage(m)
      <4>1. Stage(m)' = IF m \in digested' THEN "closed"
                  ELSE IF \E v \in Workers : Carrier(v, m)' /\ pc'[v] = "accepted" THEN "taken"
                  ELSE IF \E v \in Workers : Carrier(v, m)' /\ pc'[v] = "sending" THEN "trying"
                  ELSE "open"
        BY DEF Stage, InMail, Carrier, Mailing
      <4> QED
        BY <1>1, <2>1, <4>1, StageIs
    <3> QED
      BY <1>2, <1>4, <2>3, <3>1, <3>2
      DEF Abstract!Step, Abstract!Surface, Abstract!Counted, Doubtful
  <2> QED
    BY <2>2, <2>3
<1> QED
  BY <1>5, <1>6

\* What the digest has claimed is closed with it, mailed or left out.
LEMMA FinalizeIsStep ==
    ASSUME Whole, NEW w \in Workers, Finalize(w), NEW m \in Messages
    PROVE  Abstract!Step(m) \/ Abstract!Rest(m)
<1> USE DEF Whole, Kept, Typed, LocalTyped, StoredTyped
<1>0. PICK d \in Digests : d = hold[w] /\ pc[w] = "accepted"
  BY DEF Finalize, Done, Leased, Shape
<1>1. /\ UNCHANGED <<carried, doubt, mailed>> /\ Leave(w)
      /\ status' = Set(status, d, "sent") /\ owner' = Set(owner, d, None)
      /\ digested' = digested \cup Claims(d)
  BY <1>0 DEF Finalize, Done, past
<1>2. /\ \A x \in Digests \ {d} : status'[x] = status[x] /\ owner'[x] = owner[x]
      /\ ~Mailing(w)'
      /\ \A v \in Workers \ {w} : pc'[v] = pc[v] /\ hold'[v] = hold[v] /\ rows'[v] = rows[v]
  BY <1>1 DEF Set, Leave, Goto, Mailing
<1>3. ASSUME NEW v \in Workers, v # w PROVE Carrier(v, m)' <=> Carrier(v, m)
  <2>1. Mailing(v) => hold[v] \in Digests \ {d}
    BY <1>0, <1>3 DEF Leased, LeaseInv, OneHolder, Shape, Holds, Mailing
  <2>2. Mailing(v)' <=> Mailing(v)
    BY <1>2, <1>3 DEF Mailing
  <2> QED
    BY <1>2, <1>3, <2>1, <2>2 DEF Carrier, Owned
<1>4. CASE m \in Claims(d)
  <2>1. Stage(m)' = "closed"
    BY <1>1, <1>4 DEF Stage
  <2>2. \A v \in Workers : Carrier(v, m) => v = w
    <3> SUFFICES ASSUME NEW v \in Workers, Carrier(v, m) PROVE v = w
      OBVIOUS
    <3>1. hold[v] = d
      BY <1>4, OneCarrier DEF CarriedOnce, Claims
    <3> QED
      BY <1>0, <3>1 DEF Leased, LeaseInv, OneHolder, Holds, Carrier, Mailing
  <2>3. m \notin digested
    BY <1>4, ConstantsAssumption
    DEF Contents, ClaimsAreCovered, Claims, ConstantsAssumption
  <2>4. Stage(m) \in {"open", "taken"}
    <3>1. CASE Carrier(w, m)
      BY <1>0, <3>1, OneCarrier DEF CarriedOnce
    <3>2. CASE ~Carrier(w, m)
      BY <2>2, <2>3, <3>2, NotCarried
    <3> QED
      BY <3>1, <3>2
  <2> QED
    BY <1>1, <2>1, <2>4
    DEF Abstract!Step, Abstract!Close, Abstract!Moves, Abstract!Uncounted, Abstract!Sure
<1>5. CASE m \notin Claims(d)
  <2>1. ~Carrier(w, m) /\ ~Carrier(w, m)'
    BY <1>0, <1>2, <1>5, OneCarrier DEF CarriedOnce, Carrier
  <2>2. \A v \in Workers : Carrier(v, m) \/ Carrier(v, m)' =>
          Carrier(v, m) /\ Carrier(v, m)' /\ pc'[v] = pc[v]
    BY <1>2, <1>3, <2>1
  <2>3. Doubtful(m)' <=> Doubtful(m)
    BY <1>1 DEF Doubtful
  <2> QED
    BY <1>1, <1>5, <2>2, <2>3, Untouched
<1> QED
  BY <1>4, <1>5

LEMMA MarkPendingIsSteady ==
    ASSUME Whole, NEW w \in Workers, MarkPending(w)
    PROVE  Steady
<1> USE DEF Whole, Kept, Typed, LocalTyped, StoredTyped
<1>0. PICK d \in Digests : d = hold[w] /\ pc[w] = "failed"
  BY DEF MarkPending, Leased, Shape
<1>1. /\ UNCHANGED <<carried, doubt, mailed, digested>> /\ Leave(w)
      /\ status' = Set(status, d, "pending") /\ owner' = Set(owner, d, None)
  BY <1>0 DEF MarkPending, messages, past
<1>2. /\ \A x \in Digests \ {d} : status'[x] = status[x] /\ owner'[x] = owner[x]
      /\ ~Mailing(w) /\ ~Mailing(w)'
      /\ \A v \in Workers \ {w} : pc'[v] = pc[v] /\ hold'[v] = hold[v] /\ rows'[v] = rows[v]
  BY <1>0, <1>1 DEF Set, Leave, Goto, Mailing
<1>3. ASSUME NEW v \in Workers, Mailing(v) \/ Mailing(v)'
      PROVE  /\ pc'[v] = pc[v] /\ hold'[v] = hold[v] /\ rows'[v] = rows[v]
             /\ status'[hold[v]] = status[hold[v]] /\ owner'[hold[v]] = owner[hold[v]]
  <2>1. v # w /\ Mailing(v)
    BY <1>2, <1>3 DEF Mailing
  <2>2. hold[v] \in Digests \ {d}
    BY <1>0, <2>1 DEF Leased, LeaseInv, OneHolder, Shape, Holds, Mailing
  <2> QED
    BY <1>2, <2>1, <2>2
<1> QED
  BY <1>1, <1>3 DEF Steady

LEMMA SendIsStep ==
    ASSUME Whole, Whole', NEW w \in Workers, Send(w), NEW m \in Messages
    PROVE  Abstract!Step(m) \/ Abstract!Rest(m)
<1>1. CASE Raise(w)
  <2>1. /\ UNCHANGED <<digested, status, owner, mailed, carried, hold, rows>>
        /\ Mailing(w) /\ ~Mailing(w)' /\ \A v \in Workers \ {w} : pc'[v] = pc[v]
        /\ \/ doubt' = doubt \cup {hold[w]}
           \/ pc[w] = "sending" /\ doubt' = doubt
    BY <1>1 DEF Raise, Goto, Mailing, messages, digest, lease, Whole, Kept, Typed, LocalTyped
  <2> QED
    BY <2>1, StopIsStep
<1>2. CASE MarkPending(w)
  BY <1>2, MarkPendingIsSteady, SteadyRests
<1> QED
  BY <1>1, <1>2, BeginSendIsStep, AcceptIsStep, FinalizeIsStep DEF Send

LEMMA SweepIsStep ==
    ASSUME Whole, Whole', LeaseOutlivesSend, NEW w \in Sweepers,
           StartSweep(w) \/ Select(w) \/ Sweep(w) \/ EndSweep(w), NEW m \in Messages
    PROVE  Abstract!Step(m) \/ Abstract!Rest(m)
<1> USE DEF Whole, Kept, Typed, LocalTyped
<1>0. w \in Workers
  BY DEF Workers
<1>1. CASE StartSweep(w)
  BY <1>1, StartSweepIsSteady, SteadyRests
<1>2. CASE Select(w) \/ EndSweep(w)
  <2>1. Steady
    BY <1>0, <1>2
    DEF Select, EndSweep, Goto, Steady, Mailing, messages, digest, lease, job, past
  <2> QED
    BY <2>1, SteadyRests
<1>3. CASE Sweep(w)
  <2>1. PICK d \in queue[w] :
          \/ Cancel(d) /\ UNCHANGED <<pc, hold, rows>>
          \/ Claimable(w, d) /\ Claim(w, d)
          \/ UNCHANGED <<messages, digest, pc, hold, rows, past>>
    BY <1>3 DEF Sweep
  <2>2. d \in Digests /\ ~Mailing(w)
    BY <1>0, <1>3 DEF Sweep, Mailing
  <2>3. CASE Cancel(d) /\ UNCHANGED <<pc, hold, rows>>
    BY <2>2, <2>3, WithdrawIsStep
  <2>4. CASE Claimable(w, d) /\ Claim(w, d)
    BY <1>0, <2>2, <2>4, ClaimIsSteady, SteadyRests
  <2>5. CASE UNCHANGED <<messages, digest, pc, hold, rows, past>>
    <3>1. Steady
      BY <2>5 DEF Steady, messages, digest, lease, job, past, Mailing
    <3> QED
      BY <3>1, SteadyRests
  <2> QED
    BY <2>1, <2>3, <2>4, <2>5
<1> QED
  BY <1>1, <1>2, <1>3

LEMMA PipelineIsStep ==
    ASSUME Whole, Whole', NEW p \in Pipelines, Pipeline(p), NEW m \in Messages
    PROVE  Abstract!Step(m) \/ Abstract!Rest(m)
<1>0. p \in Workers
  BY WorkerFacts
<1>1. CASE Begin(p) \/ Gather(p) \/ ClaimRows(p) \/ Persist(p)
  BY <1>1, PipelineIsSteady, SteadyRests
<1>2. CASE Check(p) \/ Deliver(p)
  <2>1. /\ hold[p] \in Digests /\ ~Mailing(p) /\ ~Mailing(p)'
        /\ \A w \in Workers \ {p} : pc'[w] = pc[w] /\ hold'[w] = hold[w] /\ rows'[w] = rows[w]
    <3> USE DEF Whole, Kept, Typed, LocalTyped, Goto, Set, Leave
    <3>1. CASE Check(p)
      BY <1>0, <3>1, WorkerFacts DEF Check, Mailing, Leased, Shape
    <3>2. CASE Deliver(p)
      BY <1>0, <3>2, WorkerFacts DEF Deliver, Claim, Mailing, Leased, Shape
    <3> QED
      BY <1>2, <3>1, <3>2
  <2>2. \A w \in Workers : Mailing(w) \/ Mailing(w)' =>
          Mailing(w) /\ pc'[w] = pc[w] /\ hold'[w] = hold[w] /\ rows'[w] = rows[w]
    BY <2>1 DEF Mailing
  <2>3. CASE Cancel(hold[p])
    BY <2>1, <2>2, <2>3, WithdrawIsStep
  <2>4. CASE Claimable(p, hold[p]) /\ Claim(p, hold[p])
    BY <1>0, <2>1, <2>4, ClaimIsSteady, SteadyRests
  <2>5. CASE UNCHANGED <<messages, digest, past>>
    <3>1. Steady
      BY <2>2, <2>5 DEF Steady, messages, digest, lease, job, past
    <3> QED
      BY <3>1, SteadyRests
  <2> QED
    BY <1>2, <2>3, <2>4, <2>5 DEF Check, Deliver
<1> QED
  BY <1>1, <1>2 DEF Pipeline

\* Every step is one of the outbox, message by message.
LEMMA StepOfMessage ==
    ASSUME LeaseOutlivesSend, Whole, Whole', Next, NEW m \in Messages
    PROVE  Abstract!Step(m) \/ Abstract!Rest(m)
<1>1. ASSUME NEW w \in Workers, Crash(w) PROVE Abstract!Step(m) \/ Abstract!Rest(m)
  <2>1. /\ UNCHANGED <<digested, status, owner, mailed, carried>> /\ ~Mailing(w)'
        /\ \A v \in Workers \ {w} : pc'[v] = pc[v] /\ hold'[v] = hold[v] /\ rows'[v] = rows[v]
        /\ doubt' = IF Mailing(w) THEN doubt \cup {hold[w]} ELSE doubt
    BY <1>1
    DEF Crash, Goto, Set, Mailing, messages, digest, lease, Whole, Kept, Typed, LocalTyped
  <2>2. CASE Mailing(w)
    BY <2>1, <2>2, StopIsStep
  <2>3. CASE ~Mailing(w)
    <3>1. Steady
      BY <2>1, <2>3 DEF Steady, Mailing
    <3> QED
      BY <3>1, SteadyRests
  <2> QED
    BY <2>2, <2>3
<1> QED
  BY <1>1, WorldIsSteady, SteadyRests, PipelineIsStep, SweepIsStep, SendIsStep DEF Next

LEMMA OutboxTyped == Whole => Abstract!TypeOK
<1>1. \A m : Stage(m) \in {"open", "trying", "taken", "closed"}
  BY DEF Stage
<1> QED
  BY <1>1 DEF Abstract!TypeOK, Abstract!Stages, Whole, Kept, Typed, StoredTyped

LEMMA InitIsOutbox == Init => Abstract!Init
<1> SUFFICES ASSUME Init PROVE Abstract!Init
  OBVIOUS
<1>1. \A m : Stage(m) = "open"
  BY DEF Init, Stage, InMail
<1> QED
  BY <1>1 DEF Init, Abstract!Init

\* If a delivery takes less than the lease, the pipelines, the retry and the cancel
\* command are together an outbox of messages (the claims, leases and releases of
\* db/repository.py): no message is in two mails at a time, a digested one never goes
\* out again, and one is mailed twice only if a mail that carried it was left in doubt.
THEOREM Refinement == LeaseOutlivesSend => (Spec => ImplementsOutbox)
<1> SUFFICES ASSUME LeaseOutlivesSend PROVE Spec => ImplementsOutbox
  OBVIOUS
<1>1. Init => Abstract!Init /\ Whole
  BY InitIsOutbox, WholeInit
<1>2. Whole /\ [Next]_vars => Whole'
  BY WholeKeeps
<1>3. Whole /\ Whole' /\ [Next]_vars => [Abstract!Next]_(Abstract!vars)
  <2> SUFFICES ASSUME Whole, Whole', [Next]_vars
               PROVE  [Abstract!Next]_(Abstract!vars)
    OBVIOUS
  <2>1. CASE Next
    <3>1. Abstract!TypeOK'
      BY OutboxTyped, PTL
    <3> QED
      BY <2>1, <3>1, StepOfMessage DEF Abstract!Next, Abstract!TypeOK
  <2>2. CASE UNCHANGED vars
    BY <2>2
    DEF vars, messages, digest, lease, job, local, past, Abstract!vars, Stage, InMail, Owned
  <2> QED
    BY <2>1, <2>2
<1> QED
  BY <1>1, <1>2, <1>3, PTL DEF Spec, ImplementsOutbox, Abstract!Spec

------------------------------------------------------------------------------
\* What the outbox promises, of mails.

\* A message that was mailed twice was in a mail whose outcome is not known.
MailedOnce == \A m \in Messages : mailed[m] > 1 => Doubtful(m)

\* One that is not in doubt was mailed once at most, and not at all while a mail may
\* still take it.
MailedIsOut ==
    \A m \in Messages : ~Doubtful(m) =>
        /\ mailed[m] <= 1
        /\ Stage(m) \in {"open", "trying"} => mailed[m] = 0

\* What is digested stays so, and is not mailed again.
DigestedStays ==
    \A m \in digested : m \in digested' /\ (~Doubtful(m) => mailed'[m] = mailed[m])

\* A step of the outbox leaves a message out of reach that is in no doubt after it.
LEMMA StepKeepsOut ==
    ASSUME NEW m \in Messages, Abstract!Step(m) \/ Abstract!Rest(m), ~Doubtful(m)',
           ~Doubtful(m) =>
             mailed[m] <= 1 /\ (Stage(m) \in {"open", "trying"} => mailed[m] = 0)
    PROVE  mailed'[m] <= 1 /\ (Stage(m)' \in {"open", "trying"} => mailed'[m] = 0)
<1> USE DEF Abstract!Moves, Abstract!Counted, Abstract!Uncounted, Abstract!Sure, Doubtful
<1>1. CASE Abstract!Try(m)
  BY <1>1 DEF Abstract!Try
<1>2. CASE Abstract!Take(m)
  BY <1>2 DEF Abstract!Take
<1>3. CASE Abstract!Refuse(m)
  BY <1>3 DEF Abstract!Refuse
<1>4. ~Abstract!Lose(m) /\ ~Abstract!Surface(m)
  BY DEF Abstract!Lose, Abstract!Surface
<1>5. CASE Abstract!Close(m)
  BY <1>5 DEF Abstract!Close
<1>6. CASE Abstract!Rest(m)
  BY <1>6 DEF Abstract!Rest
<1> QED
  BY <1>1, <1>2, <1>3, <1>4, <1>5, <1>6 DEF Abstract!Step

\* No step of the outbox leads back from closed.
LEMMA ClosedStays ==
    ASSUME NEW m \in Messages, Abstract!Step(m) \/ Abstract!Rest(m), Stage(m) = "closed"
    PROVE  Stage(m)' = "closed" /\ (~Doubtful(m) => mailed'[m] = mailed[m])
<1>1. ~Abstract!Try(m) /\ ~Abstract!Take(m) /\ ~Abstract!Refuse(m) /\ ~Abstract!Lose(m)
      /\ ~Abstract!Close(m)
  BY DEF Abstract!Try, Abstract!Take, Abstract!Refuse, Abstract!Lose, Abstract!Close,
         Abstract!Moves
<1>2. CASE Abstract!Surface(m)
  BY <1>2 DEF Abstract!Surface, Doubtful
<1>3. CASE Abstract!Rest(m)
  BY <1>3 DEF Abstract!Rest, Abstract!Uncounted
<1> QED
  BY <1>1, <1>2, <1>3 DEF Abstract!Step

\* If a delivery takes less than the lease, a message is in two mails only if the outcome
\* of one was lost: whatever workers release, claim, withdraw and build again, and
\* wherever they die (the claims and releases of db/repository.py).
THEOREM OnceUnlessInDoubt == LeaseOutlivesSend => (Spec => []MailedOnce)
<1> SUFFICES ASSUME LeaseOutlivesSend PROVE Spec => []MailedOnce
  OBVIOUS
<1>1. Init => Whole /\ MailedIsOut
  <2>1. Init => MailedIsOut
    BY DEF Init, MailedIsOut
  <2> QED
    BY <2>1, WholeInit
<1>2. Whole /\ [Next]_vars => Whole'
  BY WholeKeeps
<1>3. Whole /\ Whole' /\ MailedIsOut /\ [Next]_vars => MailedIsOut'
  <2> SUFFICES ASSUME Whole, Whole', MailedIsOut, [Next]_vars, NEW m \in Messages,
                      ~Doubtful(m)'
               PROVE  /\ mailed'[m] <= 1
                      /\ Stage(m)' \in {"open", "trying"} => mailed'[m] = 0
    BY DEF MailedIsOut
  <2>1. CASE Next
    <3>1. Abstract!Step(m) \/ Abstract!Rest(m)
      BY <2>1, StepOfMessage
    <3> QED
      BY <3>1, StepKeepsOut DEF MailedIsOut
  <2>2. CASE UNCHANGED vars
    <3>1. mailed' = mailed /\ Stage(m)' = Stage(m) /\ (Doubtful(m)' <=> Doubtful(m))
      BY <2>2
      DEF vars, messages, digest, lease, job, local, past, Stage, InMail, Owned, Doubtful
    <3> QED
      BY <3>1 DEF MailedIsOut
  <2> QED
    BY <2>1, <2>2
<1>4. Whole /\ MailedIsOut => MailedOnce
  <2>1. Whole => \A m \in Messages : mailed[m] \in 0..2
    BY DEF Whole, Kept, Typed, StoredTyped
  <2> QED
    BY <2>1 DEF MailedIsOut, MailedOnce
<1> QED
  BY <1>1, <1>2, <1>3, <1>4, PTL DEF Spec

\* If a delivery takes less than the lease, a message that is digested stays digested,
\* and unless it is in doubt it is in no later mail (finalize_digest_sent,
\* claim_digest_run_for_rows).
THEOREM DigestedForGood == LeaseOutlivesSend => (Spec => [][DigestedStays]_vars)
<1> SUFFICES ASSUME LeaseOutlivesSend PROVE Spec => [][DigestedStays]_vars
  OBVIOUS
<1>1. Init => Whole
  BY WholeInit
<1>2. Whole /\ [Next]_vars => Whole'
  BY WholeKeeps
<1>3. Whole /\ Whole' /\ [Next]_vars => [DigestedStays]_vars
  <2> SUFFICES ASSUME Whole, Whole', Next, NEW m \in digested
               PROVE  m \in digested' /\ (~Doubtful(m) => mailed'[m] = mailed[m])
    BY DEF DigestedStays
  <2>1. m \in Messages /\ Stage(m) = "closed"
    BY DEF Stage, Whole, Kept, Typed, StoredTyped
  <2>2. Abstract!Step(m) \/ Abstract!Rest(m)
    BY <2>1, StepOfMessage
  <2>3. Stage(m)' = "closed" /\ (~Doubtful(m) => mailed'[m] = mailed[m])
    BY <2>1, <2>2, ClosedStays
  <2>4. m \in digested'
    BY <2>3 DEF Stage
  <2> QED
    BY <2>3, <2>4
<1> QED
  BY <1>1, <1>2, <1>3, PTL DEF Spec
=============================================================================
