-------------------------- MODULE AlertOutboxProofs --------------------------
(***************************************************************************)
(* Proofs about AlertOutbox for any messages, ingesting threads, delays    *)
(* and lags.  The mutual exclusion of senders rests on one inequality,     *)
(* LeaseOutlivesSend: a claim cannot become stale while its owner may      *)
(* still be inside the transport.  The last section proves what the        *)
(* abstract outbox promises, of which AlertOutbox is one implementation.   *)
(***************************************************************************)
EXTENDS AlertOutbox, TLAPS

------------------------------------------------------------------------------
\* _backoff_minutes always picks one of the configured delays.
LEMMA BackoffType == \A n \in Nat : BackoffMinutes(n) \in Nat
BY ConstantsAssumption DEF BackoffMinutes, Smaller, Larger

\* The numeric constants, without the rest of the assumption.
LEMMA Numbers ==
    /\ StaleAfter \in Nat /\ StaleAfter > 0 /\ MaxSend \in Nat /\ Horizon \in Nat
    /\ StaleAfter <= Horizon /\ Len(Backoff) \in Nat /\ Len(Backoff) > 0
BY ConstantsAssumption

\* The initial states are well typed.
LEMMA InitType == Init => TypeOK
BY ConstantsAssumption
   DEF Init, TypeOK, MessagesOK, RowsOK, WorkOK, RunOK, HistoryOK, Workers,
       Cancellers, MessageStates, Statuses, Steps, InHand

\* What the two ways to leave a step do to a worker.
LEMMA WorkType ==
    ASSUME WorkOK, NEW w \in Workers
    PROVE  /\ Finish(w) => WorkOK'
           /\ \A step \in Steps :
                Continue(w, step) /\ (step \in InHand => pc[w] \in InHand) => WorkOK'
<1> w \in Workers \cup {Cli}
  OBVIOUS
<1>1. ASSUME Finish(w) PROVE WorkOK'
  BY <1>1, Numbers DEF WorkOK, Finish, Goto, Steps, InHand
<1>2. ASSUME NEW step \in Steps, Continue(w, step),
             step \in InHand => pc[w] \in InHand
      PROVE  WorkOK'
  BY <1>2 DEF WorkOK, Continue, Goto
<1>3. QED
  BY <1>1, <1>2

\* The writes of a claim and of a cancellation keep the rows in their types.
LEMMA RowsType ==
    ASSUME RowsOK, WorkOK
    PROVE  /\ \A w \in Workers, m \in Messages : ClaimPending(w, m) => RowsOK'
           /\ \A S \in SUBSET Messages : CancelRows(S) => RowsOK'
<1>1. ASSUME NEW w \in Workers, NEW m \in Messages, ClaimPending(w, m)
      PROVE  RowsOK'
  BY <1>1, ConstantsAssumption
     DEF RowsOK, WorkOK, ClaimPending, Statuses, Smaller
<1>2. ASSUME NEW S \in SUBSET Messages, CancelRows(S)
      PROVE  RowsOK'
  BY <1>2, ConstantsAssumption DEF RowsOK, CancelRows, Statuses
<1>3. QED
  BY <1>1, <1>2

\* A delivery keeps the count in 0..2, and raises it.
LEMMA DeliverType ==
    ASSUME HistoryOK, NEW m \in Messages, Deliver(m)
    PROVE  /\ accepted' \in [Messages -> 0..2]
           /\ accepted'[m] = Smaller(accepted[m] + 1, 2)
           /\ \A k \in Messages \ {m} : accepted'[k] = accepted[k]
<1>1. Smaller(accepted[m] + 1, 2) \in 0..2
  BY DEF HistoryOK, Smaller
<1>2. QED
  BY <1>1 DEF HistoryOK, Deliver

\* A row variable, the messages, the run and the history keep their types when
\* they do not change.
LEMMA SameType ==
    /\ MessagesOK /\ UNCHANGED <<message, alerted, ignored>> => MessagesOK'
    /\ RowsOK /\ UNCHANGED rows => RowsOK'
    /\ WorkOK /\ UNCHANGED work => WorkOK'
    /\ RunOK /\ UNCHANGED run => RunOK'
    /\ HistoryOK /\ UNCHANGED history => HistoryOK'
BY DEF MessagesOK, RowsOK, WorkOK, RunOK, HistoryOK, rows, work, run, history

\* Every step keeps every variable in its type.
LEMMA StepType == TypeOK /\ [Next]_vars => TypeOK'
<1> SUFFICES ASSUME TypeOK, [Next]_vars PROVE TypeOK'
  OBVIOUS
<1> USE DEF TypeOK
<1> Workers \subseteq Workers \cup {Cli} /\ Ingesters \subseteq Workers
    /\ Retrier \in Workers
  BY DEF Workers
<1>1. ASSUME NEW i \in Ingesters, NEW m \in Messages, Receive(i, m) PROVE TypeOK'
  <2>1. MessagesOK'
    BY <1>1 DEF Receive, MessagesOK, MessageStates
  <2>2. WorkOK'
    <3>1. PICK lag \in IF MentionOnly THEN {0} ELSE Lags :
              late' = [late EXCEPT ![i] = Smaller(lag, Horizon)]
      BY <1>1 DEF Receive
    <3>2. Smaller(lag, Horizon) \in 0..Horizon
      BY <3>1, ConstantsAssumption DEF Smaller
    <3>3. QED
      BY <1>1, <3>1, <3>2 DEF Receive, WorkOK, Goto, Steps, InHand
  <2>3. QED
    BY <1>1, <2>1, <2>2, SameType DEF Receive
<1>2. ASSUME NEW i \in Ingesters, Classify(i) PROVE TypeOK'
  <2>1. MessagesOK'
    BY <1>2 DEF Classify, MessagesOK, MessageStates
  <2>2. WorkOK'
    BY <1>2, WorkType DEF Classify, Steps, InHand
  <2>3. QED
    BY <1>2, <2>1, <2>2, SameType DEF Classify
<1>3. ASSUME NEW i \in Ingesters, CreateJob(i) PROVE TypeOK'
  <2>1. -late[i] \in Int
    BY Numbers DEF WorkOK
  <2>a. RowsOK'
    BY <1>3, <2>1 DEF CreateJob, RowsOK, Statuses
  <2>2. WorkOK'
    BY <1>3, WorkType DEF CreateJob, Steps, InHand
  <2>3. QED
    BY <1>3, <2>a, <2>2, SameType DEF CreateJob
<1>4. ASSUME NEW i \in Ingesters, ClaimFirst(i) PROVE TypeOK'
  <2>1. msg[i] \in Messages
    BY <1>4 DEF ClaimFirst, WorkOK, InHand
  <2>2. RowsOK' /\ WorkOK'
    BY <1>4, <2>1, WorkType, RowsType, SameType DEF ClaimFirst, Steps, InHand
  <2>3. QED
    BY <1>4, <2>2, SameType DEF ClaimFirst
<1>5. ASSUME NEW i \in Ingesters, FlagMessage(i) PROVE TypeOK'
  <2>1. MessagesOK'
    BY <1>5 DEF FlagMessage, MessagesOK, WorkOK, InHand
  <2>2. QED
    BY <1>5, <2>1, WorkType, SameType DEF FlagMessage
<1>6. ASSUME NEW w \in Workers, BeginSend(w) PROVE TypeOK'
  <2>1. msg[w] \in Messages
    BY <1>6 DEF BeginSend, WorkOK, InHand
  <2>2. RowsOK' /\ WorkOK'
    BY <1>6, <2>1, WorkType, RowsType, SameType DEF BeginSend, Steps, InHand
  <2>3. QED
    BY <1>6, <2>2, SameType DEF BeginSend
<1>7. ASSUME NEW w \in Workers, Accept(w) PROVE TypeOK'
  <2>1. HistoryOK'
    BY <1>7, DeliverType DEF Accept, HistoryOK, InHand, WorkOK
  <2>2. QED
    BY <1>7, <2>1, WorkType, SameType DEF Accept, Steps, InHand
<1>8. ASSUME NEW w \in Workers, Raise(w) PROVE TypeOK'
  <2>1. HistoryOK'
    BY <1>8, DeliverType DEF Raise, HistoryOK, history, InHand, WorkOK
  <2>2. QED
    BY <1>8, <2>1, WorkType, SameType DEF Raise, Steps, InHand
<1>9. ASSUME NEW w \in Workers, MarkSent(w) PROVE TypeOK'
  <2>1. RowsOK'
    <3>1. /\ status' = [status EXCEPT ![msg[w]] = "sent"]
          /\ token' = [token EXCEPT ![msg[w]] = NoWorker]
          /\ due' = [due EXCEPT ![msg[w]] = 0]
          /\ age' = [age EXCEPT ![msg[w]] = 0]
          /\ attempts' = attempts
      BY <1>9 DEF MarkSent
    <3>2. "sent" \in Statuses /\ 0 \in Int /\ 0 \in 0..StaleAfter
      BY Numbers DEF Statuses
    <3>3. QED
      BY <3>1, <3>2 DEF RowsOK
  <2>2. QED
    BY <1>9, <2>1, WorkType, SameType DEF MarkSent, Steps, InHand
<1>10. ASSUME NEW w \in Workers, MarkPending(w) PROVE TypeOK'
  <2>1. msg[w] \in Messages
    BY <1>10 DEF MarkPending, WorkOK, InHand
  <2>2. attempts[msg[w]] \in 0..Len(Backoff) /\ late[w] \in Nat
    BY <2>1, Numbers DEF RowsOK, WorkOK
  <2>a. attempts[msg[w]] + 1 \in Nat
    BY <2>2, Numbers
  <2>3. BackoffMinutes(attempts[msg[w]] + 1) \in Nat
    BY <2>a, BackoffType
  <2>4. RowsOK'
    BY <1>10, <2>1, <2>2, <2>3, Numbers
       DEF MarkPending, RowsOK, Statuses, Smaller
  <2>5. QED
    BY <1>10, <2>4, WorkType, SameType DEF MarkPending
<1>11. ASSUME StartRun PROVE TypeOK'
  <2>1. RowsOK'
    <3> DEFINE S == {m \in Messages : Allowed(m) /\ Stale(m)}
    <3>1. /\ status' = [m \in Messages |-> IF m \in S THEN "pending" ELSE status[m]]
          /\ token' = [m \in Messages |-> IF m \in S THEN NoWorker ELSE token[m]]
          /\ age' = [m \in Messages |-> IF m \in S THEN 0 ELSE age[m]]
          /\ UNCHANGED <<attempts, due>>
      BY <1>11 DEF StartRun
    <3> HIDE DEF S
    <3>2. QED
      BY <3>1, Numbers DEF RowsOK, Statuses
  <2>a. RunOK'
    BY <1>11 DEF StartRun, RunOK
  <2>2. QED
    BY <1>11, <2>1, <2>a, WorkType, SameType DEF StartRun, Steps, InHand
<1>12. ASSUME NEW c \in Cancellers, CancelRead(c) PROVE TypeOK'
  <2>1. RunOK'
    BY <1>12 DEF CancelRead, RunOK
  <2>2. WorkOK'
    BY <1>12, Numbers
       DEF CancelRead, WorkOK, Continue, Goto, Steps, InHand, Cancellers, Workers
  <2>3. QED
    BY <1>12, <2>1, <2>2, SameType DEF CancelRead
<1>13. ASSUME NEW c \in Cancellers, CancelCommit(c) PROVE TypeOK'
  <2>1. RunOK' /\ doomed[c] \in SUBSET Messages
    BY <1>13 DEF CancelCommit, RunOK
  <2>2. WorkOK'
    BY <1>13, Numbers
       DEF CancelCommit, WorkOK, Continue, Goto, Steps, InHand, Cancellers, Workers
  <2>3. RowsOK'
    BY <1>13, <2>1, RowsType DEF CancelCommit
  <2>4. QED
    BY <1>13, <2>1, <2>2, <2>3, SameType DEF CancelCommit
<1>14. ASSUME Select PROVE TypeOK'
  <2>1. RunOK'
    BY <1>14 DEF Select, RunOK
  <2>2. QED
    BY <1>14, <2>1, WorkType, SameType DEF Select, Steps, InHand
<1>15. ASSUME NEW m \in Messages, ClaimNext(m) PROVE TypeOK'
  <2>1. RunOK'
    BY <1>15 DEF ClaimNext, RunOK
  <2>2. RowsOK'
    BY <1>15, RowsType, SameType DEF ClaimNext
  <2>3. WorkOK'
    BY <1>15 DEF ClaimNext, WorkOK, Goto, Steps, InHand
  <2>4. QED
    BY <1>15, <2>1, <2>2, <2>3, SameType DEF ClaimNext
<1>16. ASSUME EndRun PROVE TypeOK'
  <2>1. WorkOK'
    BY <1>16, Numbers DEF EndRun, WorkOK, Goto, Steps, InHand
  <2>2. QED
    BY <1>16, <2>1, SameType DEF EndRun
<1>17. ASSUME NEW w \in Workers, Stop(w) PROVE TypeOK'
  <2>1. WorkOK'
    BY <1>17, Numbers DEF Stop, WorkOK, Steps, InHand
  <2>2. RunOK'
    BY <1>17 DEF Stop, RunOK
  <2>3. HistoryOK'
    BY <1>17 DEF Stop, HistoryOK
  <2>4. QED
    BY <1>17, <2>1, <2>2, <2>3, SameType DEF Stop
<1>18. ASSUME StopCli PROVE TypeOK'
  <2>1. WorkOK' /\ RunOK'
    BY <1>18, Numbers
       DEF StopCli, WorkOK, RunOK, Goto, Steps, InHand, Workers
  <2>2. QED
    BY <1>18, <2>1, SameType DEF StopCli, history
<1>19. ASSUME NEW m \in Messages, Cleanup(m) PROVE TypeOK'
  <2>1. MessagesOK'
    BY <1>19 DEF Cleanup, MessagesOK, MessageStates
  <2>2. QED
    BY <1>19, <2>1, SameType DEF Cleanup
<1>20. ASSUME NEW m \in Messages, EditIgnored(m) PROVE TypeOK'
  <2>1. MessagesOK'
    BY <1>20 DEF EditIgnored, MessagesOK
  <2>2. QED
    BY <1>20, <2>1, SameType DEF EditIgnored
<1>21. ASSUME Tick PROVE TypeOK'
  <2>1. RowsOK'
    BY <1>21, Numbers DEF Tick, RowsOK, Smaller, Larger
  <2>2. WorkOK'
    BY <1>21, Numbers DEF Tick, WorkOK, Smaller
  <2>3. RunOK'
    BY <1>21 DEF Tick, RunOK
  <2>4. QED
    BY <1>21, <2>1, <2>2, <2>3, SameType DEF Tick
<1>22. ASSUME UNCHANGED vars PROVE TypeOK'
  BY <1>22, SameType DEF vars
<1>23. QED
  BY <1>1, <1>2, <1>3, <1>4, <1>5, <1>6, <1>7, <1>8, <1>9, <1>10, <1>11, <1>12,
     <1>13, <1>14, <1>15, <1>16, <1>17, <1>18, <1>19, <1>20, <1>21, <1>22
     DEF Next, Work, Ingest, Transport, RetryRun, Command, Environment, Cancellers

\* The rows, the workers and the history stay within their types.
THEOREM TypeCorrect == Spec => []TypeOK
<1>1. Init => TypeOK
  BY InitType
<1>2. TypeOK /\ [Next]_vars => TypeOK'
  BY StepType
<1>3. QED
  BY <1>1, <1>2, PTL DEF Spec

------------------------------------------------------------------------------
\* A worker that finishes holds nothing afterwards, one that goes on holds what
\* it held if the new step is one of a holder; nobody else's hold changes.
LEMMA HoldsAfter ==
    ASSUME TypeOK, NEW w \in Workers
    PROVE  /\ Finish(w) =>
                \A v \in Workers, m \in Messages : Holds(v, m)' <=> Holds(v, m) /\ v # w
           /\ \A step \in Steps : Continue(w, step) =>
                \A v \in Workers, m \in Messages :
                  Holds(v, m)' <=> IF v = w THEN /\ msg[w] = m
                                                 /\ step \in {"claimed", "sending",
                                                              "accepted", "failed"}
                                   ELSE Holds(v, m)
<1> w \in Workers \cup {Cli}
  OBVIOUS
<1>1. Finish(w) =>
        \A v \in Workers, m \in Messages : Holds(v, m)' <=> Holds(v, m) /\ v # w
  BY DEF Finish, Goto, Holds, TypeOK, WorkOK
<1>2. ASSUME NEW step \in Steps, Continue(w, step), NEW v \in Workers, NEW m \in Messages
      PROVE  Holds(v, m)' <=> IF v = w THEN /\ msg[w] = m
                                            /\ step \in {"claimed", "sending",
                                                         "accepted", "failed"}
                              ELSE Holds(v, m)
  BY <1>2 DEF Continue, Goto, Holds, TypeOK, WorkOK
<1>3. QED
  BY <1>1, <1>2

\* No step lets an ingesting thread run late.
LEMMA StepInTime ==
    ASSUME LeaseOutlivesSend, TypeOK, InTime, [Next]_vars
    PROVE  InTime'
<1> USE Numbers DEF InTime, TypeOK, WorkOK, Steps, InHand
<1> Workers \subseteq Workers \cup {Cli} /\ Ingesters \subseteq Workers
    /\ Retrier \in Workers /\ Retrier \notin Ingesters /\ Cli \notin Ingesters
  BY ConstantsAssumption DEF Workers
<1>1. ASSUME NEW i \in Ingesters, NEW m \in Messages, Receive(i, m) PROVE InTime'
  <2>1. PICK lag \in IF MentionOnly THEN {0} ELSE Lags :
            late' = [late EXCEPT ![i] = Smaller(lag, Horizon)]
    BY <1>1 DEF Receive
  <2>2. Smaller(lag, Horizon) \in Nat /\ Smaller(lag, Horizon) + MaxSend < StaleAfter
    BY <2>1, ConstantsAssumption DEF LeaseOutlivesSend, Smaller
  <2>3. QED
    BY <1>1, <2>1, <2>2 DEF Receive, Goto
<1>2. ASSUME NEW i \in Ingesters, Ingest(i), \A m \in Messages : ~Receive(i, m)
      PROVE  InTime'
  BY <1>2 DEF Ingest, Classify, CreateJob, ClaimFirst, FlagMessage, Finish, Continue, Goto
<1>3. ASSUME NEW w \in Workers, Transport(w) PROVE InTime'
  <2>1. \/ Finish(w)
        \/ pc[w] = "claimed" /\ Continue(w, "sending")
        \/ pc[w] = "sending" /\ (Continue(w, "accepted") \/ Continue(w, "failed"))
        \/ pc[w] = "accepted" /\ Continue(w, "delivered")
    BY <1>3 DEF Transport, BeginSend, Accept, Raise, MarkSent, MarkPending
  <2>2. CASE Finish(w)
    BY <2>2 DEF Finish, Goto
  <2>3. CASE pc[w] = "claimed" /\ Continue(w, "sending")
    BY <2>3 DEF Continue, Goto
  <2>4. CASE pc[w] = "sending" /\ (Continue(w, "accepted") \/ Continue(w, "failed"))
    BY <2>4 DEF Continue, Goto
  <2>5. CASE pc[w] = "accepted" /\ Continue(w, "delivered")
    BY <2>5 DEF Continue, Goto
  <2>6. QED
    BY <2>1, <2>2, <2>3, <2>4, <2>5
<1>4. ASSUME RetryRun PROVE InTime'
  BY <1>4 DEF RetryRun, StartRun, CancelRead, CancelCommit, Select, EndRun, ClaimNext,
              Continue, Goto
<1>5. ASSUME Command PROVE InTime'
  BY <1>5 DEF Command, CancelRead, CancelCommit, StopCli, Continue, Goto
<1>6. ASSUME NEW w \in Workers, Stop(w) PROVE InTime'
  BY <1>6 DEF Stop
<1>7. ASSUME Tick PROVE InTime'
  BY <1>7 DEF Tick, Smaller
<1>8. ASSUME UNCHANGED work PROVE InTime'
  BY <1>8 DEF work
<1>9. QED
  BY <1>1, <1>2, <1>3, <1>4, <1>5, <1>6, <1>7, <1>8
     DEF Next, Work, Environment, Cleanup, EditIgnored, vars

\* What the three conjuncts about holders need of a step that leaves the holders
\* or shrinks them, and touches no row that is held.
Mild ==
    \A w \in Workers, m \in Messages :
        Holds(w, m)' => /\ Holds(w, m)
                        /\ status'[m] = status[m] \/ status'[m] = "cancelled"
                        /\ token'[m] = token[m] \/ status'[m] = "cancelled"
                        /\ token'[m] \in {token[m], NoWorker}
                        /\ w \in Ingesters => age'[m] <= age[m] /\ late'[w] = late[w]

\* Such a step keeps ClaimAge, ClaimsAreKept and OneSender.
LEMMA MildStep ==
    ASSUME TypeOK, TypeOK', ClaimInv, Mild
    PROVE  ClaimAge' /\ ClaimsAreKept' /\ OneSender'
<1>1. ClaimAge'
  <2> SUFFICES ASSUME NEW i \in Ingesters, NEW m \in Messages,
                      Holds(i, m)', token'[m] = i
               PROVE  age'[m] <= late'[i]
    BY DEF ClaimAge
  <2>1. Holds(i, m) /\ token[m] = i /\ age'[m] <= age[m] /\ late'[i] = late[i]
    BY ConstantsAssumption DEF Mild, Workers
  <2>2. age[m] <= late[i]
    BY <2>1 DEF ClaimInv, ClaimAge
  <2>3. age[m] \in Nat /\ age'[m] \in Nat /\ late[i] \in Nat
    BY Numbers DEF TypeOK, RowsOK, WorkOK, Workers
  <2>4. QED
    BY <2>1, <2>2, <2>3
<1>2. ClaimsAreKept'
  BY DEF Mild, ClaimInv, ClaimsAreKept
<1>3. OneSender'
  BY DEF Mild, ClaimInv, OneSender
<1>4. QED
  BY <1>1, <1>2, <1>3

\* Cancelling any rows, and clearing their instants, is mild.
LEMMA CancelIsMild ==
    ASSUME TypeOK, NEW S \in SUBSET Messages, CancelRows(S),
           \A w \in Workers, m \in Messages : Holds(w, m)' => Holds(w, m),
           \A i \in Ingesters, m \in Messages : Holds(i, m)' => late'[i] = late[i]
    PROVE  Mild
<1>1. \A m \in Messages :
        /\ status'[m] = status[m] \/ status'[m] = "cancelled"
        /\ token'[m] = token[m] \/ status'[m] = "cancelled"
        /\ token'[m] \in {token[m], NoWorker}
        /\ age'[m] <= age[m]
  BY Numbers DEF CancelRows, TypeOK, RowsOK
<1>2. QED
  BY <1>1 DEF Mild

\* A claim: the row was pending, so nobody held it.
LEMMA ClaimStep ==
    ASSUME TypeOK, TypeOK', ClaimInv, NEW w \in Workers, NEW m \in Messages,
           Claimable(w, m), ClaimPending(w, m), late' = late,
           \A v \in Workers, n \in Messages :
               Holds(v, n)' => IF v = w THEN n = m ELSE Holds(v, n)
    PROVE  ClaimAge' /\ ClaimsAreKept' /\ OneSender'
<1>1. \A v \in Workers : ~Holds(v, m)
  BY DEF Claimable, ClaimInv, ClaimsAreKept
<1>2. /\ status' = [status EXCEPT ![m] = "sending"]
      /\ token' = [token EXCEPT ![m] = w]
      /\ age' = [age EXCEPT ![m] = Smaller(late[w], StaleAfter)]
  BY DEF ClaimPending
<1>3. Smaller(late[w], StaleAfter) <= late[w]
  BY Numbers DEF TypeOK, WorkOK, Smaller
<1>4. ClaimAge'
  <2> SUFFICES ASSUME NEW i \in Ingesters, NEW n \in Messages,
                      Holds(i, n)', token'[n] = i
               PROVE  age'[n] <= late'[i]
    BY DEF ClaimAge
  <2> i \in Workers
    BY DEF Workers
  <2>1. CASE i = w
    BY <2>1, <1>2, <1>3 DEF TypeOK, RowsOK
  <2>2. CASE i # w
    <3>1. Holds(i, n) /\ n # m
      BY <2>2, <1>1
    <3>2. token[n] = i /\ age'[n] = age[n]
      BY <3>1, <1>2 DEF TypeOK, RowsOK
    <3>3. QED
      BY <3>1, <3>2 DEF ClaimInv, ClaimAge
  <2>3. QED
    BY <2>1, <2>2
<1>5. ClaimsAreKept'
  BY <1>1, <1>2 DEF ClaimInv, ClaimsAreKept, TypeOK, RowsOK
<1>6. OneSender'
  BY <1>1 DEF ClaimInv, OneSender
<1>7. QED
  BY <1>4, <1>5, <1>6

\* No claim of an ingesting thread at work is stale.
LEMMA HeldIsNotStale ==
    ASSUME TypeOK, ClaimInv, NEW i \in Ingesters, NEW m \in Messages,
           Holds(i, m), token[m] = i
    PROVE  ~Stale(m)
<1>1. /\ i \in Workers /\ late[i] \in Nat /\ spent[i] \in 0..MaxSend
      /\ age[m] \in 0..StaleAfter
  BY DEF TypeOK, WorkOK, RowsOK, Workers
<1>2. age[m] <= late[i]
  BY DEF ClaimInv, ClaimAge
<1>3. late[i] < StaleAfter
  BY <1>1, Numbers DEF ClaimInv, InTime, Holds
<1>4. QED
  BY <1>1, <1>2, <1>3, Numbers DEF Stale

\* A step that leaves the rows and the late values alone, and gives no worker a
\* new hold, is mild.
LEMMA StillIsMild ==
    ASSUME TypeOK, UNCHANGED <<status, token, age>>,
           \A w \in Workers, m \in Messages :
               Holds(w, m)' => Holds(w, m) /\ (w \in Ingesters => late'[w] = late[w])
    PROVE  Mild
BY Numbers DEF Mild, TypeOK, RowsOK

\* Every step keeps whoever is at work on a job the owner of its row.
LEMMA StepClaim ==
    ASSUME LeaseOutlivesSend, TypeOK, ClaimInv, [Next]_vars
    PROVE  ClaimInv'
<1> TypeOK'
  BY StepType
<1> InTime'
  BY StepInTime DEF ClaimInv
<1> SUFFICES ClaimAge' /\ ClaimsAreKept' /\ OneSender'
  BY DEF ClaimInv
<1> Workers \subseteq Workers \cup {Cli} /\ Ingesters \subseteq Workers
    /\ Retrier \in Workers /\ Retrier \notin Ingesters /\ Cli \notin Workers
  BY ConstantsAssumption DEF Workers
<1> USE DEF Steps, InHand
<1>1. ASSUME NEW i \in Ingesters, NEW m \in Messages, Receive(i, m) PROVE Mild
  <2>1. \A w \in Workers, n \in Messages :
          Holds(w, n)' => Holds(w, n) /\ late'[w] = late[w]
    BY <1>1 DEF Receive, Goto, Holds, TypeOK, WorkOK
  <2>2. QED
    BY <1>1, <2>1, StillIsMild DEF Receive, rows
<1>2. ASSUME NEW i \in Ingesters, Classify(i) PROVE Mild
  <2>1. \A w \in Workers, n \in Messages :
          Holds(w, n)' => Holds(w, n) /\ late'[w] = late[w]
    BY <1>2 DEF Classify, Finish, Continue, Goto, Holds, TypeOK, WorkOK
  <2>2. QED
    BY <1>2, <2>1, StillIsMild DEF Classify, rows
<1>3. ASSUME NEW i \in Ingesters, CreateJob(i) PROVE Mild
  <2>1. \A w \in Workers, n \in Messages :
          Holds(w, n)' => Holds(w, n) /\ late'[w] = late[w]
    BY <1>3 DEF CreateJob, Finish, Continue, Goto, Holds, TypeOK, WorkOK
  <2>2. \A n \in Messages : status'[n] = status[n] \/ status[n] = "none"
    BY <1>3 DEF CreateJob, TypeOK, RowsOK
  <2>3. \A w \in Workers, n \in Messages : Holds(w, n) => status[n] # "none"
    BY DEF ClaimInv, ClaimsAreKept
  <2>4. QED
    BY <1>3, <2>1, <2>2, <2>3, Numbers DEF CreateJob, Mild, TypeOK, RowsOK
<1>4. ASSUME NEW i \in Ingesters, ClaimFirst(i)
      PROVE  ClaimAge' /\ ClaimsAreKept' /\ OneSender'
  <2>1. msg[i] \in Messages /\ pc[i] = "created"
    BY <1>4 DEF ClaimFirst, TypeOK, WorkOK
  <2>2. CASE CancelRows({msg[i]}) /\ Finish(i)
    <3>1. \A w \in Workers, n \in Messages :
            Holds(w, n)' => Holds(w, n) /\ late'[w] = late[w]
      BY <2>2, ConstantsAssumption DEF Finish, Goto, Holds, TypeOK, WorkOK
    <3>2. QED
      BY <2>1, <2>2, <3>1, CancelIsMild, MildStep
  <2>3. CASE /\ Claimable(i, msg[i]) /\ ClaimPending(i, msg[i])
             /\ Continue(i, "claimed")
    <3>1. late' = late
      BY <2>3 DEF Continue
    <3>2. \A v \in Workers, n \in Messages :
            Holds(v, n)' => IF v = i THEN n = msg[i] ELSE Holds(v, n)
      BY <2>3, HoldsAfter
    <3>3. QED
      BY <2>1, <2>3, <3>1, <3>2, ClaimStep
  <2>4. CASE Finish(i) /\ UNCHANGED rows
    <3>1. \A w \in Workers, n \in Messages :
            Holds(w, n)' => Holds(w, n) /\ late'[w] = late[w]
      BY <2>4, ConstantsAssumption DEF Finish, Goto, Holds, TypeOK, WorkOK
    <3>2. QED
      BY <2>4, <3>1, StillIsMild, MildStep DEF rows
  <2>5. QED
    BY <1>4, <2>2, <2>3, <2>4 DEF ClaimFirst
<1>5. ASSUME NEW i \in Ingesters, FlagMessage(i) PROVE Mild
  <2>1. \A w \in Workers, n \in Messages :
          Holds(w, n)' => Holds(w, n) /\ late'[w] = late[w]
    BY <1>5, ConstantsAssumption DEF FlagMessage, Finish, Goto, Holds, TypeOK, WorkOK
  <2>2. QED
    BY <1>5, <2>1, StillIsMild DEF FlagMessage, rows
<1>6. ASSUME NEW w \in Workers, BeginSend(w) PROVE Mild
  <2>1. msg[w] \in Messages /\ pc[w] = "claimed"
    BY <1>6 DEF BeginSend, TypeOK, WorkOK
  <2>2. \A v \in Workers, n \in Messages :
          Holds(v, n)' => Holds(v, n) /\ (v \in Ingesters => late'[v] = late[v])
    BY <1>6, <2>1 DEF BeginSend, Finish, Continue, Goto, Holds, TypeOK, WorkOK
  <2>3. CASE CancelRows({msg[w]})
    BY <2>1, <2>2, <2>3, CancelIsMild
  <2>4. CASE UNCHANGED rows
    BY <2>2, <2>4, StillIsMild DEF rows
  <2>5. QED
    BY <1>6, <2>3, <2>4 DEF BeginSend
<1>7. ASSUME NEW w \in Workers, Accept(w) \/ Raise(w) PROVE Mild
  <2>1. \A v \in Workers, n \in Messages :
          Holds(v, n)' => Holds(v, n) /\ late'[v] = late[v]
    BY <1>7 DEF Accept, Raise, Continue, Goto, Holds, TypeOK, WorkOK
  <2>2. QED
    BY <1>7, <2>1, StillIsMild DEF Accept, Raise, rows
<1>8. ASSUME NEW w \in Workers, MarkSent(w) \/ MarkPending(w) PROVE Mild
  <2>1. msg[w] \in Messages /\ Holds(w, msg[w])
    BY <1>8 DEF MarkSent, MarkPending, Holds, TypeOK, WorkOK
  <2>2. \A v \in Workers, n \in Messages :
          Holds(v, n)' => /\ Holds(v, n) /\ v # w
                          /\ v \in Ingesters => late'[v] = late[v]
    BY <1>8, <2>1
       DEF MarkSent, MarkPending, Finish, Continue, Goto, Holds, TypeOK, WorkOK
  <2>3. \A v \in Workers, n \in Messages : Holds(v, n)' => n # msg[w]
    BY <2>1, <2>2 DEF ClaimInv, OneSender
  <2>4. \A n \in Messages : n # msg[w] =>
          status'[n] = status[n] /\ token'[n] = token[n] /\ age'[n] = age[n]
    BY <1>8 DEF MarkSent, MarkPending, TypeOK, RowsOK
  <2>5. \A n \in Messages : age[n] \in Nat
    BY Numbers DEF TypeOK, RowsOK
  <2>6. QED
    BY <2>2, <2>3, <2>4, <2>5 DEF Mild
<1>9. ASSUME StartRun PROVE Mild
  <2>1. \A w \in Workers, n \in Messages : Holds(w, n)' => Holds(w, n) /\ w # Retrier
    BY <1>9 DEF StartRun, Continue, Goto, Holds, TypeOK, WorkOK
  <2>2. \A w \in Workers, n \in Messages : Holds(w, n)' => ~Stale(n)
    <3> SUFFICES ASSUME NEW w \in Workers, NEW n \in Messages, Holds(w, n)'
                 PROVE  ~Stale(n)
      OBVIOUS
    <3>1. w \in Ingesters /\ Holds(w, n)
      BY <2>1 DEF Workers
    <3>2. CASE token[n] = w
      BY <3>1, <3>2, HeldIsNotStale
    <3>3. CASE status[n] = "cancelled"
      BY <3>3 DEF Stale
    <3>4. QED
      BY <3>1, <3>2, <3>3 DEF ClaimInv, ClaimsAreKept
  <2>3. \A n \in Messages : ~Stale(n) =>
          status'[n] = status[n] /\ token'[n] = token[n] /\ age'[n] = age[n]
    BY <1>9 DEF StartRun
  <2>4. \A n \in Messages : age[n] \in Nat
    BY Numbers DEF TypeOK, RowsOK
  <2>5. late' = late
    BY <1>9 DEF StartRun, Continue
  <2>6. QED
    BY <2>1, <2>2, <2>3, <2>4, <2>5 DEF Mild
<1>10. ASSUME NEW c \in Cancellers, CancelRead(c) PROVE Mild
  <2>1. \A w \in Workers, n \in Messages :
          Holds(w, n)' => Holds(w, n) /\ late'[w] = late[w]
    BY <1>10 DEF CancelRead, Continue, Goto, Holds, TypeOK, WorkOK, Cancellers
  <2>2. QED
    BY <1>10, <2>1, StillIsMild DEF CancelRead, rows
<1>11. ASSUME NEW c \in Cancellers, CancelCommit(c) PROVE Mild
  <2>1. \A w \in Workers, n \in Messages :
          Holds(w, n)' => Holds(w, n) /\ late'[w] = late[w]
    BY <1>11 DEF CancelCommit, Continue, Goto, Holds, TypeOK, WorkOK, Cancellers
  <2>2. doomed[c] \in SUBSET Messages /\ CancelRows(doomed[c])
    BY <1>11 DEF CancelCommit, TypeOK, RunOK
  <2>3. QED
    BY <2>1, <2>2, CancelIsMild
<1>12. ASSUME Select \/ EndRun PROVE Mild
  <2>1. \A w \in Workers, n \in Messages :
          Holds(w, n)' => Holds(w, n) /\ (w \in Ingesters => late'[w] = late[w])
    BY <1>12 DEF Select, EndRun, Continue, Goto, Holds, TypeOK, WorkOK
  <2>2. QED
    BY <1>12, <2>1, StillIsMild DEF Select, EndRun, rows
<1>13. ASSUME NEW m \in Messages, ClaimNext(m)
       PROVE  ClaimAge' /\ ClaimsAreKept' /\ OneSender'
  <2>1. CASE Claimable(Retrier, m)
    <3>1. /\ ClaimPending(Retrier, m) /\ late' = late
          /\ msg' = [msg EXCEPT ![Retrier] = m]
          /\ pc' = [pc EXCEPT ![Retrier] = "claimed"]
      BY <1>13, <2>1 DEF ClaimNext, Goto
    <3>2. \A v \in Workers, n \in Messages :
            Holds(v, n)' => IF v = Retrier THEN n = m ELSE Holds(v, n)
      BY <3>1 DEF Holds, TypeOK, WorkOK
    <3>3. QED
      BY <2>1, <3>1, <3>2, ClaimStep
  <2>2. CASE ~Claimable(Retrier, m)
    <3>1. UNCHANGED <<rows, msg, pc, late>>
      BY <1>13, <2>2 DEF ClaimNext
    <3>2. QED
      BY <3>1, StillIsMild, MildStep DEF rows, Holds
  <2>3. QED
    BY <2>1, <2>2
<1>14. ASSUME NEW w \in Workers, Stop(w) PROVE Mild
  <2>1. \A v \in Workers, n \in Messages :
          Holds(v, n)' => Holds(v, n) /\ late'[v] = late[v]
    BY <1>14 DEF Stop, Holds, TypeOK, WorkOK
  <2>2. QED
    BY <1>14, <2>1, StillIsMild DEF Stop, rows
<1>15. ASSUME StopCli PROVE Mild
  <2>1. \A v \in Workers, n \in Messages :
          Holds(v, n)' => Holds(v, n) /\ late'[v] = late[v]
    BY <1>15 DEF StopCli, Goto, Holds, TypeOK, WorkOK
  <2>2. QED
    BY <1>15, <2>1, StillIsMild DEF StopCli, rows
<1>16. ASSUME Tick PROVE ClaimAge' /\ ClaimsAreKept' /\ OneSender'
  <2>1. \A w \in Workers, n \in Messages : Holds(w, n)' <=> Holds(w, n)
    BY <1>16 DEF Tick, Holds
  <2>2. ClaimAge'
    <3> SUFFICES ASSUME NEW i \in Ingesters, NEW n \in Messages,
                        Holds(i, n)', token'[n] = i
                 PROVE  age'[n] <= late'[i]
      BY DEF ClaimAge
    <3>1. Holds(i, n) /\ token[n] = i
      BY <1>16, <2>1 DEF Tick
    <3>2. age[n] <= late[i]
      BY <3>1 DEF ClaimInv, ClaimAge
    <3>3. pc[i] = "sending"
      BY <1>16, <3>1 DEF Tick, Holds
    <3>4. late'[i] = Smaller(late[i] + 1, Horizon)
      BY <1>16, <3>3 DEF Tick
    <3>5. age'[n] = age[n] \/ age'[n] = Smaller(age[n] + 1, StaleAfter)
      BY <1>16 DEF Tick
    <3>6. age[n] \in 0..StaleAfter /\ late[i] \in 0..Horizon
      BY DEF TypeOK, RowsOK, WorkOK
    <3>7. QED
      BY <3>2, <3>4, <3>5, <3>6, Numbers DEF Smaller
  <2>3. ClaimsAreKept' /\ OneSender'
    BY <1>16, <2>1 DEF Tick, ClaimInv, ClaimsAreKept, OneSender
  <2>4. QED
    BY <2>2, <2>3
<1>17. ASSUME UNCHANGED <<rows, work>> PROVE Mild
  BY <1>17, StillIsMild DEF rows, work, Holds
<1>18. ASSUME NEW m \in Messages, Cleanup(m) \/ EditIgnored(m) PROVE Mild
  BY <1>17, <1>18 DEF Cleanup, EditIgnored
<1>19. ASSUME UNCHANGED vars PROVE Mild
  BY <1>17, <1>19 DEF vars
<1>20. QED
  BY <1>1, <1>2, <1>3, <1>4, <1>5, <1>6, <1>7, <1>8, <1>9, <1>10, <1>11, <1>12,
     <1>13, <1>14, <1>15, <1>16, <1>18, <1>19, MildStep
     DEF Next, Work, Ingest, Transport, RetryRun, Command, Environment, Cancellers

\* Nobody is at work in the beginning.
LEMMA InitClaim == Init => ClaimInv
BY DEF Init, ClaimInv, InTime, ClaimAge, ClaimsAreKept, OneSender, Holds, Workers

\* For every number of ingesting threads and messages: if the longest send fits
\* into the lease, the row of a job at work still belongs to its worker.
THEOREM ClaimsKept == LeaseOutlivesSend => (Spec => []ClaimsAreKept)
<1> SUFFICES ASSUME LeaseOutlivesSend PROVE Spec => []ClaimsAreKept
  OBVIOUS
<1>1. Init => ClaimInv
  BY InitClaim
<1>2. TypeOK /\ ClaimInv /\ [Next]_vars => ClaimInv'
  BY StepClaim
<1>3. ClaimInv => ClaimsAreKept
  BY DEF ClaimInv
<1>4. QED
  BY <1>1, <1>2, <1>3, TypeCorrect, PTL DEF Spec

\* Under the same condition a claimed job has one sender.
THEOREM SingleSender == LeaseOutlivesSend => (Spec => []OneSender)
<1> SUFFICES ASSUME LeaseOutlivesSend PROVE Spec => []OneSender
  OBVIOUS
<1>1. Init => ClaimInv
  BY InitClaim
<1>2. TypeOK /\ ClaimInv /\ [Next]_vars => ClaimInv'
  BY StepClaim
<1>3. ClaimInv => OneSender
  BY DEF ClaimInv
<1>4. QED
  BY <1>1, <1>2, <1>3, TypeCorrect, PTL DEF Spec

------------------------------------------------------------------------------
SentStays == \A m \in Messages : status[m] = "sent" => status'[m] \in {"sent", "cancelled"}

\* A step takes a row out of "sent" only to cancel it: a worker whose send
\* failed still owned the row, so the row was not "sent".
LEMMA StepSent ==
    ASSUME TypeOK, ClaimInv, [Next]_vars
    PROVE  SentStays
<1>1. \A m \in Messages : \A w \in Workers : ~(Claimable(w, m) /\ status[m] = "sent")
  BY DEF Claimable
<1>2. ASSUME NEW S \in SUBSET Messages, CancelRows(S) PROVE SentStays
  BY <1>2 DEF CancelRows, SentStays
<1>3. ASSUME NEW w \in Workers, NEW m \in Messages, Claimable(w, m), ClaimPending(w, m)
      PROVE  SentStays
  BY <1>1, <1>3 DEF ClaimPending, SentStays, TypeOK, RowsOK
<1>4. ASSUME status' = status PROVE SentStays
  BY <1>4 DEF SentStays
<1>5. ASSUME NEW i \in Ingesters, Ingest(i) PROVE SentStays
  <2>1. CASE ClaimFirst(i)
    <3>1. msg[i] \in Messages /\ i \in Workers
      BY <2>1 DEF ClaimFirst, TypeOK, WorkOK, InHand, Workers
    <3>2. QED
      BY <2>1, <3>1, <1>2, <1>3, <1>4 DEF ClaimFirst, rows
  <2>2. CASE CreateJob(i)
    BY <2>2 DEF CreateJob, SentStays, TypeOK, RowsOK
  <2>3. CASE ~ClaimFirst(i) /\ ~CreateJob(i)
    BY <1>5, <2>3, <1>4 DEF Ingest, Receive, Classify, FlagMessage, rows
  <2>4. QED
    BY <2>1, <2>2, <2>3
<1>6. ASSUME NEW w \in Workers, Transport(w) PROVE SentStays
  <2>1. CASE BeginSend(w)
    <3>1. msg[w] \in Messages
      BY <2>1 DEF BeginSend, TypeOK, WorkOK, InHand
    <3>2. QED
      BY <2>1, <3>1, <1>2, <1>4 DEF BeginSend, rows
  <2>2. CASE Accept(w) \/ Raise(w)
    BY <2>2, <1>4 DEF Accept, Raise, rows
  <2>3. CASE MarkSent(w)
    BY <2>3 DEF MarkSent, SentStays, TypeOK, RowsOK
  <2>4. CASE MarkPending(w)
    <3>1. msg[w] \in Messages /\ Holds(w, msg[w])
      BY <2>4 DEF MarkPending, Holds, TypeOK, WorkOK, InHand
    <3>2. status[msg[w]] # "sent"
      BY <3>1 DEF ClaimInv, ClaimsAreKept
    <3>3. QED
      BY <2>4, <3>2 DEF MarkPending, SentStays, TypeOK, RowsOK
  <2>5. QED
    BY <1>6, <2>1, <2>2, <2>3, <2>4 DEF Transport
<1>7. ASSUME NEW c \in Cancellers, CancelRead(c) \/ CancelCommit(c) PROVE SentStays
  <2>1. doomed[c] \in SUBSET Messages
    BY DEF TypeOK, RunOK
  <2>2. QED
    BY <1>7, <2>1, <1>2, <1>4 DEF CancelRead, CancelCommit, rows
<1>8. ASSUME RetryRun PROVE SentStays
  <2>1. CASE StartRun
    BY <2>1 DEF StartRun, Stale, SentStays
  <2>2. ASSUME NEW m \in Messages, ClaimNext(m) PROVE SentStays
    BY <2>2, <1>3, <1>4 DEF ClaimNext, rows, Workers
  <2>3. QED
    BY <1>8, <2>1, <2>2, <1>4, <1>7 DEF RetryRun, Select, EndRun, rows, Cancellers
<1>9. ASSUME Command PROVE SentStays
  BY <1>9, <1>4, <1>7 DEF Command, StopCli, rows, Cancellers
<1>10. ASSUME Environment \/ UNCHANGED vars PROVE SentStays
  BY <1>10, <1>4 DEF Environment, Stop, Cleanup, EditIgnored, Tick, rows, vars
<1>11. QED
  BY <1>5, <1>6, <1>8, <1>9, <1>10 DEF Next, Work

\* Under the same condition no mail that went out is queued again, although
\* both outcomes of a send overwrite the row unconditionally.
THEOREM SentForGood == LeaseOutlivesSend => (Spec => SentIsFinal)
<1> SUFFICES ASSUME LeaseOutlivesSend PROVE Spec => SentIsFinal
  OBVIOUS
<1>1. Init => ClaimInv
  BY InitClaim
<1>2. TypeOK /\ ClaimInv /\ [Next]_vars => ClaimInv'
  BY StepClaim
<1>3. TypeOK /\ ClaimInv /\ [Next]_vars
        => [\A m \in Messages :
              status[m] = "sent" => status'[m] \in {"sent", "cancelled"}]_vars
  BY StepSent DEF SentStays
<1>4. QED
  BY <1>1, <1>2, <1>3, TypeCorrect, PTL DEF Spec, SentIsFinal

------------------------------------------------------------------------------
\* Legacy rows stay unproven: nothing classifies their message, and whoever
\* claims one turns back before the transport.
LEMMA StepLegacy ==
    ASSUME TypeOK, LegacyInv, [Next]_vars
    PROVE  LegacyInv'
<1> USE ConstantsAssumption DEF LegacyInv
<1> Ingesters \subseteq Workers /\ Retrier \in Workers /\ Legacy \subseteq Messages
  BY DEF Workers
<1>1. ASSUME NEW i \in Ingesters, Ingest(i) PROVE LegacyInv'
  <2>1. msg'[i] \notin Legacy
    BY <1>1 DEF Ingest, Receive, Classify, CreateJob, ClaimFirst, FlagMessage, Finish,
                Continue, TypeOK, WorkOK
  <2>2. \A w \in Workers : w # i => msg'[w] = msg[w] /\ pc'[w] = pc[w]
    BY <1>1 DEF Ingest, Receive, Classify, CreateJob, ClaimFirst, FlagMessage, Finish,
                Continue, Goto, TypeOK, WorkOK
  <2>3. \A m \in Legacy : message'[m] = message[m] /\ accepted'[m] = accepted[m]
    BY <1>1 DEF Ingest, Receive, Classify, CreateJob, ClaimFirst, FlagMessage, history,
                TypeOK, MessagesOK
  <2>4. QED
    BY <2>1, <2>2, <2>3
<1>2. ASSUME NEW w \in Workers, Transport(w) PROVE LegacyInv'
  <2>1. \A v \in Workers : v # w => msg'[v] = msg[v] /\ pc'[v] = pc[v]
    BY <1>2 DEF Transport, BeginSend, Accept, Raise, MarkSent, MarkPending, Finish,
                Continue, Goto, TypeOK, WorkOK
  <2>2. msg'[w] \notin Legacy
    <3>1. CASE BeginSend(w)
      BY <3>1 DEF BeginSend, RetrySafe, Finish, Continue, Goto, TypeOK, WorkOK
    <3>2. CASE ~BeginSend(w)
      BY <1>2, <3>2 DEF Transport, Accept, Raise, MarkSent, MarkPending, Finish, Continue,
                        TypeOK, WorkOK
    <3>3. QED
      BY <3>1, <3>2
  <2>3. message' = message
    BY <1>2 DEF Transport, BeginSend, Accept, Raise, MarkSent, MarkPending
  <2>4. \A m \in Legacy : accepted'[m] = accepted[m]
    BY <1>2 DEF Transport, BeginSend, Accept, Raise, MarkSent, MarkPending, history,
                Deliver, TypeOK, HistoryOK
  <2>5. QED
    BY <2>1, <2>2, <2>3, <2>4
<1>3. ASSUME RetryRun PROVE LegacyInv'
  BY <1>3 DEF RetryRun, StartRun, CancelRead, CancelCommit, Select, EndRun, ClaimNext,
              Continue, Goto, history, TypeOK, WorkOK
<1>4. ASSUME Command PROVE LegacyInv'
  BY <1>4 DEF Command, CancelRead, CancelCommit, StopCli, Continue, Goto, history,
              TypeOK, WorkOK, Workers
<1>5. ASSUME Environment PROVE LegacyInv'
  BY <1>5 DEF Environment, Stop, Cleanup, EditIgnored, Tick, history, work, TypeOK,
              WorkOK, MessagesOK
<1>6. ASSUME UNCHANGED vars PROVE LegacyInv'
  BY <1>6 DEF vars, work, history
<1>7. QED
  BY <1>1, <1>2, <1>3, <1>4, <1>5, <1>6 DEF Next, Work

\* Without any condition on time: an alert the present rules cannot justify is
\* never mailed.
THEOREM LegacySilenced == Spec => []LegacyIsNeverMailed
<1>1. Init => LegacyInv
  BY ConstantsAssumption DEF Init, LegacyInv
<1>2. TypeOK /\ LegacyInv /\ [Next]_vars => LegacyInv'
  BY StepLegacy
<1>3. LegacyInv => LegacyIsNeverMailed
  BY DEF LegacyInv, LegacyIsNeverMailed
<1>4. QED
  BY <1>1, <1>2, <1>3, TypeCorrect, PTL DEF Spec

------------------------------------------------------------------------------
\* What DeliveryInv needs of a step that delivers nothing: rows that are out of
\* the queue stay out, and their holders stay as they are.
Quiet(m) ==
    /\ accepted'[m] = accepted[m] /\ unsure'[m] = unsure[m]
    /\ Remembered(m) => OutOfQueue(m)'

LEMMA QuietStep ==
    ASSUME DeliveryInv, \A m \in Messages : Quiet(m)
    PROVE  DeliveryInv'
BY DEF DeliveryInv, Quiet, Remembered

\* A worker that does not hold a delivered message and takes no new hold of it
\* leaves it out of the queue if it leaves its row alone or cancels it.
LEMMA ApartFrom ==
    ASSUME DeliveryInv, NEW m \in Messages, Remembered(m),
           \/ status'[m] = status[m]
           \/ status'[m] = "cancelled",
           \A w \in Workers : Holds(w, m)' <=> Holds(w, m),
           \A w \in Workers : Holds(w, m) => pc'[w] = pc[w]
    PROVE  OutOfQueue(m)'
BY DEF DeliveryInv, OutOfQueue

\* A step of an ingesting thread that holds nothing in the sense of Holds.
LEMMA IngestQuiet ==
    ASSUME TypeOK, DeliveryInv, NEW i \in Ingesters, Ingest(i), NEW m \in Messages
    PROVE  Quiet(m)
<1> SUFFICES ASSUME Remembered(m) PROVE OutOfQueue(m)'
  BY DEF Quiet, Ingest, Receive, Classify, CreateJob, ClaimFirst, FlagMessage, history
<1> i \in Workers /\ Workers \subseteq Workers \cup {Cli}
  BY DEF Workers
<1> OutOfQueue(m)
  BY DEF DeliveryInv
<1>1. \A w \in Workers : w # i => msg'[w] = msg[w] /\ pc'[w] = pc[w]
  BY DEF Ingest, Receive, Classify, CreateJob, ClaimFirst, FlagMessage, Finish,
         Continue, Goto, TypeOK, WorkOK
<1>2. pc[i] \in {"idle", "saved", "classified", "created", "delivered"}
  BY DEF Ingest, Receive, Classify, CreateJob, ClaimFirst, FlagMessage
<1>3. pc'[i] = "claimed" => /\ pc[i] = "created" /\ msg'[i] = msg[i]
                            /\ Claimable(i, msg[i])
  BY DEF Ingest, Receive, Classify, CreateJob, ClaimFirst, FlagMessage, Finish,
         Continue, Goto, TypeOK, WorkOK
<1>4. pc'[i] \notin {"sending", "accepted", "failed"}
  BY DEF Ingest, Receive, Classify, CreateJob, ClaimFirst, FlagMessage, Finish,
         Continue, Goto, TypeOK, WorkOK
<1>5. ~Holds(i, m) /\ ~Holds(i, m)'
  BY <1>2, <1>3, <1>4 DEF Holds, OutOfQueue, Claimable
<1>6. status'[m] = status[m] \/ status'[m] = "cancelled"
  BY DEF Ingest, Receive, Classify, CreateJob, ClaimFirst, FlagMessage, CancelRows,
         ClaimPending, Claimable, rows, OutOfQueue, TypeOK, RowsOK
<1>7. QED
  BY <1>1, <1>5, <1>6, ApartFrom DEF Holds

\* The only steps that deliver, forget or write an outcome.
LEMMA TransportDelivery ==
    ASSUME TypeOK, ClaimInv, DeliveryInv, NEW w \in Workers, Transport(w)
    PROVE  DeliveryInv'
<1> w \in Workers \cup {Cli}
  OBVIOUS
<1>0. PICK h : h = msg[w]
  OBVIOUS
<1>1. h \in Messages /\ Holds(w, h)
  BY <1>0 DEF Transport, BeginSend, Accept, Raise, MarkSent, MarkPending, Holds,
              TypeOK, WorkOK, InHand
<1>2. \A v \in Workers : v # w => /\ msg'[v] = msg[v] /\ pc'[v] = pc[v]
                                  /\ ~Holds(v, h)
  BY <1>1 DEF Transport, BeginSend, Accept, Raise, MarkSent, MarkPending, Finish,
              Continue, Goto, TypeOK, WorkOK, ClaimInv, OneSender
<1>3. ASSUME NEW m \in Messages, m # h PROVE Quiet(m)
  <2>1. accepted'[m] = accepted[m] /\ unsure'[m] = unsure[m]
    BY <1>0, <1>3 DEF Transport, BeginSend, Accept, Raise, MarkSent, MarkPending, history,
                Deliver, TypeOK, HistoryOK
  <2>2. status'[m] = status[m]
    BY <1>0, <1>3 DEF Transport, BeginSend, Accept, Raise, MarkSent, MarkPending, CancelRows,
                rows, TypeOK, RowsOK
  <2>3. ~Holds(w, m) /\ ~Holds(w, m)'
    BY <1>0, <1>3, ConstantsAssumption
       DEF Transport, BeginSend, Accept, Raise, MarkSent, MarkPending, Finish, Continue,
           Holds, TypeOK, WorkOK
  <2>4. \A v \in Workers : /\ Holds(v, m)' <=> Holds(v, m)
                           /\ Holds(v, m) => pc'[v] = pc[v]
    BY <1>2, <2>3 DEF Holds
  <2>5. QED
    BY <2>1, <2>2, <2>4, ApartFrom DEF Quiet
<1>4. accepted[h] \in 0..2 /\ unsure[h] \in BOOLEAN
  BY <1>1 DEF TypeOK, HistoryOK
<1>5. pc[w] # "accepted" => ~Remembered(h)
  BY <1>1 DEF DeliveryInv, OutOfQueue
<1>6. (accepted'[h] > 1 => unsure'[h]) /\ (Remembered(h) => OutOfQueue(h))'
  <2>1. CASE BeginSend(w)
    BY <1>0, <1>1, <1>5, <2>1 DEF BeginSend, history, DeliveryInv, Remembered
  <2>2. CASE Accept(w)
    <3>1. accepted'[h] = Smaller(accepted[h] + 1, 2) /\ unsure' = unsure
      BY <1>0, <1>1, <2>2, DeliverType DEF Accept, TypeOK
    <3>2. unsure[h] \/ accepted[h] = 0
      BY <1>0, <1>4, <1>5, <2>2 DEF Accept, Remembered
    <3>3. accepted'[h] > 1 => unsure'[h]
      BY <1>0, <1>4, <3>1, <3>2 DEF Smaller
    <3>4. /\ status'[h] \in {"sending", "cancelled"}
          /\ pc'[w] = "accepted" /\ msg'[w] = h
      BY <1>0, <1>1, <2>2 DEF Accept, rows, Continue, Goto, ClaimInv, ClaimsAreKept, TypeOK,
                        WorkOK
    <3>5. OutOfQueue(h)'
      BY <1>2, <3>4 DEF OutOfQueue, Holds
    <3>6. QED
      BY <3>3, <3>5
  <2>3. CASE Raise(w)
    <3>1. CASE UNCHANGED history
      BY <1>0, <1>1, <1>5, <2>3, <3>1 DEF Raise, history, DeliveryInv, Remembered
    <3>2. CASE unsure' = [unsure EXCEPT ![h] = TRUE]
      BY <1>0, <1>1, <3>2 DEF Remembered, TypeOK, HistoryOK
    <3>3. QED
      BY <1>0, <2>3, <3>1, <3>2 DEF Raise
  <2>4. CASE MarkSent(w)
    <3>1. status'[h] = "sent" /\ ~Holds(w, h)'
      BY <1>0, <1>1, <2>4 DEF MarkSent, Finish, Continue, Goto, Holds, TypeOK, WorkOK, RowsOK
    <3>2. OutOfQueue(h)'
      BY <1>2, <3>1 DEF OutOfQueue, Holds
    <3>3. QED
      BY <1>0, <1>1, <2>4, <3>2 DEF MarkSent, history, DeliveryInv
  <2>5. CASE MarkPending(w)
    BY <1>0, <1>1, <1>5, <2>5 DEF MarkPending, history, DeliveryInv, Remembered
  <2>6. QED
    BY <2>1, <2>2, <2>3, <2>4, <2>5 DEF Transport
<1>7. QED
  BY <1>3, <1>6 DEF DeliveryInv, Quiet, Remembered

\* What a step that touches no delivered row and no worker in Holds leaves.
LEMMA ElsewhereQuiet ==
    ASSUME DeliveryInv, UNCHANGED history,
           \A m \in Messages : Remembered(m) =>
             /\ status'[m] = status[m] \/ status'[m] = "cancelled"
             /\ \A w \in Workers : /\ Holds(w, m)' <=> Holds(w, m)
                                   /\ Holds(w, m) => pc'[w] = pc[w]
    PROVE  DeliveryInv'
<1> SUFFICES ASSUME NEW m \in Messages PROVE Quiet(m)
  BY QuietStep
<1>1. CASE Remembered(m)
  BY <1>1, ApartFrom DEF Quiet, history
<1>2. CASE ~Remembered(m)
  BY <1>2 DEF Quiet, history
<1>3. QED
  BY <1>1, <1>2

\* A step of the retry run.  What it releases has lost its sender, and what it
\* claims was pending: neither is delivered.
LEMMA RetryDelivery ==
    ASSUME TypeOK, LeaseOutlivesSend, ClaimInv, DeliveryInv, RetryRun
    PROVE  DeliveryInv'
<1> Retrier \in Workers /\ Workers \subseteq Workers \cup {Cli}
  BY DEF Workers
<1> pc[Retrier] \notin {"claimed", "sending", "accepted", "failed"}
  BY DEF RetryRun, StartRun, CancelRead, CancelCommit, Select, EndRun, ClaimNext,
         ConstantsAssumption
<1> SUFFICES ASSUME NEW m \in Messages, Remembered(m)
             PROVE  /\ UNCHANGED history
                    /\ status'[m] = status[m] \/ status'[m] = "cancelled"
                    /\ \A w \in Workers : /\ Holds(w, m)' <=> Holds(w, m)
                                          /\ Holds(w, m) => pc'[w] = pc[w]
  <2>1. UNCHANGED history
    BY DEF RetryRun, StartRun, CancelRead, CancelCommit, Select, EndRun, ClaimNext
  <2>2. QED
    BY <2>1, ElsewhereQuiet
<1>1. OutOfQueue(m)
  BY DEF DeliveryInv
<1>2. ASSUME NEW w \in Workers, w # Retrier
      PROVE  msg'[w] = msg[w] /\ pc'[w] = pc[w]
  BY <1>2, ConstantsAssumption
     DEF RetryRun, StartRun, CancelRead, CancelCommit, Select, EndRun, ClaimNext,
         Continue, Goto, TypeOK, WorkOK
<1>3. ~Holds(Retrier, m)'
  BY <1>1, ConstantsAssumption
     DEF RetryRun, StartRun, CancelRead, CancelCommit, Select, EndRun, ClaimNext,
         Continue, Goto, TypeOK, WorkOK, Holds, Claimable, OutOfQueue
<1>4. ASSUME NEW w \in Workers
      PROVE  /\ Holds(w, m)' <=> Holds(w, m)
             /\ Holds(w, m) => pc'[w] = pc[w]
  BY <1>2, <1>3 DEF Holds
<1>5. status'[m] = status[m] \/ status'[m] = "cancelled"
  <2>1. CASE StartRun
    <3>1. ~(Allowed(m) /\ Stale(m))
      <4>1. CASE status[m] = "sending"
        <5>1. PICK w \in Workers : Holds(w, m)
          BY <1>1, <4>1 DEF OutOfQueue
        <5>2. w \in Ingesters
          BY <5>1 DEF Workers, Holds
        <5>3. token[m] = w
          BY <4>1, <5>1 DEF ClaimInv, ClaimsAreKept
        <5>4. QED
          BY <5>1, <5>2, <5>3, HeldIsNotStale
      <4>2. CASE status[m] # "sending"
        BY <4>2 DEF Stale
      <4>3. QED
        BY <4>1, <4>2
    <3>2. QED
      BY <2>1, <3>1 DEF StartRun
  <2>2. CASE ~StartRun
    BY <1>1, <2>2
       DEF RetryRun, CancelRead, CancelCommit, Select, EndRun, ClaimNext, rows,
           ClaimPending, CancelRows, Claimable, OutOfQueue, TypeOK, RowsOK
  <2>3. QED
    BY <2>1, <2>2
<1>6. UNCHANGED history
  BY DEF RetryRun, StartRun, CancelRead, CancelCommit, Select, EndRun, ClaimNext
<1>7. QED
  BY <1>4, <1>5, <1>6

\* A worker that stops after a delivery forgets it.
LEMMA StopDelivery ==
    ASSUME TypeOK, DeliveryInv, NEW w \in Workers, Stop(w)
    PROVE  DeliveryInv'
<1> Workers \subseteq Workers \cup {Cli}
  OBVIOUS
<1>1. ASSUME NEW v \in Workers, v # w
      PROVE  msg'[v] = msg[v] /\ pc'[v] = pc[v]
  BY <1>1 DEF Stop, TypeOK, WorkOK
<1>2. pc'[w] = "idle"
  BY DEF Stop, TypeOK, WorkOK
<1>3. status' = status /\ accepted' = accepted
  BY DEF Stop, rows
<1>4. ASSUME NEW m \in Messages
      PROVE  /\ accepted'[m] > 1 => unsure'[m]
             /\ (Remembered(m) => OutOfQueue(m))'
  <2>1. unsure[m] => unsure'[m]
    BY DEF Stop, TypeOK, HistoryOK
  <2>2. CASE Holds(w, m) /\ pc[w] = "accepted"
    <3>1. unsure'[m]
      BY <2>2 DEF Stop, Holds, TypeOK, HistoryOK
    <3>2. QED
      BY <3>1 DEF Remembered
  <2>3. CASE ~(Holds(w, m) /\ pc[w] = "accepted")
    <3>1. SUFFICES ASSUME Remembered(m)' PROVE OutOfQueue(m)'
      BY <1>3, <2>1 DEF DeliveryInv
    <3>2. OutOfQueue(m)
      BY <1>3, <2>1, <3>1 DEF DeliveryInv, Remembered
    <3>3. ~Holds(w, m) /\ ~Holds(w, m)'
      BY <1>2, <2>3, <3>2 DEF OutOfQueue, Holds
    <3>4. ASSUME NEW v \in Workers
          PROVE  /\ Holds(v, m)' <=> Holds(v, m)
                 /\ Holds(v, m) => pc'[v] = pc[v]
      BY <1>1, <3>3 DEF Holds
    <3>5. QED
      BY <1>3, <3>2, <3>4 DEF OutOfQueue
  <2>4. QED
    BY <2>2, <2>3
<1>5. QED
  BY <1>4 DEF DeliveryInv

\* Every step keeps what was delivered and remembered out of the queue.
LEMMA StepDelivery ==
    ASSUME LeaseOutlivesSend, TypeOK, ClaimInv, DeliveryInv, [Next]_vars
    PROVE  DeliveryInv'
<1>1. CASE \E i \in Ingesters : Ingest(i)
  BY <1>1, IngestQuiet, QuietStep
<1>2. CASE \E w \in Workers : Transport(w)
  BY <1>2, TransportDelivery
<1>3. CASE RetryRun
  BY <1>3, RetryDelivery
<1>4. CASE Command
  <2>1. UNCHANGED history
    BY <1>4 DEF Command, CancelRead, CancelCommit, StopCli
  <2>2. ASSUME NEW m \in Messages
        PROVE  status'[m] = status[m] \/ status'[m] = "cancelled"
    BY <1>4 DEF Command, CancelRead, CancelCommit, StopCli, CancelRows, rows
  <2>3. ASSUME NEW w \in Workers
        PROVE  msg'[w] = msg[w] /\ pc'[w] = pc[w]
    BY <1>4, ConstantsAssumption
       DEF Command, CancelRead, CancelCommit, StopCli, Continue, Goto, Workers, TypeOK,
           WorkOK
  <2>4. QED
    BY <2>1, <2>2, <2>3, ElsewhereQuiet DEF Holds
<1>5. CASE \E w \in Workers : Stop(w)
  BY <1>5, StopDelivery
<1>6. CASE Tick \/ (\E m \in Messages : Cleanup(m) \/ EditIgnored(m)) \/ UNCHANGED vars
  <2>1. UNCHANGED <<status, pc, msg, accepted, unsure>>
    BY <1>6 DEF Tick, Cleanup, EditIgnored, vars, rows, work, history
  <2>2. QED
    BY <2>1, ElsewhereQuiet DEF Holds, history
<1>7. QED
  BY <1>1, <1>2, <1>3, <1>4, <1>5, <1>6 DEF Next, Work, Environment

\* The owner gets a second mail about a message only if the sender of the first
\* could not learn that it was taken (send_claimed_alert writes the outcome
\* before its claim can be released), whatever the number of threads, messages
\* and restarts.
THEOREM MailedOnce == LeaseOutlivesSend => (Spec => []NoNeedlessDuplicate)
<1> SUFFICES ASSUME LeaseOutlivesSend PROVE Spec => []NoNeedlessDuplicate
  OBVIOUS
<1>1. Init => TypeOK /\ ClaimInv /\ DeliveryInv
  BY InitType, InitClaim DEF Init, DeliveryInv, Remembered
<1>2. TypeOK /\ ClaimInv /\ DeliveryInv /\ [Next]_vars =>
        (TypeOK /\ ClaimInv /\ DeliveryInv)'
  BY StepType, StepClaim, StepDelivery
<1>3. DeliveryInv => NoNeedlessDuplicate
  BY DEF DeliveryInv, NoNeedlessDuplicate
<1>4. QED
  BY <1>1, <1>2, <1>3, PTL DEF Spec

------------------------------------------------------------------------------
\* The outbox.  Who holds a job decides what may happen to it, and a job nobody holds
\* is over for good once it is sent or cancelled.

LEMMA InitIsOpen == Init => Abstract!Init
<1> SUFFICES ASSUME Init PROVE Abstract!Init
  OBVIOUS
<1>1. \A m \in Messages : Stage(m) = "open"
  BY DEF Init, Stage, Over, InMail
<1>2. [m \in Messages |-> Stage(m)] \in [Messages -> {"open", "closed"}]
  BY <1>1
<1>3. {m \in Messages : unsure[m]} = {}
  BY DEF Init
<1> QED
  BY <1>2, <1>3 DEF Init, Abstract!Init

LEMMA OutboxTyped == TypeOK => Abstract!TypeOK
<1> SUFFICES ASSUME TypeOK PROVE Abstract!TypeOK
  OBVIOUS
<1>1. [m \in Messages |-> Stage(m)] \in [Messages -> Abstract!Stages]
  BY DEF Stage, Abstract!Stages
<1> QED
  BY <1>1 DEF TypeOK, HistoryOK, Abstract!TypeOK

\* What is in the transport is held, and what is held is not over.
LEMMA HeldIsNotOver ==
    ASSUME ClaimsAreKept, NEW m \in Messages, NEW w \in Workers, Holds(w, m)
    PROVE  ~Over(m)
  BY DEF ClaimsAreKept, Over

\* A job that is over stays so: only holders requeue, and only what is pending gets
\* a new holder.
LEMMA OverStays ==
    ASSUME TypeOK, ClaimInv, [Next]_vars, NEW m \in Messages, Over(m)
    PROVE  Over(m)'
<1> \A w \in Workers : ~Holds(w, m)
  BY HeldIsNotOver DEF ClaimInv
<1> status[m] \in {"sent", "cancelled"}
  BY DEF Over
<1> Workers \subseteq Workers \cup {Cli} /\ Retrier \in Workers
  BY DEF Workers
<1>1. \A w \in Workers : ~Claimable(w, m)
  BY DEF Claimable
<1>2. ASSUME UNCHANGED <<status, pc, msg>> PROVE Over(m)'
  BY <1>2 DEF Over, Holds
<1>3. ASSUME NEW i \in Ingesters, Ingest(i) PROVE Over(m)'
  <2>1. \A w \in Workers : ~Holds(w, m)'
    <3>1. \A w \in Workers : w # i => msg'[w] = msg[w] /\ pc'[w] = pc[w]
      BY <1>3 DEF Ingest, Receive, Classify, CreateJob, ClaimFirst, FlagMessage, Finish,
                  Continue, Goto, TypeOK, WorkOK
    <3>2. ~Holds(i, m)'
      <4>1. i \in Workers
        BY DEF Workers
      <4>2. pc'[i] = "claimed" => msg'[i] = msg[i] /\ Claimable(i, msg[i])
        BY <1>3, <4>1 DEF Ingest, Receive, Classify, CreateJob, ClaimFirst, FlagMessage, Finish,
                          Continue, Goto, TypeOK, WorkOK
      <4>3. pc'[i] \notin {"sending", "accepted", "failed"}
        BY <1>3, <4>1 DEF Ingest, Receive, Classify, CreateJob, ClaimFirst, FlagMessage, Finish,
                          Continue, Goto, TypeOK, WorkOK
      <4> QED
        BY <4>1, <4>2, <4>3, <1>1 DEF Holds
    <3> QED
      BY <3>1, <3>2 DEF Holds
  <2>2. status'[m] \in {"sent", "cancelled"}
    BY <1>3, <1>1 DEF Ingest, Receive, Classify, CreateJob, ClaimFirst, FlagMessage,
                CancelRows, ClaimPending, Claimable, rows, TypeOK, RowsOK
  <2> QED
    BY <2>1, <2>2 DEF Over
<1>4. ASSUME NEW w \in Workers, Transport(w) PROVE Over(m)'
  <2>1. msg[w] # m
    BY <1>4 DEF Transport, BeginSend, Accept, Raise, MarkSent, MarkPending, Holds
  <2>2. status'[m] = status[m]
    BY <1>4, <2>1 DEF Transport, BeginSend, Accept, Raise, MarkSent, MarkPending,
                CancelRows, rows, TypeOK, RowsOK
  <2>3. \A v \in Workers : ~Holds(v, m)'
    BY <1>4, <2>1, ConstantsAssumption
       DEF Transport, BeginSend, Accept, Raise, MarkSent, MarkPending, Finish,
           Continue, Goto, Holds, TypeOK, WorkOK
  <2> QED
    BY <2>2, <2>3 DEF Over
<1>5. ASSUME RetryRun PROVE Over(m)'
  <2>1. \A w \in Workers : ~Holds(w, m)'
    BY <1>5, <1>1, ConstantsAssumption
       DEF RetryRun, StartRun, CancelRead, CancelCommit, Select, EndRun, ClaimNext,
           Continue, Goto, Holds, TypeOK, WorkOK
  <2>2. status'[m] \in {"sent", "cancelled"}
    BY <1>5, <1>1
       DEF RetryRun, StartRun, Stale, CancelRead, CancelCommit, Select, EndRun, ClaimNext,
           CancelRows, ClaimPending, Claimable, rows, TypeOK, RowsOK
  <2> QED
    BY <2>1, <2>2 DEF Over
<1>6. ASSUME Command PROVE Over(m)'
  <2>1. \A w \in Workers : ~Holds(w, m)'
    BY <1>6, ConstantsAssumption
       DEF Command, CancelRead, CancelCommit, StopCli, Continue, Goto, Holds, Workers,
           TypeOK, WorkOK
  <2>2. status'[m] \in {"sent", "cancelled"}
    BY <1>6 DEF Command, CancelRead, CancelCommit, StopCli, CancelRows, rows
  <2> QED
    BY <2>1, <2>2 DEF Over
<1>7. ASSUME NEW w \in Workers, Stop(w) PROVE Over(m)'
  BY <1>7 DEF Stop, rows, Over, Holds, TypeOK, WorkOK
<1>8. CASE Tick \/ (\E n \in Messages : Cleanup(n) \/ EditIgnored(n)) \/ UNCHANGED vars
  BY <1>8, <1>2 DEF Tick, Cleanup, EditIgnored, vars, rows, work
<1> QED
  BY <1>3, <1>4, <1>5, <1>6, <1>7, <1>8 DEF Next, Work, Environment

\* A step that puts nothing into the transport and takes nothing out of it.
LEMMA Settles ==
    ASSUME ClaimsAreKept', NEW m \in Messages,
           accepted'[m] = accepted[m], unsure'[m] = unsure[m],
           InMail(m, "sending")' <=> InMail(m, "sending"),
           InMail(m, "accepted")' <=> InMail(m, "accepted"),
           Over(m) => Over(m)'
    PROVE  Abstract!Step(m) \/ Abstract!Rest(m)
<1>1. Over(m)' => ~InMail(m, "sending")'
  BY DEF ClaimsAreKept, Over, InMail, Holds
<1>2. \/ Stage(m)' = Stage(m)
      \/ Stage(m) \in {"open", "taken"} /\ Stage(m)' = "closed"
  BY <1>1 DEF Stage
<1> QED
  BY <1>2
  DEF Abstract!Step, Abstract!Close, Abstract!Rest, Abstract!Moves, Abstract!Uncounted,
      Abstract!Sure

\* The mail of a holder is the only one of its job.
LEMMA HolderStage ==
    ASSUME ClaimsAreKept, OneSender, NEW m \in Messages, NEW w \in Workers, Holds(w, m)
    PROVE  Stage(m) = IF pc[w] = "accepted" THEN "taken"
                      ELSE IF pc[w] = "sending" THEN "trying" ELSE "open"
<1>1. ~Over(m)
  BY HeldIsNotOver
<1>2. \A v \in Workers : pc[v] \in {"sending", "accepted"} /\ msg[v] = m => v = w
  BY DEF OneSender, Holds
<1>3. InMail(m, "accepted") <=> pc[w] = "accepted"
  BY <1>2 DEF InMail, Holds
<1>4. InMail(m, "sending") <=> pc[w] = "sending"
  BY <1>2 DEF InMail, Holds
<1> QED
  BY <1>1, <1>3, <1>4 DEF Stage

\* The steps of a holder.
LEMMA TransportIsStep ==
    ASSUME TypeOK, TypeOK', ClaimInv, ClaimInv', [Next]_vars, NEW w \in Workers,
           Transport(w) \/ Stop(w), NEW m \in Messages
    PROVE  Abstract!Step(m) \/ Abstract!Rest(m)
<1> w \in Workers \cup {Cli} /\ NoMessage # m
  BY ConstantsAssumption
<1> USE DEF ClaimInv
<1>1. \A v \in Workers : v # w => msg'[v] = msg[v] /\ pc'[v] = pc[v]
  BY DEF Transport, BeginSend, Accept, Raise, MarkSent, MarkPending, Stop, Finish,
         Continue, Goto, TypeOK, WorkOK
<1>2. CASE ~Holds(w, m)
  <2>1. ~Holds(w, m)'
    BY <1>2 DEF Transport, BeginSend, Accept, Raise, MarkSent, MarkPending, Stop, Finish,
                Continue, Goto, Holds, TypeOK, WorkOK
  <2>2. accepted'[m] = accepted[m] /\ unsure'[m] = unsure[m]
    BY <1>2 DEF Transport, BeginSend, Accept, Raise, MarkSent, MarkPending, Stop,
                Deliver, Holds, history, TypeOK, HistoryOK
  <2>3. /\ InMail(m, "sending")' <=> InMail(m, "sending")
        /\ InMail(m, "accepted")' <=> InMail(m, "accepted")
    BY <1>1, <1>2, <2>1 DEF InMail, Holds
  <2> QED
    BY <2>2, <2>3, OverStays, Settles
<1>3. CASE Holds(w, m)
  <2>0. /\ msg[w] = m /\ accepted[m] \in 0..2 /\ unsure[m] \in BOOLEAN
        /\ \A v \in Workers : v # w => ~Holds(v, m) /\ ~Holds(v, m)'
    BY <1>1, <1>3 DEF OneSender, Holds, TypeOK, HistoryOK
  <2>1. Stage(m) = IF pc[w] = "accepted" THEN "taken"
                   ELSE IF pc[w] = "sending" THEN "trying" ELSE "open"
    BY <1>3, HolderStage
  <2>2. Holds(w, m)' =>
          Stage(m)' = IF pc'[w] = "accepted" THEN "taken"
                      ELSE IF pc'[w] = "sending" THEN "trying" ELSE "open"
    <3> SUFFICES ASSUME Holds(w, m)'
                 PROVE  Stage(m)' = IF pc'[w] = "accepted" THEN "taken"
                                    ELSE IF pc'[w] = "sending" THEN "trying" ELSE "open"
      OBVIOUS
    <3>1. ~Over(m)'
      BY DEF ClaimsAreKept, Over
    <3>2. InMail(m, "accepted")' <=> pc'[w] = "accepted"
      BY <2>0 DEF InMail, Holds
    <3>3. InMail(m, "sending")' <=> pc'[w] = "sending"
      BY <2>0 DEF InMail, Holds
    <3> QED
      BY <3>1, <3>2, <3>3 DEF Stage
  <2>3. ~Holds(w, m)' => Stage(m)' \in {"open", "closed"}
    BY <2>0 DEF Stage, InMail, Holds
  <2>4. CASE BeginSend(w)
    <3>1. accepted' = accepted /\ unsure' = unsure /\ pc[w] = "claimed"
      BY <2>4 DEF BeginSend, history
    <3>2. CASE Holds(w, m)'
      <4>1. pc'[w] = "sending"
        BY <2>4, <3>2 DEF BeginSend, Finish, Continue, Goto, Holds, TypeOK, WorkOK
      <4> QED
        BY <2>1, <2>2, <3>1, <3>2, <4>1
        DEF Abstract!Step, Abstract!Try, Abstract!Moves, Abstract!Uncounted, Abstract!Sure
    <3>3. CASE ~Holds(w, m)'
      BY <2>1, <2>3, <3>1, <3>3
      DEF Abstract!Step, Abstract!Close, Abstract!Rest, Abstract!Moves,
          Abstract!Uncounted, Abstract!Sure
    <3> QED
      BY <3>2, <3>3
  <2>5. CASE Accept(w)
    <3>1. /\ pc[w] = "sending" /\ pc'[w] = "accepted" /\ Holds(w, m)'
          /\ unsure' = unsure /\ accepted'[m] = Smaller(accepted[m] + 1, 2)
      BY <2>0, <2>5 DEF Accept, Deliver, Continue, Goto, Holds, TypeOK, WorkOK, HistoryOK
    <3>2. accepted'[m] = IF accepted[m] = 0 THEN 1 ELSE 2
      BY <2>0, <3>1 DEF Smaller
    <3> QED
      BY <2>1, <2>2, <3>1, <3>2
      DEF Abstract!Step, Abstract!Take, Abstract!Moves, Abstract!Counted, Abstract!Sure
  <2>6. CASE Raise(w)
    <3>1. pc[w] = "sending" /\ pc'[w] = "failed" /\ Holds(w, m)'
      BY <2>0, <2>6 DEF Raise, Continue, Goto, Holds, TypeOK, WorkOK
    <3>2. \/ accepted' = accepted /\ unsure' = unsure
          \/ accepted'[m] = Smaller(accepted[m] + 1, 2) /\ unsure'[m]
      BY <2>0, <2>6 DEF Raise, Deliver, history, TypeOK, HistoryOK
    <3>3. Smaller(accepted[m] + 1, 2) = IF accepted[m] = 0 THEN 1 ELSE 2
      BY <2>0 DEF Smaller
    <3> QED
      BY <2>1, <2>2, <3>1, <3>2, <3>3
      DEF Abstract!Step, Abstract!Refuse, Abstract!Lose, Abstract!Moves,
          Abstract!Counted, Abstract!Uncounted, Abstract!Sure
  <2>7. CASE MarkSent(w) \/ MarkPending(w)
    <3>1. /\ ~Holds(w, m)' /\ pc[w] \in {"accepted", "failed"}
          /\ pc[w] = "accepted" => status'[m] = "sent"
          /\ accepted' = accepted /\ unsure' = unsure
      BY <2>0, <2>7 DEF MarkSent, MarkPending, Finish, Continue, Goto, Holds, history,
                        TypeOK, WorkOK, RowsOK
    <3>2. pc[w] = "accepted" => Stage(m)' = "closed"
      BY <3>1 DEF Stage, Over
    <3> QED
      BY <2>1, <2>3, <3>1, <3>2
      DEF Abstract!Step, Abstract!Close, Abstract!Rest, Abstract!Moves,
          Abstract!Uncounted, Abstract!Sure
  <2>8. CASE Stop(w)
    <3>1. /\ ~Holds(w, m)' /\ accepted' = accepted
          /\ unsure' = IF pc[w] = "accepted" THEN [unsure EXCEPT ![m] = TRUE] ELSE unsure
      BY <2>0, <2>8 DEF Stop, Holds, TypeOK, WorkOK
    <3>2. IF pc[w] = "accepted" THEN unsure'[m] ELSE unsure'[m] = unsure[m]
      BY <3>1 DEF TypeOK, HistoryOK
    <3> QED
      BY <1>3, <2>1, <2>3, <3>1, <3>2
      DEF Holds, Abstract!Step, Abstract!Close, Abstract!Rest, Abstract!Refuse,
          Abstract!Lose, Abstract!Moves, Abstract!Uncounted, Abstract!Sure
  <2> QED
    BY <2>4, <2>5, <2>6, <2>7, <2>8 DEF Transport
<1> QED
  BY <1>2, <1>3

\* Every other step leaves the transport alone.
LEMMA ElsewhereIsStep ==
    ASSUME TypeOK, ClaimInv, ClaimInv', [Next]_vars, NEW m \in Messages,
           ~\E w \in Workers : Transport(w) \/ Stop(w)
    PROVE  Abstract!Step(m) \/ Abstract!Rest(m)
<1> Workers \subseteq Workers \cup {Cli}
  OBVIOUS
<1>1. accepted' = accepted /\ unsure' = unsure
  BY DEF Next, Work, Ingest, Receive, Classify, CreateJob, ClaimFirst, FlagMessage,
         RetryRun, StartRun, CancelRead, CancelCommit, Select, EndRun, ClaimNext,
         Command, StopCli, Environment, Cleanup, EditIgnored, Tick, history, vars
<1>2. ASSUME NEW w \in Workers
      PROVE  /\ pc[w] \in {"sending", "accepted"} => pc'[w] = pc[w] /\ msg'[w] = msg[w]
             /\ pc'[w] \in {"sending", "accepted"} => pc'[w] = pc[w] /\ msg'[w] = msg[w]
  <2>1. CASE \E i \in Ingesters : Ingest(i)
    BY <2>1 DEF Ingest, Receive, Classify, CreateJob, ClaimFirst, FlagMessage, Finish,
                Continue, Goto, TypeOK, WorkOK
  <2>2. CASE RetryRun
    BY <2>2 DEF RetryRun, StartRun, CancelRead, CancelCommit, Select, EndRun, ClaimNext,
                Continue, Goto, TypeOK, WorkOK
  <2>3. CASE Command
    BY <2>3, ConstantsAssumption
       DEF Command, CancelRead, CancelCommit, StopCli, Continue, Goto, Workers,
           TypeOK, WorkOK
  <2>4. CASE Tick \/ (\E n \in Messages : Cleanup(n) \/ EditIgnored(n)) \/ UNCHANGED vars
    BY <2>4 DEF Tick, Cleanup, EditIgnored, vars, work
  <2> QED
    BY <2>1, <2>2, <2>3, <2>4 DEF Next, Work, Environment
<1>3. /\ InMail(m, "sending")' <=> InMail(m, "sending")
      /\ InMail(m, "accepted")' <=> InMail(m, "accepted")
  BY <1>2 DEF InMail
<1> QED
  BY <1>1, <1>3, OverStays, Settles DEF ClaimInv

\* The threads, the retry run, the commands and whatever stops them are together an
\* outbox of the alerts (send_claimed_alert, claim_pending_alert and the two ways to
\* write an outcome): what the last section says of outboxes holds of it.
THEOREM Refinement == LeaseOutlivesSend => (Spec => ImplementsOutbox)
<1> SUFFICES ASSUME LeaseOutlivesSend PROVE Spec => ImplementsOutbox
  OBVIOUS
<1>1. Init => ClaimInv /\ Abstract!Init
  BY InitClaim, InitIsOpen
<1>2. TypeOK /\ ClaimInv /\ [Next]_vars => ClaimInv'
  BY StepClaim
<1>3. TypeOK /\ TypeOK' /\ ClaimInv /\ ClaimInv' /\ [Next]_vars
        => [Abstract!Next]_(Abstract!vars)
  <2> SUFFICES ASSUME TypeOK, TypeOK', ClaimInv, ClaimInv', [Next]_vars
               PROVE  Abstract!Next
    OBVIOUS
  <2>1. Abstract!TypeOK'
    BY OutboxTyped, PTL
  <2>2. \A m \in Messages : Abstract!Step(m) \/ Abstract!Rest(m)
    BY TransportIsStep, ElsewhereIsStep
  <2> QED
    BY <2>1, <2>2 DEF Abstract!Next, Abstract!TypeOK
<1> QED
  BY <1>1, <1>2, <1>3, TypeCorrect, PTL DEF Spec, ImplementsOutbox, Abstract!Spec

------------------------------------------------------------------------------
(***************************************************************************)
(* The abstract outbox by itself, over things and variables of its own:    *)
(* what it promises holds of every module that implements it.  No          *)
(* assumption on time enters here.                                         *)
(***************************************************************************)
CONSTANT Things
VARIABLES stage, taken, doubt
Outbox == INSTANCE Outbox

\* The variables of an outbox keep their types (the three columns each outbox of the
\* program keeps of a thing, under its own names).
THEOREM OutboxTypeCorrect == Outbox!Spec => []Outbox!TypeOK
<1>1. Outbox!Init => Outbox!TypeOK
  BY DEF Outbox!Init, Outbox!TypeOK, Outbox!Stages
<1>2. Outbox!TypeOK /\ [Outbox!Next]_(Outbox!vars) => Outbox!TypeOK'
  BY DEF Outbox!TypeOK, Outbox!Next, Outbox!vars
<1> QED
  BY <1>1, <1>2, PTL DEF Outbox!Spec

LEMMA StepKeepsOut ==
    ASSUME Outbox!TypeOK, Outbox!TakenIsOut, Outbox!TypeOK', NEW t \in Things,
           Outbox!Step(t) \/ Outbox!Rest(t), t \notin doubt'
    PROVE  /\ taken'[t] <= 1
           /\ stage'[t] \in {"open", "trying"} => taken'[t] = 0
<1> USE DEF Outbox!Moves, Outbox!Counted, Outbox!Uncounted, Outbox!Sure
<1>1. CASE Outbox!Try(t)
  BY <1>1 DEF Outbox!Try, Outbox!TakenIsOut, Outbox!TypeOK
<1>2. CASE Outbox!Take(t)
  BY <1>2 DEF Outbox!Take, Outbox!TakenIsOut, Outbox!TypeOK
<1>3. CASE Outbox!Refuse(t)
  BY <1>3 DEF Outbox!Refuse, Outbox!TakenIsOut, Outbox!TypeOK
<1>4. CASE Outbox!Lose(t)
  BY <1>4 DEF Outbox!Lose
<1>5. CASE Outbox!Surface(t)
  BY <1>5 DEF Outbox!Surface
<1>6. CASE Outbox!Close(t)
  BY <1>6 DEF Outbox!Close, Outbox!TakenIsOut, Outbox!TypeOK
<1>7. CASE Outbox!Rest(t)
  BY <1>7 DEF Outbox!Rest, Outbox!TakenIsOut, Outbox!TypeOK
<1> QED
  BY <1>1, <1>2, <1>3, <1>4, <1>5, <1>6, <1>7 DEF Outbox!Step

\* A thing that was taken twice is in doubt: the promise that the alerts, the digests
\* and the pushes of this program have in common.
THEOREM OnceUnlessInDoubt == Outbox!Spec => []Outbox!TakenOnce
<1>1. Outbox!Init => Outbox!TakenIsOut
  <2> SUFFICES ASSUME Outbox!Init, NEW t \in Things \ doubt
               PROVE  /\ taken[t] <= 1
                      /\ stage[t] \in {"open", "trying"} => taken[t] = 0
    BY DEF Outbox!TakenIsOut
  <2> QED
    BY DEF Outbox!Init
<1>2. Outbox!TypeOK /\ Outbox!TypeOK' /\ Outbox!TakenIsOut /\ [Outbox!Next]_(Outbox!vars)
        => Outbox!TakenIsOut'
  <2> SUFFICES ASSUME Outbox!TypeOK, Outbox!TypeOK', Outbox!TakenIsOut,
                      [Outbox!Next]_(Outbox!vars)
               PROVE  Outbox!TakenIsOut'
    OBVIOUS
  <2>1. CASE Outbox!Next
    BY <2>1, StepKeepsOut DEF Outbox!Next, Outbox!TakenIsOut
  <2>2. CASE UNCHANGED Outbox!vars
    BY <2>2 DEF Outbox!vars, Outbox!TakenIsOut
  <2> QED
    BY <2>1, <2>2
<1>3. Outbox!TypeOK /\ Outbox!TakenIsOut => Outbox!TakenOnce
  BY DEF Outbox!TypeOK, Outbox!TakenIsOut, Outbox!TakenOnce
<1> QED
  BY <1>1, <1>2, <1>3, OutboxTypeCorrect, PTL DEF Outbox!Spec

\* Nothing that is over is tried again, nor taken again unless it is in doubt.
THEOREM OverForGood == Outbox!Spec => Outbox!ClosedIsFinal
<1> DEFINE Kept ==
      \A t \in Things : stage[t] = "closed" =>
         /\ stage'[t] = "closed"
         /\ t \notin doubt => taken'[t] = taken[t]
<1>1. [Outbox!Next]_(Outbox!vars) => Kept
  <2> SUFFICES ASSUME [Outbox!Next]_(Outbox!vars), NEW t \in Things, stage[t] = "closed"
               PROVE  /\ stage'[t] = "closed"
                      /\ t \notin doubt => taken'[t] = taken[t]
    OBVIOUS
  <2>1. CASE Outbox!Next
    BY <2>1 DEF Outbox!Next, Outbox!Step, Outbox!Try, Outbox!Take, Outbox!Refuse,
                Outbox!Lose, Outbox!Surface, Outbox!Close, Outbox!Rest, Outbox!Moves,
                Outbox!Uncounted, Outbox!Counted, Outbox!Sure
  <2>2. CASE UNCHANGED Outbox!vars
    BY <2>2 DEF Outbox!vars
  <2> QED
    BY <2>1, <2>2
<1>2. [Outbox!Next]_(Outbox!vars) => [Kept]_(Outbox!vars)
  BY <1>1
<1> QED
  BY <1>2, PTL DEF Outbox!Spec, Outbox!ClosedIsFinal
=============================================================================
