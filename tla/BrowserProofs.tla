--------------------------- MODULE BrowserProofs ---------------------------
(***************************************************************************)
(* What the browser sends, and what is pushed to it: proofs about          *)
(* InboxSend, about BrowserDraft, the composer of the browser before its   *)
(* sends, and about WebPush, for any requests, conversations, handlers,    *)
(* devices and notifications.  The pushes know nothing of the sends; the   *)
(* theorems about each speak of its own specification.                     *)
(*                                                                         *)
(* The sends: only the holder of the lock changes the journal or calls     *)
(* Telegram, and it calls only after it found no record of the request and *)
(* wrote one, so while a record is kept at most one call was accepted.     *)
(*                                                                         *)
(* The composer: its steps keep what holds of the sends, and a version of  *)
(* the draft goes under one request id only, so that what holds of a       *)
(* request holds of what the owner wrote.                                  *)
(*                                                                         *)
(* The pushes: only six actions touch a delivery.  NextKinds says so once, *)
(* by the change they make; the invariance proofs have one case per kind.  *)
(***************************************************************************)
EXTENDS BrowserDraft, WebPush, FiniteSetTheorems, TLAPS

LEMMA InitType == Init => TypeOK
BY ConstantsAssumption DEF Init, TypeOK, Answers

\* A record in the domain is a record or NoRecord.
LEMMA RecordType ==
    ASSUME TypeOK, NEW r \in Requests
    PROVE  record[r] = NoRecord \/ record[r] \in Records
BY DEF TypeOK

\* A call that is accepted adds one message in the scope of the handler, and
\* nothing elsewhere.
LEMMA DeliverAdds ==
    ASSUME TypeOK, NEW h \in Handlers, Deliver(h),
           NEW r \in Requests, NEW s \in Scopes, r = Request(h), s = Scope(h)
    PROVE  /\ delivered' \in [Requests \X Scopes -> 0..2]
           /\ delivered'[<<r, s>>] > 0
           /\ Untouched(r) => OnceIn(r, s)'
           /\ \A q \in Requests, t \in Scopes :
                /\ q # r => delivered'[<<q, t>>] = delivered[<<q, t>>]
                /\ delivered[<<q, t>>] > 0 => delivered'[<<q, t>>] > 0
<1> DEFINE d == <<r, s>>
<1>1. d \in Requests \X Scopes /\ delivered[d] \in 0..2
  BY DEF TypeOK
<1>2. delivered' \in [Requests \X Scopes -> 0..2]
  BY <1>1 DEF TypeOK, Deliver
<1>3. delivered'[d] = (IF delivered[d] = 0 THEN 1 ELSE 2)
  BY <1>1 DEF TypeOK, Deliver
<1>4. \A q \in Requests, t \in Scopes :
         q # r \/ t # s => delivered'[<<q, t>>] = delivered[<<q, t>>]
  BY <1>1 DEF TypeOK, Deliver
<1>5. ASSUME Untouched(r) PROVE OnceIn(r, s)'
  <2>1. delivered[d] = 0
    BY <1>5 DEF Untouched
  <2>2. QED
    BY <2>1, <1>3, <1>4, <1>5 DEF Untouched, OnceIn
<1>6. QED
  BY <1>2, <1>3, <1>4, <1>5

------------------------------------------------------------------------------
\* Every step keeps the types.
LEMMA StepType == TypeOK /\ PostsAreKnown /\ HolderKnows /\ [Next]_vars => TypeOK'
<1> SUFFICES ASSUME TypeOK, PostsAreKnown, HolderKnows, [Next]_vars PROVE TypeOK'
  OBVIOUS
<1> USE ConstantsAssumption DEF TypeOK, Inside, Claimed, Calling, Answers
<1>k. \A h \in Handlers : pc[h] # "idle" =>
         /\ Request(h) \in Requests /\ Scope(h) \in Scopes
         /\ Deliver(h) => delivered' \in [Requests \X Scopes -> 0..2]
  BY DeliverAdds DEF PostsAreKnown, Posts, Request, Scope
<1>1. ASSUME NEW h \in Handlers, Acquire(h) PROVE TypeOK'
  <2>1. Known(h) \in Answers
    BY DEF Known
  <2>2. QED
    BY <1>1, <2>1 DEF Acquire, Reply
<1>2. ASSUME NEW h \in Handlers, CheckFails(h) PROVE TypeOK'
  BY <1>2 DEF CheckFails, Reply
<1>3. ASSUME NEW h \in Handlers, Claim(h) PROVE TypeOK'
  <2>1. [scope |-> Scope(h), sent |-> FALSE, age |-> 0] \in Records
    BY <1>3, <1>k DEF Claim, Records
  <2>2. QED
    BY <1>3, <2>1 DEF Claim
<1>4. ASSUME NEW h \in Handlers, Accept(h) PROVE TypeOK'
  BY <1>4, <1>k DEF Accept
<1>5. ASSUME NEW h \in Handlers, PeerError(h) PROVE TypeOK'
  BY <1>5 DEF PeerError
<1>6. ASSUME NEW h \in Handlers, Reject(h) PROVE TypeOK'
  BY <1>6 DEF Reject, Reply
<1>7. ASSUME NEW h \in Handlers, LoseContact(h) PROVE TypeOK'
  <2>1. delivered' \in [Requests \X Scopes -> 0..2]
    BY <1>7, <1>k DEF LoseContact
  <2>2. QED
    BY <1>7, <2>1 DEF LoseContact, Reply
<1>8. ASSUME NEW h \in Handlers, Finish(h) PROVE TypeOK'
  <2>1. record' \in [Requests -> Records \cup {NoRecord}]
    <3>1. record[Request(h)] = [scope |-> Scope(h), sent |-> FALSE, age |-> 0]
      BY <1>8 DEF Finish, HolderKnows
    <3>2. Settled(record[Request(h)]) \in Records
      BY <1>8, <1>k, <3>1 DEF Finish, Records, Settled
    <3>3. QED
      BY <1>8, <3>2 DEF Finish
  <2>2. QED
    BY <1>8, <2>1 DEF Finish, Reply
<1>9. ASSUME NEW h \in Handlers, NEW p \in Posts, Post(h, p) PROVE TypeOK'
  BY <1>9 DEF Post
<1>10. ASSUME Crash PROVE TypeOK'
  <2>1. delivered' \in [Requests \X Scopes -> 0..2]
    BY <1>10, <1>k DEF Crash
  <2>2. QED
    BY <1>10, <2>1 DEF Crash
<1>11. ASSUME Tick PROVE TypeOK'
  <2>1. \A r \in Requests : record[r] # NoRecord /\ record[r].age # Retention =>
          Older(record[r]) \in Records
    BY RecordType DEF Records, Older
  <2>2. QED
    BY <1>11, <2>1 DEF Tick
<1>12. ASSUME Cleanup PROVE TypeOK'
  BY <1>12 DEF Cleanup
<1>13. CASE UNCHANGED vars
  BY <1>13 DEF vars
<1>14. QED
  BY <1>1, <1>2, <1>3, <1>4, <1>5, <1>6, <1>7, <1>8, <1>9, <1>10, <1>11, <1>12,
     <1>13 DEF Next, Step

------------------------------------------------------------------------------
\* The four parts of the invariant that say what the lock protects.
Guarded == /\ LockIsHeld /\ PostsAreKnown /\ HolderKnows /\ JournalIsTrue
           /\ OkMeansDelivered

LEMMA InitGuarded == Init => Guarded
<1> SUFFICES ASSUME Init PROVE Guarded
  OBVIOUS
<1> USE ConstantsAssumption DEF Init, Inside, Claimed, Calling
<1>1. LockIsHeld /\ PostsAreKnown
  BY DEF LockIsHeld, PostsAreKnown
<1>2. HolderKnows /\ OkMeansDelivered
  BY DEF HolderKnows, OkMeansDelivered
<1>3. JournalIsTrue
  BY DEF JournalIsTrue, Untouched
<1>4. QED
  BY <1>1, <1>2, <1>3 DEF Guarded

\* A call is accepted while its record is pending: the journal stays true.
LEMMA DeliverKeeps ==
    ASSUME TypeOK, Guarded, NEW h \in Handlers, pc[h] \in Calling, Deliver(h),
           UNCHANGED <<record, post, purged>>
    PROVE  /\ JournalIsTrue'
           /\ delivered'[<<Request(h), Scope(h)>>] > 0
           /\ \A g \in Handlers :
                answer[g] = "ok" => delivered'[<<Request(g), Scope(g)>>] > 0
<1> USE DEF Guarded
<1>1. \A g \in Handlers : pc[g] # "idle" \/ answer[g] = "ok" =>
         Request(g) \in Requests /\ Scope(g) \in Scopes
  BY DEF PostsAreKnown, Posts, Request, Scope
<1>2. Request(h) \in Requests /\ Scope(h) \in Scopes
  BY <1>1 DEF Calling
<1> DEFINE r == Request(h)
           s == Scope(h)
<1>3. /\ delivered'[<<r, s>>] > 0
      /\ Untouched(r) => /\ delivered'[<<r, s>>] <= 1
                         /\ \A t \in Scopes \ {s} : delivered'[<<r, t>>] = 0
      /\ \A q \in Requests, t \in Scopes :
           /\ q # r => delivered'[<<q, t>>] = delivered[<<q, t>>]
           /\ delivered[<<q, t>>] > 0 => delivered'[<<q, t>>] > 0
  <2> HIDE DEF r, s
  <2>1. r \in Requests /\ s \in Scopes /\ r = Request(h) /\ s = Scope(h)
    BY <1>2 DEF r, s
  <2>2. QED
    BY <2>1, DeliverAdds DEF OnceIn
<1>4. \A g \in Handlers :
         answer[g] = "ok" => delivered'[<<Request(g), Scope(g)>>] > 0
  BY <1>1, <1>3 DEF OkMeansDelivered
<1>5. /\ record[r] = [scope |-> s, sent |-> FALSE, age |-> 0]
      /\ r \notin purged => Untouched(r)
  BY DEF HolderKnows, Claimed
<1>6. record[r] # NoRecord /\ record[r].scope = s /\ ~record[r].sent
  <2>1. [scope |-> s, sent |-> FALSE, age |-> 0] \in Records
    BY <1>2, ConstantsAssumption DEF Records
  <2>2. record[r] # NoRecord
    BY <1>5, <2>1, ConstantsAssumption
  <2>3. QED
    BY <1>5, <2>2
<1>7. JournalIsTrue'
  <2> SUFFICES ASSUME NEW q \in Requests
               PROVE  /\ q \notin purged =>
                           IF record[q] = NoRecord THEN Untouched(q)'
                           ELSE OnceIn(q, record[q].scope)'
                      /\ record[q] # NoRecord /\ record[q].sent =>
                           delivered'[<<q, record[q].scope>>] > 0
    BY DEF JournalIsTrue, OnceIn
  <2>1. CASE q = r
    BY <2>1, <1>3, <1>5, <1>6 DEF OnceIn
  <2>2. CASE q # r
    <3>1. record[q] # NoRecord => record[q].scope \in Scopes
      BY DEF TypeOK, Records
    <3>2. QED
      BY <2>2, <3>1, <1>3 DEF JournalIsTrue, Untouched, OnceIn
  <2>3. QED
    BY <2>1, <2>2
<1>8. QED
  BY <1>3, <1>4, <1>7

\* Only the holder of the lock has its hands on the journal.
LEMMA StepGuarded == TypeOK /\ Guarded /\ [Next]_vars => Guarded'
<1> SUFFICES ASSUME TypeOK, Guarded, [Next]_vars PROVE Guarded'
  OBVIOUS
<1>t. TypeOK'
  BY StepType DEF Guarded
<1> USE DEF Guarded, Inside, Claimed, Calling
<1>k. \A h \in Handlers : pc[h] # "idle" =>
         Request(h) \in Requests /\ Scope(h) \in Scopes
  BY DEF PostsAreKnown, Posts, Request, Scope
<1>n. NoHandler \notin Handlers /\ NoRecord \notin Records /\ NoPost \notin Posts
  BY ConstantsAssumption
<1>1. ASSUME NEW h \in Handlers, Acquire(h) PROVE Guarded'
  <2>1. LockIsHeld'
    BY <1>1, <1>n DEF Acquire, Reply, LockIsHeld, TypeOK
  <2>2. PostsAreKnown'
    BY <1>1 DEF Acquire, Reply, PostsAreKnown, TypeOK
  <2>3. HolderKnows'
    BY <1>1, <1>n DEF Acquire, Reply, HolderKnows, TypeOK, Request, Scope, Untouched
  <2>4. JournalIsTrue'
    BY <1>1 DEF Acquire, JournalIsTrue, Untouched, OnceIn
  <2>5. OkMeansDelivered'
    <3>1. record[Request(h)] # NoRecord /\ Known(h) = "ok" =>
             delivered[<<Request(h), Scope(h)>>] > 0
      BY <1>1, <1>k DEF Acquire, Known, JournalIsTrue
    <3>2. QED
      BY <1>1, <3>1 DEF Acquire, Reply, OkMeansDelivered, TypeOK, Request, Scope
  <2>6. QED
    BY <2>1, <2>2, <2>3, <2>4, <2>5
<1>2. ASSUME NEW h \in Handlers, CheckFails(h) PROVE Guarded'
  <2>1. LockIsHeld'
    BY <1>2, <1>n DEF CheckFails, Reply, LockIsHeld, TypeOK
  <2>2. PostsAreKnown' /\ HolderKnows' /\ JournalIsTrue' /\ OkMeansDelivered'
    BY <1>2 DEF CheckFails, Reply, PostsAreKnown, HolderKnows, JournalIsTrue,
                OkMeansDelivered, TypeOK, Request, Scope, Untouched, OnceIn
  <2>3. QED
    BY <2>1, <2>2
<1>3. ASSUME NEW h \in Handlers, Claim(h) PROVE Guarded'
  <2> DEFINE new == [scope |-> Scope(h), sent |-> FALSE, age |-> 0]
  <2>0. /\ \A g \in Handlers \ {h} : pc[g] \notin Inside
        /\ Request(h) \in Requests /\ Scope(h) \in Scopes
        /\ record[Request(h)] = NoRecord
        /\ Request(h) \notin purged => Untouched(Request(h))
        /\ record' = [record EXCEPT ![Request(h)] = new]
        /\ new \in Records
    <3>1. new \in Records
      BY <1>3, <1>k, ConstantsAssumption DEF Claim, Records
    <3>2. QED
      BY <1>3, <1>k, <3>1 DEF Claim, LockIsHeld, HolderKnows, JournalIsTrue
  <2>1. LockIsHeld' /\ PostsAreKnown' /\ OkMeansDelivered'
    BY <1>3 DEF Claim, LockIsHeld, PostsAreKnown, OkMeansDelivered, TypeOK, Request,
                Scope
  <2>3. HolderKnows'
    BY <1>3, <2>0 DEF Claim, HolderKnows, TypeOK, Request, Scope, Untouched
  <2>4. JournalIsTrue'
    <3>1. ASSUME NEW r \in Requests, r # Request(h)
          PROVE  record'[r] = record[r]
      BY <3>1, <2>0 DEF TypeOK
    <3>2. record'[Request(h)] = new
      BY <2>0 DEF TypeOK
    <3>3. Untouched(Request(h)) => OnceIn(Request(h), Scope(h))
      BY <2>0 DEF Untouched, OnceIn
    <3>4. ASSUME NEW r \in Requests
          PROVE  /\ r \notin purged' =>
                      IF record'[r] = NoRecord THEN Untouched(r)'
                      ELSE OnceIn(r, record[r].scope)'
                 /\ record'[r] # NoRecord /\ record'[r].sent =>
                      delivered'[<<r, record'[r].scope>>] > 0
      <4>1. CASE r = Request(h)
        BY <4>1, <3>2, <3>3, <2>0, <1>n, <1>3 DEF Claim, OnceIn, Untouched
      <4>2. CASE r # Request(h)
        BY <4>2, <3>1, <1>3 DEF Claim, JournalIsTrue, OnceIn, Untouched
      <4>3. QED
        BY <4>1, <4>2
    <3>5. QED
      BY <3>4 DEF JournalIsTrue, OnceIn
  <2>5. QED
    BY <2>1, <2>3, <2>4
<1>4. ASSUME NEW h \in Handlers, Accept(h) PROVE Guarded'
  <2>0. \A g \in Handlers \ {h} : pc[g] \notin Inside
    BY <1>4 DEF Accept, LockIsHeld
  <2>1. LockIsHeld' /\ PostsAreKnown'
    BY <1>4 DEF Accept, LockIsHeld, PostsAreKnown, TypeOK
  <2>2. /\ JournalIsTrue'
        /\ delivered'[<<Request(h), Scope(h)>>] > 0
        /\ \A g \in Handlers :
             answer[g] = "ok" => delivered'[<<Request(g), Scope(g)>>] > 0
    BY <1>4, DeliverKeeps DEF Accept
  <2>3. HolderKnows'
    BY <1>4, <2>0, <2>2 DEF Accept, HolderKnows, TypeOK, Request, Scope
  <2>4. OkMeansDelivered'
    BY <1>4, <2>2 DEF Accept, OkMeansDelivered, Request, Scope
  <2>5. QED
    BY <2>1, <2>2, <2>3, <2>4
<1>5. ASSUME NEW h \in Handlers, PeerError(h) PROVE Guarded'
  BY <1>5 DEF PeerError, LockIsHeld, PostsAreKnown, HolderKnows, JournalIsTrue,
              OkMeansDelivered, TypeOK, Request, Scope, Untouched, OnceIn
<1>6. ASSUME NEW h \in Handlers, Reject(h) PROVE Guarded'
  <2>0. /\ \A g \in Handlers \ {h} : pc[g] \notin Inside
        /\ Request(h) \in Requests
        /\ Request(h) \notin purged => Untouched(Request(h))
    BY <1>6, <1>k DEF Reject, LockIsHeld, HolderKnows
  <2>1. LockIsHeld'
    BY <1>6, <1>n, <2>0 DEF Reject, Reply, LockIsHeld, TypeOK
  <2>2. PostsAreKnown' /\ OkMeansDelivered'
    BY <1>6 DEF Reject, Reply, PostsAreKnown, OkMeansDelivered, TypeOK, Request, Scope
  <2>3. HolderKnows'
    BY <1>6, <2>0 DEF Reject, Reply, HolderKnows, TypeOK, Request, Scope
  <2>4. JournalIsTrue'
    BY <1>6, <2>0 DEF Reject, JournalIsTrue, TypeOK, Untouched, OnceIn
  <2>5. QED
    BY <2>1, <2>2, <2>3, <2>4
<1>7. ASSUME NEW h \in Handlers, LoseContact(h) PROVE Guarded'
  <2>0. \A g \in Handlers \ {h} : pc[g] \notin Inside
    BY <1>7 DEF LoseContact, LockIsHeld
  <2>1. LockIsHeld'
    BY <1>7, <1>n, <2>0 DEF LoseContact, Reply, LockIsHeld, TypeOK
  <2>2. PostsAreKnown' /\ HolderKnows'
    BY <1>7, <2>0 DEF LoseContact, Reply, PostsAreKnown, HolderKnows, TypeOK,
                      Request, Scope
  <2>3. /\ JournalIsTrue'
        /\ \A g \in Handlers :
             answer[g] = "ok" => delivered'[<<Request(g), Scope(g)>>] > 0
    <3>1. CASE UNCHANGED delivered
      BY <1>7, <3>1 DEF LoseContact, JournalIsTrue, Untouched, OnceIn,
                        OkMeansDelivered
    <3>2. CASE pc[h] \in Calling /\ Deliver(h)
      BY <1>7, <3>2, DeliverKeeps DEF LoseContact
    <3>3. QED
      BY <1>7, <3>1, <3>2 DEF LoseContact
  <2>4. OkMeansDelivered'
    BY <1>7, <2>3 DEF LoseContact, Reply, OkMeansDelivered, TypeOK, Request, Scope
  <2>5. QED
    BY <2>1, <2>2, <2>3, <2>4
<1>8. ASSUME NEW h \in Handlers, Finish(h) PROVE Guarded'
  <2> DEFINE sent == [scope |-> Scope(h), sent |-> TRUE, age |-> 0]
  <2>0. /\ \A g \in Handlers \ {h} : pc[g] \notin Inside
        /\ Request(h) \in Requests /\ Scope(h) \in Scopes
        /\ record[Request(h)] = [scope |-> Scope(h), sent |-> FALSE, age |-> 0]
        /\ delivered[<<Request(h), Scope(h)>>] > 0
    BY <1>8, <1>k DEF Finish, LockIsHeld, HolderKnows
  <2>1. LockIsHeld'
    BY <1>8, <1>n, <2>0 DEF Finish, Reply, LockIsHeld, TypeOK
  <2>2. PostsAreKnown' /\ HolderKnows' /\ OkMeansDelivered'
    BY <1>8, <2>0 DEF Finish, Reply, PostsAreKnown, HolderKnows, OkMeansDelivered,
                      TypeOK, Request, Scope
  <2>3. Settled(record[Request(h)]) = sent
    BY <2>0 DEF Settled
  <2>4. record' = [record EXCEPT ![Request(h)] = sent]
    BY <1>8, <2>3 DEF Finish
  <2>a. sent \in Records /\ sent # NoRecord
    <3>1. sent \in Records
      BY <1>8, <1>k, ConstantsAssumption DEF Finish, Records
    <3>2. QED
      BY <3>1, <1>n
  <2>b. UNCHANGED <<delivered, purged>>
    BY <1>8 DEF Finish
  <2>5. record'[Request(h)] = sent /\ record[Request(h)] # NoRecord
    <3>1. [scope |-> Scope(h), sent |-> FALSE, age |-> 0] \in Records
      BY <2>0, ConstantsAssumption DEF Records
    <3>2. QED
      BY <2>0, <2>4, <3>1, <1>n DEF TypeOK
  <2>6. JournalIsTrue'
    <3> SUFFICES ASSUME NEW r \in Requests
                 PROVE  /\ r \notin purged' =>
                             IF record'[r] = NoRecord THEN Untouched(r)'
                             ELSE OnceIn(r, record[r].scope)'
                        /\ record'[r] # NoRecord /\ record'[r].sent =>
                             delivered'[<<r, record'[r].scope>>] > 0
      BY DEF JournalIsTrue, OnceIn
    <3>1. CASE r = Request(h)
      <4>1. record'[r].scope = Scope(h) /\ record[r].scope = Scope(h)
        BY <3>1, <2>5, <2>0
      <4>2. record'[r] # NoRecord
        BY <3>1, <2>5, <2>a
      <4>3. QED
        BY <3>1, <4>1, <4>2, <2>0, <2>5, <2>b DEF JournalIsTrue, OnceIn
    <3>2. CASE r # Request(h)
      <4>1. record'[r] = record[r]
        BY <2>4, <3>2 DEF TypeOK
      <4>2. QED
        BY <4>1, <2>b DEF JournalIsTrue, Untouched, OnceIn
    <3>3. QED
      BY <3>1, <3>2
  <2>7. QED
    BY <2>1, <2>2, <2>6
<1>9. ASSUME NEW h \in Handlers, NEW p \in Posts, Post(h, p) PROVE Guarded'
  <2>1. LockIsHeld'
    BY <1>9 DEF Post, LockIsHeld, TypeOK
  <2>2. PostsAreKnown' /\ OkMeansDelivered'
    BY <1>9 DEF Post, PostsAreKnown, OkMeansDelivered, TypeOK, Request, Scope
  <2>3. HolderKnows'
    BY <1>9 DEF Post, HolderKnows, TypeOK, Request, Scope, Untouched
  <2>4. JournalIsTrue'
    BY <1>9 DEF Post, JournalIsTrue, Untouched, OnceIn
  <2>5. QED
    BY <2>1, <2>2, <2>3, <2>4
<1>10. ASSUME Crash PROVE Guarded'
  <2>1. LockIsHeld' /\ PostsAreKnown' /\ HolderKnows'
    BY <1>10, <1>n DEF Crash, LockIsHeld, PostsAreKnown, HolderKnows, TypeOK
  <2>2. /\ JournalIsTrue'
        /\ \A g \in Handlers :
             answer[g] = "ok" => delivered'[<<Request(g), Scope(g)>>] > 0
    <3>1. CASE UNCHANGED delivered
      BY <1>10, <3>1 DEF Crash, JournalIsTrue, Untouched, OnceIn, OkMeansDelivered
    <3>2. CASE \E h \in Handlers : pc[h] \in Calling /\ Deliver(h)
      BY <1>10, <3>2, DeliverKeeps DEF Crash
    <3>3. QED
      BY <1>10, <3>1, <3>2 DEF Crash
  <2>3. OkMeansDelivered'
    BY <1>10, <2>2 DEF Crash, OkMeansDelivered, TypeOK, Request, Scope
  <2>4. QED
    BY <2>1, <2>2, <2>3
<1>11. ASSUME Tick PROVE Guarded'
  <2>1. \A h \in Handlers : pc[h] \notin Inside
    BY <1>11, <1>n DEF Tick, LockIsHeld
  <2>2. LockIsHeld' /\ PostsAreKnown' /\ HolderKnows' /\ OkMeansDelivered'
    BY <1>11, <2>1 DEF Tick, LockIsHeld, PostsAreKnown, HolderKnows,
                       OkMeansDelivered, Request, Scope
  <2>3. \A r \in Requests :
           /\ record'[r] = NoRecord <=> record[r] = NoRecord
           /\ record[r] # NoRecord => /\ record'[r].scope = record[r].scope
                                      /\ record'[r].sent = record[r].sent
    <3>1. ASSUME NEW r \in Requests, record[r] # NoRecord
          PROVE  /\ Older(record[r]).scope = record[r].scope
                 /\ Older(record[r]).sent = record[r].sent
                 /\ record[r].age # Retention => Older(record[r]) \in Records
      BY <3>1, RecordType, ConstantsAssumption DEF Records, Older
    <3>2. QED
      BY <1>11, <3>1, <1>n DEF Tick
  <2>4. JournalIsTrue'
    BY <1>11, <2>3 DEF Tick, JournalIsTrue, Untouched, OnceIn
  <2>5. QED
    BY <2>2, <2>4
<1>12. ASSUME Cleanup PROVE Guarded'
  <2>1. LockIsHeld' /\ PostsAreKnown' /\ OkMeansDelivered'
    BY <1>12 DEF Cleanup, LockIsHeld, PostsAreKnown, OkMeansDelivered, Request, Scope
  <2>2. \A r \in Requests :
           /\ record'[r] = record[r] \/ (record'[r] = NoRecord /\ r \in purged')
           /\ r \in purged => r \in purged'
           /\ record[r] = NoRecord \/ record[r].age # Retention =>
                record'[r] = record[r]
    BY <1>12 DEF Cleanup
  <2>3. HolderKnows'
    <3>1. ASSUME NEW h \in Handlers, pc[h] \in Inside
          PROVE  record'[Request(h)] = record[Request(h)]
      <4>1. record[Request(h)] = NoRecord \/ record[Request(h)].age = 0
        <5>1. CASE pc[h] = "checking"
          BY <5>1 DEF HolderKnows
        <5>2. CASE pc[h] \in Claimed
          <6>1. record[Request(h)] = [scope |-> Scope(h), sent |-> FALSE, age |-> 0]
            BY <5>2 DEF HolderKnows
          <6>2. QED
            BY <6>1
        <5>3. QED
          BY <3>1, <5>1, <5>2
      <4>2. QED
        BY <3>1, <4>1, <2>2, <1>k, ConstantsAssumption
    <3>2. QED
      BY <1>12, <3>1, <2>2, <1>k DEF Cleanup, HolderKnows, Request, Scope, Untouched
  <2>4. JournalIsTrue'
    BY <1>12, <2>2 DEF Cleanup, JournalIsTrue, Untouched, OnceIn
  <2>5. QED
    BY <2>1, <2>3, <2>4
<1>13. CASE UNCHANGED vars
  BY <1>13 DEF vars, LockIsHeld, PostsAreKnown, HolderKnows, JournalIsTrue,
               OkMeansDelivered, Request, Scope, Untouched, OnceIn
<1>14. QED
  BY <1>1, <1>2, <1>3, <1>4, <1>5, <1>6, <1>7, <1>8, <1>9, <1>10, <1>11, <1>12,
     <1>13 DEF Next, Step

------------------------------------------------------------------------------
LEMMA Invariance == Spec => [](TypeOK /\ Guarded)
<1>1. TypeOK /\ Guarded /\ [Next]_vars => (TypeOK /\ Guarded)'
  BY StepType, StepGuarded DEF Guarded
<1>2. QED
  BY InitType, InitGuarded, <1>1, PTL DEF Spec

\* TypeOK: every variable of the send journal has its type (service.send).
THEOREM TypeCorrect == Spec => []TypeOK
BY Invariance, PTL

\* A request whose record is kept reached one conversation, once, if any.
LEMMA RequestOnce ==
    ASSUME TypeOK, Guarded, NEW r \in Requests \ purged
    PROVE  \E s \in Scopes : OnceIn(r, s)
<1>1. CASE record[r] = NoRecord
  <2>1. PICK s \in Scopes : TRUE
    BY ConstantsAssumption
  <2>2. Untouched(r)
    BY <1>1 DEF Guarded, JournalIsTrue
  <2>3. OnceIn(r, s)
    BY <2>1, <2>2 DEF Untouched, OnceIn
  <2>4. QED
    BY <2>1, <2>3
<1>2. CASE record[r] # NoRecord
  BY <1>2, RecordType DEF Guarded, JournalIsTrue, Records
<1>3. QED
  BY <1>1, <1>2

\* DeliveredOnce: a request whose record is kept reached Telegram at most once,
\* whatever was posted again, lost or crashed (service._claim_send).
THEOREM SentOnce == Spec => []DeliveredOnce
<1>1. TypeOK /\ Guarded => DeliveredOnce
  BY RequestOnce DEF DeliveredOnce
<1>2. QED
  BY Invariance, <1>1, PTL

\* OkMeansDelivered: success is answered only for a message that is in Telegram,
\* in its conversation (service._claim_send, _finish_send).
THEOREM OkIsTrue == Spec => []OkMeansDelivered
BY Invariance, PTL DEF Guarded

\* Only a check that fails and a rejection answer with a failure.
LEMMA FailedStep ==
    ASSUME TypeOK, Guarded, [Next]_vars, NEW h \in Handlers,
           answer'[h] = "failed", answer[h] # "failed", Request(h) \notin purged
    PROVE  Untouched(Request(h))
<1>1. \E g \in Handlers : CheckFails(g) \/ Reject(g)
  <2> USE DEF TypeOK
  <2>1. \A g \in Handlers : ~Acquire(g)
    <3>1. \A g \in Handlers : Known(g) # "failed"
      BY DEF Known
    <3>2. QED
      BY <3>1 DEF Acquire, Reply
  <2>2. \A g \in Handlers : /\ ~Claim(g) /\ ~Accept(g) /\ ~PeerError(g)
                            /\ ~LoseContact(g) /\ ~Finish(g)
                            /\ \A p \in Posts : ~Post(g, p)
    BY DEF Claim, Accept, PeerError, LoseContact, Finish, Post, Reply
  <2>3. ~Crash /\ ~Tick /\ ~Cleanup /\ ~UNCHANGED vars
    BY DEF Crash, Tick, Cleanup, vars
  <2>4. QED
    BY <2>1, <2>2, <2>3 DEF Next, Step
<1>2. PICK g \in Handlers : CheckFails(g) \/ Reject(g)
  BY <1>1
<1>3. g = h
  BY <1>2 DEF CheckFails, Reject, Reply, TypeOK
<1>4. Request(h) \in Requests
  BY <1>2, <1>3 DEF Guarded, PostsAreKnown, Posts, Request, CheckFails,
                          Reject, Calling
<1>5. QED
  BY <1>2, <1>3, <1>4
     DEF CheckFails, Reject, Guarded, HolderKnows, JournalIsTrue

\* FailedMeansNotSent: a definite failure is answered only when nothing of the
\* request was delivered (the except clauses of service.send).
THEOREM FailedIsTrue == Spec => FailedMeansNotSent
<1>1. TypeOK /\ Guarded /\ [Next]_vars =>
        [\A h \in Handlers :
            answer'[h] = "failed" /\ answer[h] # "failed" /\ Request(h) \notin purged
              => Untouched(Request(h))]_vars
  BY FailedStep
<1>2. QED
  BY Invariance, <1>1, PTL DEF Spec, FailedMeansNotSent

------------------------------------------------------------------------------
\* The composer.

SendInv == TypeOK /\ Guarded

\* A step of the sends, or a post, keeps their invariant.
LEMMA SendKeeps == SendInv /\ [Next]_vars => SendInv'
BY StepType, StepGuarded DEF SendInv, Guarded

\* So does the tab when it takes its answer and lets go of the handler.
LEMMA HeardKeeps ==
    ASSUME SendInv, BrowserTypeOK, Heard
    PROVE  SendInv'
<1> USE DEF SendInv, TypeOK, BrowserTypeOK, Heard
<1>1. waiting \in Handlers /\ pc[waiting] = "idle"
  OBVIOUS
<1>2. TypeOK'
  BY <1>1 DEF Answers
<1>3. \A h \in Handlers : pc[h] # "idle" \/ answer'[h] = "ok" =>
         post'[h] = post[h] /\ answer'[h] = answer[h]
  BY <1>1
<1>4. LockIsHeld' /\ JournalIsTrue'
  BY DEF Guarded, LockIsHeld, JournalIsTrue, OnceIn, Untouched
<1>5. PostsAreKnown' /\ OkMeansDelivered'
  BY <1>3 DEF Guarded, PostsAreKnown, OkMeansDelivered, Request, Scope
<1>6. HolderKnows'
  BY <1>3 DEF Guarded, HolderKnows, Request, Scope, Untouched, Claimed, Calling
<1>7. QED
  BY <1>2, <1>4, <1>5, <1>6 DEF Guarded

\* What the sends do beside the tab.
Elsewhere ==
    /\ \/ \E h \in Handlers : Step(h)
       \/ \E h \in Handlers, p \in Posts : client = "any" /\ Post(h, p)
       \/ Crash
       \/ client = "any" /\ (Tick \/ Cleanup)
    /\ UNCHANGED browser

LEMMA ElsewhereKeepsPost ==
    ASSUME Elsewhere, OneClient
    PROVE  /\ [Next]_vars /\ UNCHANGED browser
           /\ waiting # NoHandler => UNCHANGED post
           /\ client = "tab" => UNCHANGED purged
<1>1. [Next]_vars /\ UNCHANGED browser
  BY DEF Elsewhere, Next
<1>2. CASE \E h \in Handlers : Step(h)
  BY <1>1, <1>2 DEF Step, Acquire, CheckFails, Claim, Accept, PeerError, Reject,
                   LoseContact, Finish
<1>3. CASE Crash
  BY <1>1, <1>3 DEF Crash
<1>4. CASE client = "any"
  BY <1>1, <1>4 DEF OneClient
<1>5. QED
  BY <1>2, <1>3, <1>4 DEF Elsewhere

\* The form posts through an idle handler, or not at all.
LEMMA SubmitPosts ==
    ASSUME Submit
    PROVE  \E r \in RequestIds :
             /\ request' = r /\ meant' = [meant EXCEPT ![r] = IF @ = 0 THEN draft ELSE @]
             /\ \/ \E h \in Handlers : /\ Post(h, [request |-> r, scope |-> Target])
                                       /\ waiting' = h
                \/ UNCHANGED <<vars, waiting>>
<1>1. (\E h \in Tab : pc[h] = "idle") => FreeHandler \in Handlers
  BY BrowserAssumption DEF FreeHandler
<1>2. QED
  BY <1>1 DEF Submit

LEMMA RequestIdsAreRequests ==
    ASSUME BrowserTypeOK, NEW r \in RequestIds
    PROVE  r \in Requests /\ ((request = NoRequest /\ meant[r] = 0) \/ request = r)
BY DEF RequestIds, Fresh, BrowserTypeOK

\* Every step is one of the sends, or the tab taking its answer.
LEMMA SendStep ==
    ASSUME BrowserTypeOK, OneClient, [BrowserNext]_<<vars, browser>>
    PROVE  [Next]_vars \/ Heard
<1>1. CASE Submit
  <2>1. PICK r \in RequestIds :
           \/ \E h \in Handlers : Post(h, [request |-> r, scope |-> Target])
           \/ UNCHANGED <<vars, waiting>>
    BY <1>1, SubmitPosts
  <2>2. [request |-> r, scope |-> Target] \in Posts
    BY RequestIdsAreRequests, BrowserAssumption DEF Posts
  <2>3. QED
    BY <2>1, <2>2 DEF Next
<1>2. CASE Change \/ ChooseReply \/ Unheard \/ Reload \/ UNCHANGED <<vars, browser>>
  BY <1>2 DEF Change, ChooseReply, Unheard, Reload
<1>3. CASE Elsewhere
  BY <1>3, ElsewhereKeepsPost
<1>4. QED
  BY <1>1, <1>2, <1>3 DEF BrowserNext, PostOfAny, Elsewhere

------------------------------------------------------------------------------
TabInv == BrowserTypeOK /\ OneClient /\ AwaitedPost /\ OneRequest

LEMMA InitTab == BrowserInit => SendInv /\ TabInv
<1> SUFFICES ASSUME BrowserInit PROVE SendInv /\ TabInv
  OBVIOUS
<1> USE BrowserAssumption DEF BrowserInit
<1>1. SendInv
  BY InitType, InitGuarded DEF SendInv
<1>2. TabInv
  BY DEF TabInv, BrowserTypeOK, OneClient, AwaitedPost, OneRequest, Init
<1>3. QED
  BY <1>1, <1>2

\* A new version has no request of its own yet.
LEMMA VersionKept ==
    ASSUME TabInv, NewVersion, client = "tab", parts' \subseteq Parts,
           request' \in {request, NoRequest}, draft # 0 \/ request' = NoRequest,
           UNCHANGED <<client, meant, post, purged>>, waiting' \in {waiting, NoHandler},
           unsure \subseteq unsure', unsure' \subseteq 1..edits
    PROVE  TabInv'
<1> USE DEF TabInv, BrowserTypeOK
<1>1. edits \in Nat /\ edits' = edits + 1 /\ edits' \in 0..MaxEdits /\ draft' = edits'
  BY BrowserAssumption DEF NewVersion
<1>2. 0..edits \subseteq 0..edits' /\ 1..edits \subseteq 1..edits'
  BY <1>1
<1>3. BrowserTypeOK'
  <2>1. meant' \in [Requests -> 0..edits'] /\ unsure' \subseteq 1..edits'
    BY <1>2
  <2>2. QED
    BY <1>1, <2>1
<1>4. OneClient' /\ AwaitedPost'
  BY DEF OneClient, AwaitedPost, Scope
<1>5. \A q \in Requests : meant'[q] = meant[q] /\ meant[q] # draft'
  BY <1>1
<1>6. OneRequest'
  BY <1>1, <1>5 DEF OneRequest
<1>7. QED
  BY <1>3, <1>4, <1>6

\* A reload keeps the version, makes another one, or leaves none.
LEMMA ReloadKept ==
    ASSUME TabInv, Reload
    PROVE  TabInv'
<1> USE BrowserAssumption DEF TabInv, BrowserTypeOK
<1>1. /\ draft # 0 /\ client = "tab" /\ request' = NoRequest /\ waiting' = NoHandler
      /\ parts' \subseteq Parts
      /\ unsure \subseteq unsure' /\ unsure' \subseteq 1..edits
      /\ request # NoRequest => draft \in unsure'
      /\ UNCHANGED <<client, meant, post, purged>>
  BY DEF Reload, OneClient, vars
<1>2. CASE NewVersion
  BY <1>1, <1>2, VersionKept
<1>3. CASE draft' \in {draft, 0} /\ edits' = edits
  <2>1. BrowserTypeOK' /\ OneClient' /\ AwaitedPost'
    BY <1>1, <1>3 DEF OneClient, AwaitedPost
  <2>2. OneRequest'
    BY <1>1, <1>3 DEF OneRequest
  <2>3. QED
    BY <2>1, <2>2
<1>4. QED
  BY <1>2, <1>3 DEF Reload

LEMMA TabKept ==
    ASSUME SendInv, TabInv, BrowserNext
    PROVE  TabInv'
<1> USE BrowserAssumption DEF TabInv, BrowserTypeOK
<1>1. CASE Change \/ ChooseReply
  <2>1. /\ NewVersion /\ parts' \subseteq Parts /\ request' \in {request, NoRequest}
        /\ draft # 0 \/ request' = NoRequest
        /\ UNCHANGED <<client, meant, post, purged, waiting, unsure>>
    BY <1>1 DEF Change, ChooseReply, Parts, vars
  <2>2. client = "tab"
    BY <1>1 DEF Change, ChooseReply, OneClient
  <2>3. QED
    BY <2>1, <2>2, VersionKept
<1>2. CASE Submit
  <2>1. PICK r \in RequestIds :
           /\ request' = r /\ meant' = [meant EXCEPT ![r] = IF @ = 0 THEN draft ELSE @]
           /\ \/ \E h \in Handlers : /\ Post(h, [request |-> r, scope |-> Target])
                                     /\ waiting' = h
              \/ UNCHANGED <<vars, waiting>>
    BY <1>2, SubmitPosts
  <2>2. r \in Requests /\ ((request = NoRequest /\ meant[r] = 0) \/ request = r)
    BY RequestIdsAreRequests
  <2>3. /\ draft # 0 /\ waiting = NoHandler /\ client = "tab"
        /\ UNCHANGED <<client, draft, edits, parts, unsure, purged>>
    BY <1>2, <2>1 DEF Submit, OneClient, Post, vars
  <2>4. BrowserTypeOK' /\ OneClient'
    BY <2>1, <2>2, <2>3 DEF OneClient
  <2>5. AwaitedPost'
    <3>1. ASSUME NEW h \in Handlers, Post(h, [request |-> r, scope |-> Target]),
                 waiting' = h
          PROVE  AwaitedPost'
      <4>1. post'[h] = [request |-> r, scope |-> Target]
        BY <3>1 DEF Post, SendInv, TypeOK
      <4>2. QED
        BY <3>1, <4>1, <2>2 DEF AwaitedPost, Posts, Scope
    <3>2. QED
      BY <2>1, <2>3, <3>1 DEF AwaitedPost
  <2>6. OneRequest'
    BY <2>1, <2>2, <2>3 DEF OneRequest
  <2>7. QED
    BY <2>4, <2>5, <2>6
<1>3. CASE Heard
  BY <1>3 DEF Heard, OneClient, AwaitedPost, OneRequest
<1>4. CASE Unheard
  BY <1>4 DEF Unheard, vars, OneClient, AwaitedPost, OneRequest
<1>5. CASE Reload
  BY <1>5, ReloadKept
<1>6. CASE Elsewhere
  <2>1. /\ UNCHANGED <<client, draft, edits, parts, request, waiting, meant, unsure>>
        /\ waiting # NoHandler => UNCHANGED post
        /\ client = "tab" => UNCHANGED purged
    BY <1>6, ElsewhereKeepsPost DEF browser
  <2>2. QED
    BY <2>1 DEF OneClient, AwaitedPost, OneRequest, Scope
<1>7. QED
  BY <1>1, <1>2, <1>3, <1>4, <1>5, <1>6 DEF BrowserNext, PostOfAny, Elsewhere

LEMMA Kept ==
    ASSUME SendInv, TabInv, [BrowserNext]_<<vars, browser>>
    PROVE  SendInv' /\ TabInv'
<1>1. CASE BrowserNext
  BY <1>1, TabKept, SendStep, SendKeeps, HeardKeeps DEF TabInv
<1>2. CASE UNCHANGED <<vars, browser>>
  <2>1. SendInv'
    BY <1>2, SendKeeps
  <2>2. TabInv'
    BY <1>2 DEF vars, browser, TabInv, BrowserTypeOK, OneClient, AwaitedPost, OneRequest,
                Scope
  <2>3. QED
    BY <2>1, <2>2
<1>3. QED
  BY <1>1, <1>2

LEMMA Together == BrowserSpec => [](SendInv /\ TabInv)
BY InitTab, Kept, PTL DEF BrowserSpec

------------------------------------------------------------------------------
\* BrowserInv: the types, what the lock of the sends protects and what the tab knows of
\* its own post (service.send, app.js onsubmit).
THEOREM Sound == BrowserSpec => []BrowserInv
<1>1. SendInv /\ TabInv => BrowserInv
  BY DEF SendInv, TabInv, Guarded, BrowserInv, Safe
<1>2. QED
  BY <1>1, Together, PTL

\* NothingWrittenIsLost: what is in the composer leaves it by the hand of the owner, or
\* because Telegram has it in the conversation of the tab, or, a file or a reply, at a
\* reload; two changes behind the back of a post apart (app.js draft, onsubmit,
\* service._finish_send).
THEOREM WrittenIsSent == BrowserSpec => NothingWrittenIsLost
<1> DEFINE Lost == /\ ~(parts \subseteq parts')
                   /\ ~Change /\ ~ChooseReply
                   /\ ~(Reload /\ ("text" \in parts => "text" \in parts'))
                   /\ waiting # NoHandler => meant[Request(waiting)] = draft
<1>1. ASSUME SendInv, TabInv, [BrowserNext]_<<vars, browser>>, Lost
      PROVE  \E m \in MessagesOf(draft) : m[2] = Target
  <2>1. Heard /\ answer[waiting] = "ok"
    <3>1. ~Reload
      BY <1>1 DEF Reload
    <3>2. parts' # parts
      BY <1>1
    <3>3. ~Submit /\ ~Unheard /\ ~(UNCHANGED browser)
      BY <3>2 DEF Submit, Unheard, browser
    <3>4. Heard
      BY <1>1, <3>1, <3>3 DEF BrowserNext, PostOfAny, browser
    <3>5. QED
      BY <3>2, <3>4 DEF Heard
  <2>2. /\ waiting \in Handlers /\ meant[Request(waiting)] = draft
        /\ Request(waiting) \in Requests /\ Scope(waiting) = Target
    BY <1>1, <2>1 DEF Heard, TabInv, BrowserTypeOK, AwaitedPost, Posts, Request
  <2>3. delivered[<<Request(waiting), Target>>] > 0
    BY <1>1, <2>1, <2>2 DEF SendInv, Guarded, OkMeansDelivered
  <2>4. <<Request(waiting), Target>> \in MessagesOf(draft)
    BY <2>2, <2>3, BrowserAssumption DEF MessagesOf, RequestsOf
  <2>5. QED
    BY <2>4
<1>2. SendInv /\ TabInv /\ [BrowserNext]_<<vars, browser>> =>
        [\/ parts \subseteq parts'
         \/ Change \/ ChooseReply
         \/ Reload /\ ("text" \in parts => "text" \in parts')
         \/ \E m \in MessagesOf(draft) : m[2] = Target
         \/ waiting # NoHandler /\ meant[Request(waiting)] # draft]_<<vars, browser>>
  BY <1>1
<1>3. QED
  BY <1>2, Together, PTL DEF BrowserSpec, NothingWrittenIsLost

\* DraftIsSentOnce: a version that was not reloaded after a post becomes one message at
\* most (app.js requestId, service._claim_send).
THEOREM DraftOnce == BrowserSpec => []DraftIsSentOnce
<1>1. ASSUME SendInv, TabInv, NEW v \in 1..edits, v \notin unsure
      PROVE  /\ Cardinality(MessagesOf(v)) <= 1
             /\ \A m \in MessagesOf(v) : delivered[m] = 1
  <2> USE DEF TabInv, BrowserTypeOK
  <2>1. CASE RequestsOf(v) = {}
    <3>1. MessagesOf(v) = {}
      BY <2>1 DEF MessagesOf
    <3>2. QED
      BY <3>1, FS_EmptySet
  <2>2. CASE RequestsOf(v) # {}
    <3>1. PICK r \in Requests : meant[r] = v
      BY <2>2 DEF RequestsOf
    <3>2. RequestsOf(v) = {r}
      BY <1>1, <3>1 DEF RequestsOf, OneRequest
    <3>3. r \notin purged
      BY <1>1, <3>1 DEF OneClient
    <3>4. PICK s \in Scopes : OnceIn(r, s)
      BY <1>1, <3>3, RequestOnce DEF SendInv
    <3>5. delivered \in [Requests \X Scopes -> 0..2]
      BY <1>1 DEF SendInv, TypeOK
    <3>6. ASSUME NEW m \in MessagesOf(v) PROVE m = <<r, s>> /\ delivered[m] = 1
      <4>1. PICK t \in Scopes : m = <<r, t>> /\ delivered[<<r, t>>] > 0
        BY <3>2, <3>6 DEF MessagesOf
      <4>2. t = s
        BY <3>4, <4>1 DEF OnceIn
      <4>3. QED
        BY <3>1, <3>4, <3>5, <4>1, <4>2 DEF OnceIn
    <3>7. MessagesOf(v) \subseteq {<<r, s>>}
      BY <3>6
    <3>8. Cardinality(MessagesOf(v)) <= 1
      <4>1. IsFiniteSet({<<r, s>>}) /\ Cardinality({<<r, s>>}) = 1
        BY FS_Singleton
      <4>2. QED
        BY <3>7, <4>1, FS_Subset
    <3>9. QED
      BY <3>6, <3>8
  <2>3. QED
    BY <2>1, <2>2
<1>2. SendInv /\ TabInv => DraftIsSentOnce
  BY <1>1 DEF DraftIsSentOnce
<1>3. QED
  BY <1>2, Together, PTL

\* DeliveredOnce, OkMeansDelivered and FailedMeansNotSent hold of the sends under the
\* composer as they do of the sends alone (app.js onsubmit, service.send).
THEOREM SendsHold ==
    BrowserSpec => [](DeliveredOnce /\ OkMeansDelivered) /\ FailedMeansNotSent
<1>1. SendInv => DeliveredOnce /\ OkMeansDelivered
  BY RequestOnce DEF SendInv, Guarded, DeliveredOnce
<1>2. ASSUME SendInv, TabInv, [BrowserNext]_<<vars, browser>>, NEW h \in Handlers,
             answer'[h] = "failed", answer[h] # "failed", Request(h) \notin purged
      PROVE  Untouched(Request(h))
  <2>1. CASE [Next]_vars
    BY <1>2, <2>1, FailedStep DEF SendInv
  <2>2. CASE Heard
    BY <1>2, <2>2 DEF Heard, SendInv, TypeOK
  <2>3. QED
    BY <1>2, <2>1, <2>2, SendStep DEF TabInv
<1>3. SendInv /\ TabInv /\ [BrowserNext]_<<vars, browser>> =>
        [\A h \in Handlers :
            answer'[h] = "failed" /\ answer[h] # "failed" /\ Request(h) \notin purged
              => Untouched(Request(h))]_vars
  BY <1>2
<1>4. QED
  BY <1>1, <1>3, Together, PTL DEF BrowserSpec, FailedMeansNotSent

------------------------------------------------------------------------------
\* The pushes.

\* Steps that leave the pass, the deliveries and the history alone.
DeliveriesStay == UNCHANGED <<delivery, todo, current, history>>

LEMMA NextKinds ==
    ASSUME PushNext
    PROVE  DeliveriesStay \/ StartPass \/ Visit \/ Accepted \/ Gone \/ Refused \/ TimedOut
             \/ PushCrash \/ PushTick \/ \E s \in Subscriptions : Subscribe(s)
  BY DEF PushNext, Outcome, Raise, Fade, Read, Close, Mute, Ignore, Unsubscribe, DeliveriesStay,
         table, history

------------------------------------------------------------------------------
\* What the operators of a pass yield.

LEMMA AttemptsType ==
    ASSUME PushTypeOK, NEW p \in Pairs
    PROVE  Attempts(p) \in Nat
  BY DEF PushTypeOK, Deliveries, Attempts

\* The push under way has a delivery, which is not over.
LEMMA CurrentType ==
    ASSUME PushTypeOK, UnderWay, current # NoPush
    PROVE  /\ current \in Pairs
           /\ delivery[current] \in Deliveries
           /\ ~delivery[current].done
           /\ Attempts(current) = delivery[current].attempts
           /\ Attempts(current) \in Nat \ {0}
  BY DEF PushTypeOK, UnderWay, Deliveries, Attempts

LEMMA RecordedType ==
    ASSUME PushTypeOK, UnderWay, current # NoPush, NEW wait \in Nat, NEW done \in BOOLEAN,
           Record(current, wait, done)
    PROVE  /\ delivery' \in [Pairs -> Deliveries \cup {NoDelivery}]
           /\ current' = NoPush
           /\ delivery'[current] = [attempts |-> Attempts(current), wait |-> wait,
                                    done |-> done]
           /\ \A p \in Pairs \ {current} : delivery'[p] = delivery[p]
<1>1. [attempts |-> Attempts(current), wait |-> wait, done |-> done] \in Deliveries
  BY CurrentType DEF Deliveries
<1> QED
  BY <1>1, CurrentType DEF PushTypeOK, Record

\* A postponement is a record, done at the last attempt and not before.
LEMMA PostponeIsRecord ==
    ASSUME PushAssumption, PushTypeOK, UnderWay, current # NoPush, Postpone(current)
    PROVE  \E wait \in Nat, done \in BOOLEAN :
               /\ Record(current, wait, done)
               /\ ~done => Attempts(current) < MaxAttempts
<1>1. CASE Attempts(current) >= MaxAttempts
  <2>1. Record(current, 0, TRUE)
    BY <1>1 DEF Postpone
  <2> QED
    BY <2>1
<1>2. CASE ~(Attempts(current) >= MaxAttempts)
  <2>1. Attempts(current) < MaxAttempts
    BY <1>2, CurrentType DEF PushAssumption
  <2>2. Backoff[Attempts(current)] \in Nat
    BY <2>1, CurrentType DEF PushAssumption
  <2>3. PICK wait \in 0..Backoff[Attempts(current)] : Record(current, wait, FALSE)
    BY <1>2 DEF Postpone
  <2>4. wait \in Nat
    BY <2>2, <2>3
  <2> QED
    BY <2>1, <2>3, <2>4
<1> QED
  BY <1>1, <1>2

LEMMA PushType ==
    ASSUME PushTypeOK, NEW p \in Pairs, Push(p)
    PROVE  /\ pushed' \in [Pairs -> 0..2]
           /\ pushed'[p] > 0
           /\ pushed'[p] <= pushed[p] + 1
           /\ \A q \in Pairs \ {p} : pushed'[q] = pushed[q]
  BY DEF PushTypeOK, Push

------------------------------------------------------------------------------
\* The inductive invariant, conjunct by conjunct.

LEMMA InitSafe == PushAssumption /\ PushInit => PushSafe
  BY SMT DEF PushAssumption, PushInit, PushSafe, PushTypeOK, UnderWay, CountsAreRight

LEMMA TypeStep ==
    ASSUME PushAssumption, PushSafe, PushNext
    PROVE  PushTypeOK'
<1> USE DEF PushSafe
<1>1. CASE Raise
  <2>1. raised' \in 0..MaxEvents /\ raised' \in Events
    BY <1>1 DEF Raise, PushTypeOK, PushAssumption, Events
  <2>2. active' \subseteq Conversations
    BY <1>1, <2>1 DEF Raise, PushTypeOK, PushAssumption
  <2>3. suppressed' \subseteq Events
    BY <1>1, <2>1 DEF Raise, PushTypeOK
  <2> QED
    BY <1>1, <2>1, <2>2, <2>3 DEF Raise, PushTypeOK, table, history
<1>2. CASE Fade
  <2>1. faded' \in 0..MaxEvents
    BY <1>2 DEF Fade, PushTypeOK, PushAssumption
  <2> QED
    BY <1>2, <2>1 DEF Fade, PushTypeOK, table, history
<1>3. ASSUME NEW c \in Conversations, Read(c) PROVE PushTypeOK'
  <2>1. PICK e \in Rows(c) : seen' = [seen EXCEPT ![c] = e]
    BY <1>3 DEF Read
  <2>2. e \in 0..MaxEvents
    BY <2>1 DEF Rows, PushTypeOK, PushAssumption
  <2>3. seen' \in [Conversations -> 0..MaxEvents]
    BY <2>1, <2>2 DEF PushTypeOK
  <2> QED
    BY <1>3, <2>3 DEF Read, PushTypeOK, table, history
<1>4. ASSUME NEW c \in Conversations, Close(c) \/ Mute(c) \/ Ignore(c) PROVE PushTypeOK'
  BY <1>4 DEF Close, Mute, Ignore, PushTypeOK, table, history
<1>5. ASSUME NEW s \in Subscriptions, Subscribe(s) \/ Unsubscribe(s)
      PROVE  PushTypeOK'
  <2>1. CASE Subscribe(s)
    <3>1. sub' \in [Subscriptions -> {"none", "on", "off"}]
      BY <2>1 DEF Subscribe, PushTypeOK
    <3>2. since' \in [Subscriptions -> 0..MaxEvents]
      BY <2>1 DEF Subscribe, PushTypeOK
    <3> QED
      BY <2>1, <3>1, <3>2 DEF Subscribe, PushTypeOK, inbox, history
  <2>2. CASE Unsubscribe(s)
    <3>1. sub' \in [Subscriptions -> {"none", "on", "off"}]
      BY <2>2 DEF Unsubscribe, PushTypeOK
    <3> QED
      BY <2>2, <3>1 DEF Unsubscribe, PushTypeOK, inbox, history
  <2> QED
    BY <1>5, <2>1, <2>2
<1>6. CASE StartPass
  BY <1>6 DEF StartPass, PushTypeOK, inbox, table, history
<1>7. CASE Visit
  <2>1. PICK p \in todo :
          /\ todo' = todo \ {p}
          /\ \/ /\ delivery' = [delivery EXCEPT ![p] =
                                  [attempts |-> Attempts(p) + 1, wait |-> 0, done |-> FALSE]]
                /\ current' = p
             \/ UNCHANGED <<delivery, current>>
          /\ UNCHANGED <<inbox, sub, since, history>>
    BY <1>7 DEF Visit
  <2>2. p \in Pairs /\ Attempts(p) + 1 \in Nat \ {0}
    BY <2>1, AttemptsType DEF PushTypeOK
  <2>3. [attempts |-> Attempts(p) + 1, wait |-> 0, done |-> FALSE] \in Deliveries
    BY <2>2 DEF Deliveries
  <2> QED
    BY <2>1, <2>2, <2>3 DEF PushTypeOK, inbox, history
<1>8. CASE Accepted
  <2>1. pushed' \in [Pairs -> 0..2]
    BY <1>8, CurrentType, PushType DEF Accepted
  <2>2. delivery' \in [Pairs -> Deliveries \cup {NoDelivery}] /\ current' = NoPush
    BY <1>8, RecordedType DEF Accepted
  <2> QED
    BY <1>8, <2>1, <2>2 DEF Accepted, PushTypeOK, inbox
<1>9. CASE Gone
  BY <1>9, CurrentType, RecordedType DEF Gone, PushTypeOK, inbox, history
<1>10. CASE Refused
  BY <1>10, CurrentType, RecordedType, PostponeIsRecord DEF Refused, PushTypeOK, inbox, history
<1>11. CASE TimedOut
  <2>1. pushed' \in [Pairs -> 0..2]
    BY <1>11, CurrentType, PushType DEF TimedOut, PushTypeOK
  <2>2. delivery' \in [Pairs -> Deliveries \cup {NoDelivery}] /\ current' = NoPush
    BY <1>11, PostponeIsRecord, RecordedType DEF TimedOut
  <2>3. doubt' \subseteq Pairs
    BY <1>11, CurrentType DEF TimedOut, PushTypeOK
  <2> QED
    BY <1>11, <2>1, <2>2, <2>3 DEF TimedOut, PushTypeOK, inbox
<1>12. CASE PushCrash
  BY <1>12 DEF PushCrash, Push, PushTypeOK, PushAssumption, inbox, table
<1>13. CASE PushTick
  <2>1. delivery' \in [Pairs -> Deliveries \cup {NoDelivery}]
    BY <1>13 DEF PushTick, Waiting, PushTypeOK, Deliveries
  <2> QED
    BY <1>13, <2>1 DEF PushTick, PushTypeOK, inbox, history
<1> QED
  BY <1>1, <1>2, <1>3, <1>4, <1>5, <1>6, <1>7, <1>8, <1>9, <1>10, <1>11, <1>12, <1>13
  DEF PushNext, Outcome

\* CountsAreRight of one pair.
Right(p) ==
    IF delivery[p] = NoDelivery THEN pushed[p] = 0
    ELSE /\ delivery[p].attempts <= MaxAttempts + deaths
         /\ ~delivery[p].done /\ p # current =>
              delivery[p].attempts < MaxAttempts + deaths
         /\ pushed[p] > 0 => delivery[p].done \/ p \in doubt
         /\ p \notin doubt => pushed[p] <= 1

LEMMA CountsPairwise == CountsAreRight <=> \A p \in Pairs : Right(p)
  BY DEF CountsAreRight, Right

\* What a record of the push under way keeps of the invariant, if the push is
\* counted rightly.
LEMMA RecordKeeps ==
    ASSUME PushAssumption, PushSafe, NEW wait \in Nat, NEW done \in BOOLEAN,
           current # NoPush, Record(current, wait, done),
           ~done => Attempts(current) < MaxAttempts,
           UNCHANGED deaths, doubt' \in {doubt, doubt \cup {current}},
           \/ UNCHANGED pushed
           \/ Push(current) /\ (done \/ current \in doubt'),
           PushTypeOK'
    PROVE  UnderWay' /\ CountsAreRight'
<1> DEFINE q == current
<1>1. /\ current' = NoPush
      /\ delivery'[q] = [attempts |-> Attempts(q), wait |-> wait, done |-> done]
      /\ \A p \in Pairs \ {q} : delivery'[p] = delivery[p]
  BY RecordedType DEF PushSafe
<1>2. UnderWay'
  BY <1>1 DEF UnderWay
<1>3. /\ q \in Pairs /\ ~delivery[q].done
      /\ Attempts(q) = delivery[q].attempts /\ Attempts(q) \in Nat \ {0}
      /\ delivery[q] # NoDelivery
  BY CurrentType DEF PushSafe, UnderWay
<1>4. /\ deaths \in Nat /\ MaxAttempts \in Nat
      /\ pushed \in [Pairs -> 0..2] /\ pushed' \in [Pairs -> 0..2]
  BY DEF PushSafe, PushTypeOK, PushAssumption
<1>5. ASSUME NEW p \in Pairs PROVE Right(p)'
  <2>1. Right(p)
    BY <1>5, CountsPairwise DEF PushSafe
  <2>2. CASE p # q
    <3>1. pushed'[p] = pushed[p]
      BY <1>3, <1>4, <2>2 DEF Push
    <3> QED
      BY <1>1, <2>1, <2>2, <3>1 DEF Right
  <2>3. CASE p = q
    <3>1. /\ delivery'[q] # NoDelivery
          /\ delivery'[q].attempts = Attempts(q) /\ delivery'[q].done = done
      BY <1>1, <1>3 DEF Deliveries, PushAssumption, PushTypeOK
    <3>2. /\ Attempts(q) <= MaxAttempts + deaths
          /\ pushed[q] > 0 => q \in doubt
      BY <1>3, <2>1, <2>3 DEF Right
    <3>3. ~done => Attempts(q) < MaxAttempts + deaths
      BY <1>3, <1>4
    <3>4. pushed'[q] > 0 => done \/ q \in doubt'
      BY <1>3, <1>4, <3>2 DEF Push
    <3>5. q \notin doubt' => pushed'[q] <= 1
      BY <1>3, <1>4, <3>2 DEF Push
    <3> QED
      BY <2>3, <3>1, <3>2, <3>3, <3>4, <3>5 DEF Right
  <2> QED
    BY <2>2, <2>3
<1> QED
  BY <1>2, <1>5, CountsPairwise DEF CountsAreRight, Right

LEMMA SafeStep ==
    ASSUME PushAssumption, PushSafe, PushNext
    PROVE  UnderWay' /\ CountsAreRight'
<1> USE DEF PushSafe
<1>t. PushTypeOK'
  BY TypeStep
<1>n. /\ deaths \in Nat /\ deaths' \in Nat /\ MaxAttempts \in Nat \ {0}
  BY <1>t DEF PushTypeOK, PushAssumption
<1>1. CASE DeliveriesStay \/ StartPass \/ \E s \in Subscriptions : Subscribe(s)
  BY <1>1 DEF DeliveriesStay, StartPass, Subscribe, table, history, UnderWay, CountsAreRight
<1>2. CASE Visit
  <2>1. PICK p \in todo :
          /\ current = NoPush
          /\ \/ /\ Due(p)
                /\ delivery' = [delivery EXCEPT ![p] =
                                  [attempts |-> Attempts(p) + 1, wait |-> 0, done |-> FALSE]]
                /\ current' = p
             \/ UNCHANGED <<delivery, current>>
          /\ UNCHANGED history
    BY <1>2 DEF Visit
  <2>2. CASE UNCHANGED <<delivery, current>>
    BY <2>1, <2>2 DEF history, UnderWay, CountsAreRight
  <2>3. CASE current' = p /\ Due(p)
             /\ delivery' = [delivery EXCEPT ![p] =
                               [attempts |-> Attempts(p) + 1, wait |-> 0, done |-> FALSE]]
    <3>1. /\ p \in Pairs /\ p # NoPush /\ p # current
          /\ [attempts |-> Attempts(p) + 1, wait |-> 0, done |-> FALSE] # NoDelivery
      <4>1. p \in Pairs /\ p # NoPush /\ p # current
        BY <2>1 DEF PushTypeOK, PushAssumption
      <4>2. Attempts(p) + 1 \in Nat \ {0}
        BY <4>1, AttemptsType
      <4>3. [attempts |-> Attempts(p) + 1, wait |-> 0, done |-> FALSE] \in Deliveries
        BY <4>2 DEF Deliveries
      <4> QED
        BY <4>1, <4>3 DEF PushAssumption
    <3>2. UnderWay'
      BY <2>3, <3>1 DEF UnderWay, PushTypeOK
    <3>3. /\ Attempts(p) < MaxAttempts + deaths
          /\ pushed[p] > 0 => p \in doubt
          /\ p \notin doubt => pushed[p] <= 1
      BY <2>1, <2>3, <3>1, <1>n, CountsPairwise DEF Due, Attempts, Right, PushTypeOK
    <3>4. ASSUME NEW q \in Pairs PROVE Right(q)'
      <4>1. CASE q # p
        BY <2>1, <2>3, <4>1, CountsPairwise DEF Right, PushTypeOK, history
      <4>2. CASE q = p
        BY <2>1, <2>3, <4>2, <3>1, <3>3, <1>n, AttemptsType DEF Right, PushTypeOK, history
      <4> QED
        BY <4>1, <4>2
    <3> QED
      BY <3>2, <3>4 DEF CountsAreRight, Right
  <2> QED
    BY <2>1, <2>2, <2>3
<1>3. CASE Accepted
  BY <1>3, <1>t, RecordKeeps DEF Accepted
<1>4. CASE Gone
  BY <1>4, <1>t, RecordKeeps DEF Gone, history
<1>5. CASE Refused
  BY <1>5, <1>t, RecordKeeps, PostponeIsRecord DEF Refused, history
<1>6. CASE TimedOut
  BY <1>6, <1>t, RecordKeeps, PostponeIsRecord DEF TimedOut
<1>7. CASE PushCrash
  <2>1. UnderWay'
    BY <1>7 DEF PushCrash, UnderWay
  <2>2. ASSUME NEW p \in Pairs PROVE Right(p)'
    <3>1. delivery'[p] = delivery[p] /\ deaths' = deaths + 1
      BY <1>7 DEF PushCrash, table
    <3>2. Right(p) /\ pushed[p] \in 0..2 /\ delivery[p] \in Deliveries \cup {NoDelivery}
      BY CountsPairwise DEF PushTypeOK
    <3>3. CASE p = current
      <4>1. p \in doubt' /\ delivery[p] # NoDelivery
        BY <1>7, <3>3, CurrentType DEF PushCrash, UnderWay, PushAssumption
      <4> QED
        BY <3>1, <3>2, <3>3, <4>1, <1>n DEF Right, Deliveries
    <3>4. CASE p # current
      <4>1. pushed'[p] = pushed[p] /\ doubt \subseteq doubt'
            /\ (p \in doubt' => p \in doubt)
        BY <1>7, <3>4, CurrentType, PushType DEF PushCrash
      <4> QED
        BY <3>1, <3>2, <3>4, <4>1, <1>n DEF Right, Deliveries
    <3> QED
      BY <3>3, <3>4
  <2> QED
    BY <2>1, <2>2 DEF CountsAreRight, Right
<1>8. CASE PushTick
  <2>1. \A p \in Pairs : \/ delivery'[p] = delivery[p]
                         \/ /\ delivery[p] # NoDelivery /\ delivery'[p] # NoDelivery
                            /\ delivery'[p].attempts = delivery[p].attempts
                            /\ delivery'[p].done = delivery[p].done
    <3>1. ASSUME NEW p \in Pairs, Waiting(p)
          PROVE  [attempts |-> delivery[p].attempts, wait |-> delivery[p].wait - 1,
                  done |-> delivery[p].done] \in Deliveries
      BY <3>1 DEF Waiting, PushTypeOK, Deliveries
    <3> QED
      BY <1>8, <3>1 DEF PushTick, Waiting, PushAssumption
  <2>2. UnderWay'
    BY <1>8, <2>1 DEF PushTick, UnderWay, PushTypeOK
  <2>3. ASSUME NEW p \in Pairs PROVE Right(p)'
    BY <1>8, <2>1, CountsPairwise DEF PushTick, history, Right
  <2> QED
    BY <2>2, <2>3 DEF CountsAreRight, Right
<1> QED
  BY <1>1, <1>2, <1>3, <1>4, <1>5, <1>6, <1>7, <1>8, NextKinds

LEMMA StutterSafe == PushSafe /\ UNCHANGED pushVars => PushSafe'
  BY DEF PushSafe, PushTypeOK, UnderWay, CountsAreRight, pushVars, inbox, table, history

\* The inductive invariant holds always.
THEOREM AlwaysSafe == PushSpec => []PushSafe
<1>1. PushInit => PushSafe
  BY InitSafe, PushAssumption
<1>2. PushSafe /\ [PushNext]_pushVars => PushSafe'
  BY TypeStep, SafeStep, StutterSafe, PushAssumption DEF PushSafe
<1> QED
  BY <1>1, <1>2, PTL DEF PushSpec

------------------------------------------------------------------------------
\* Every state is well typed.
THEOREM PushTypeCorrect == PushSpec => []PushTypeOK
<1>1. PushSafe => PushTypeOK
  BY DEF PushSafe
<1> QED
  BY <1>1, AlwaysSafe, PTL

\* A pair is tried MaxAttempts times at most, and once more for each crash
\* (push.py, MAX_ATTEMPTS).
THEOREM Bounded == PushSpec => []AttemptsAreBounded
<1>1. PushSafe => AttemptsAreBounded
  BY PushAssumption
  DEF PushSafe, PushTypeOK, CountsAreRight, AttemptsAreBounded, Attempts, PushAssumption
<1> QED
  BY <1>1, AlwaysSafe, PTL

\* A pair whose attempts were all answered is pushed once at most.
THEOREM Once == PushSpec => []PushedOnce
<1>1. PushSafe => PushedOnce
  BY DEF PushSafe, PushTypeOK, CountsAreRight, PushedOnce
<1> QED
  BY <1>1, AlwaysSafe, PTL

------------------------------------------------------------------------------
\* The outbox.

\* The types of the three variables of the outbox.
LEMMA OutboxTyped == ASSUME PushTypeOK PROVE Abstract!TypeOK
<1>1. [p \in Pairs |-> Stage(p)] \in [Pairs -> {"open", "trying", "taken", "closed"}]
  BY DEF Stage
<1> QED
  BY <1>1 DEF PushTypeOK, Abstract!TypeOK, Abstract!Stages

LEMMA InitIsOpen == ASSUME PushAssumption, PushInit PROVE Abstract!Init
<1>1. \A p \in Pairs : Stage(p) = "open"
  BY DEF PushInit, Stage, Over, PushAssumption
<1>2. [p \in Pairs |-> Stage(p)] \in [Pairs -> {"open", "closed"}]
  BY <1>1
<1> QED
  BY <1>2 DEF PushInit, Abstract!Init

\* A pair that a step does not touch.
LEMMA UntouchedRests ==
    ASSUME NEW p \in Pairs, Stage(p)' = Stage(p), pushed'[p] = pushed[p],
           p \in doubt' <=> p \in doubt
    PROVE  Abstract!Rest(p)
  BY DEF Abstract!Rest, Abstract!Uncounted, Abstract!Sure

\* A record of the push under way is a step of its pair and of no other.
LEMMA RecordIsStep ==
    ASSUME PushAssumption, PushSafe, NEW wait \in Nat, NEW done \in BOOLEAN,
           current # NoPush, Record(current, wait, done), NEW p \in Pairs
    PROVE  /\ p # current => Stage(p)' = Stage(p)
           /\ p = current => /\ Stage(p) = "trying"
                             /\ Stage(p)' = IF done THEN "closed" ELSE "open"
<1>1. /\ current' = NoPush
      /\ delivery'[current] = [attempts |-> Attempts(current), wait |-> wait,
                               done |-> done]
      /\ \A q \in Pairs \ {current} : delivery'[q] = delivery[q]
  BY RecordedType DEF PushSafe
<1>2. [attempts |-> Attempts(current), wait |-> wait, done |-> done] \in Deliveries
  BY CurrentType DEF Deliveries, PushSafe
<1>3. delivery'[current] # NoDelivery /\ delivery'[current].done = done
  BY <1>1, <1>2 DEF PushAssumption
<1> QED
  BY <1>1, <1>3 DEF Stage, Over, PushAssumption

\* Every step is one of the outbox, pair by pair.
LEMMA StepOfPair ==
    ASSUME PushAssumption, PushSafe, PushNext, NEW p \in Pairs
    PROVE  Abstract!Step(p) \/ Abstract!Rest(p)
<1> USE DEF PushSafe
<1>d. NoPush # p /\ NoDelivery \notin Deliveries /\ pushed[p] \in 0..2
  BY DEF PushAssumption, PushTypeOK
<1>1. CASE DeliveriesStay \/ StartPass \/ \E s \in Subscriptions : Subscribe(s)
  BY <1>1, UntouchedRests
  DEF DeliveriesStay, StartPass, Subscribe, table, history, Stage, Over
<1>2. CASE Visit
  <2>1. PICK q \in todo :
          /\ current = NoPush
          /\ \/ /\ Due(q)
                /\ delivery' = [delivery EXCEPT ![q] =
                                  [attempts |-> Attempts(q) + 1, wait |-> 0, done |-> FALSE]]
                /\ current' = q
             \/ UNCHANGED <<delivery, current>>
          /\ UNCHANGED history
    BY <1>2 DEF Visit
  <2>2. CASE UNCHANGED <<delivery, current>> \/ p # q
    <3>1. Stage(p)' = Stage(p)
      BY <2>1, <2>2, <1>d DEF Stage, Over, PushTypeOK
    <3> QED
      BY <3>1, <2>1, UntouchedRests DEF history
  <2>3. CASE p = q /\ Due(q) /\ current' = q
    <3>1. Stage(p) = "open" /\ Stage(p)' = "trying"
      BY <2>1, <2>3, <1>d DEF Stage, Over, Due
    <3> QED
      BY <3>1, <2>1
      DEF history, Abstract!Step, Abstract!Try, Abstract!Moves, Abstract!Uncounted,
          Abstract!Sure
  <2> QED
    BY <2>1, <2>2, <2>3
<1>3. CASE Accepted
  <2>1. CASE p = current
    BY <1>3, <2>1, <1>d, RecordIsStep
    DEF Accepted, Push, PushTypeOK, Abstract!Step, Abstract!Take, Abstract!Moves,
        Abstract!Counted, Abstract!Sure
  <2>2. CASE p # current
    BY <1>3, <2>2, RecordIsStep, UntouchedRests DEF Accepted, Push, PushTypeOK
  <2> QED
    BY <2>1, <2>2
<1>4. CASE Gone
  BY <1>4, RecordIsStep, UntouchedRests
  DEF Gone, history, Abstract!Step, Abstract!Refuse, Abstract!Moves,
      Abstract!Uncounted, Abstract!Sure
<1>5. CASE Refused
  BY <1>5, PostponeIsRecord, RecordIsStep, UntouchedRests
  DEF Refused, history, Abstract!Step, Abstract!Refuse, Abstract!Moves,
      Abstract!Uncounted, Abstract!Sure
<1>6. CASE TimedOut
  <2>1. PICK wait \in Nat, done \in BOOLEAN : Record(current, wait, done)
    BY <1>6, PostponeIsRecord DEF TimedOut
  <2>2. CASE p = current
    <3>1. /\ Stage(p) = "trying" /\ Stage(p)' \in {"open", "closed"} /\ p \in doubt'
          /\ pushed'[p] \in {pushed[p], IF pushed[p] = 0 THEN 1 ELSE 2}
      BY <1>6, <2>1, <2>2, RecordIsStep DEF TimedOut, Push, PushTypeOK
    <3> QED
      BY <3>1
      DEF Abstract!Step, Abstract!Lose, Abstract!Moves, Abstract!Uncounted,
          Abstract!Counted
  <2>3. CASE p # current
    <3>1. /\ Stage(p)' = Stage(p) /\ pushed'[p] = pushed[p]
          /\ (p \in doubt' <=> p \in doubt)
      BY <1>6, <2>1, <2>3, RecordIsStep DEF TimedOut, Push, PushTypeOK
    <3> QED
      BY <3>1, UntouchedRests
  <2> QED
    BY <2>2, <2>3
<1>7. CASE PushCrash
  <2>1. current' = NoPush /\ delivery' = delivery
    BY <1>7 DEF PushCrash, table
  <2>2. CASE p = current
    <3>1. /\ Stage(p) = "trying" /\ Stage(p)' = "open" /\ p \in doubt'
          /\ pushed'[p] \in {pushed[p], IF pushed[p] = 0 THEN 1 ELSE 2}
      BY <1>7, <1>d, <2>1, <2>2 DEF PushCrash, Push, PushTypeOK, UnderWay, Stage, Over
    <3> QED
      BY <3>1
      DEF Abstract!Step, Abstract!Lose, Abstract!Moves, Abstract!Uncounted,
          Abstract!Counted
  <2>3. CASE p # current
    <3>1. /\ Stage(p)' = Stage(p) /\ pushed'[p] = pushed[p]
          /\ (p \in doubt' <=> p \in doubt)
      BY <1>7, <1>d, <2>1, <2>3 DEF PushCrash, Push, PushTypeOK, Stage, Over
    <3> QED
      BY <3>1, UntouchedRests
  <2> QED
    BY <2>2, <2>3
<1>8. CASE PushTick
  <2>1. Over(p)' = Over(p) /\ UNCHANGED <<current, history>>
    <3>1. Waiting(p) => [attempts |-> delivery[p].attempts,
                         wait |-> delivery[p].wait - 1,
                         done |-> delivery[p].done] \in Deliveries
      BY DEF Waiting, PushTypeOK, Deliveries
    <3> QED
      BY <1>8, <1>d, <3>1 DEF PushTick, Waiting, Over
  <2> QED
    BY <2>1, UntouchedRests DEF Stage, history
<1> QED
  BY <1>1, <1>2, <1>3, <1>4, <1>5, <1>6, <1>7, <1>8, NextKinds

\* The passes over stale snapshots, with devices and crashes between them, are an
\* outbox of the pairs (_deliver): what AlertOutboxProofs says of outboxes holds of it.
THEOREM Refinement == PushSpec => ImplementsOutbox
<1>1. PushInit => Abstract!Init
  BY InitIsOpen, PushAssumption
<1>2. PushSafe /\ PushSafe' /\ [PushNext]_pushVars => [Abstract!Next]_(Abstract!vars)
  <2> SUFFICES ASSUME PushSafe, PushSafe', [PushNext]_pushVars
               PROVE  [Abstract!Next]_(Abstract!vars)
    OBVIOUS
  <2>1. CASE PushNext
    <3>1. Abstract!TypeOK'
      BY OutboxTyped, PTL DEF PushSafe
    <3> QED
      BY <2>1, <3>1, StepOfPair, PushAssumption
      DEF Abstract!Next, Abstract!TypeOK
  <2>2. CASE UNCHANGED pushVars
    BY <2>2 DEF pushVars, history, table, Abstract!vars, Stage, Over
  <2> QED
    BY <2>1, <2>2
<1> QED
  BY <1>1, <1>2, AlwaysSafe, PTL DEF PushSpec, ImplementsOutbox, Abstract!Spec
=============================================================================
