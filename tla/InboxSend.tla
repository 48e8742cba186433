----------------------------- MODULE InboxSend -----------------------------
(***************************************************************************)
(* Manual sending (inbox/service.py: send, send_saved, send_library): how  *)
(* a request id makes a send idempotent.                                   *)
(*                                                                         *)
(* A browser posts a draft under a request id and may post it again, from  *)
(* this tab or another, whatever became of the first post.  A handler      *)
(* holds action_lock from its first look at inbox_sends to its answer and  *)
(* records the request before it calls Telegram; Telegram accepts, rejects *)
(* or loses the call, and the process may die at any await.                *)
(***************************************************************************)
EXTENDS Integers, FiniteSets

CONSTANTS
    Requests,  \* request ids
    Scopes,    \* conversations and library sources that can be written to
    Handlers,  \* posts that may be under way at the same time
    Retention, \* ticks after which cleanup forgets a request (24 hours)
    MaxCrashes,
    NoRecord, NoHandler, NoPost

Posts == [request : Requests, scope : Scopes]
Records == [scope : Scopes, sent : BOOLEAN, age : 0..Retention]

ASSUME ConstantsAssumption ==
    /\ Retention \in Nat \ {0} /\ MaxCrashes \in Nat
    /\ Scopes # {}
    /\ NoHandler \notin Handlers /\ NoRecord \notin Records /\ NoPost \notin Posts

VARIABLES
    record,    \* inbox_sends: [scope, sent, age] by request id
    lock,      \* action_lock: the handler that holds it
    post,      \* what each handler was asked: [request, scope]
    pc,        \* where each handler is
    answer,    \* what the handler's last post was answered
    delivered, \* history: messages Telegram accepted, by request and scope
    purged,    \* history: requests that cleanup forgot
    crashes

vars == <<record, lock, post, pc, answer, delivered, purged, crashes>>


\* A handler inside has the lock; from the claim on its request is recorded.
Calling == {"calling", "again"}
Claimed == Calling \cup {"accepted"}
Inside == Claimed \cup {"checking"}

Answers == {"none", "ok", "failed", "unknown", "reused"}

TypeOK ==
    /\ record \in [Requests -> Records \cup {NoRecord}]
    /\ lock \in Handlers \cup {NoHandler}
    /\ post \in [Handlers -> Posts \cup {NoPost}]
    /\ pc \in [Handlers -> {"idle", "waiting"} \cup Inside]
    /\ answer \in [Handlers -> Answers]
    /\ delivered \in [Requests \X Scopes -> 0..2]
    /\ purged \subseteq Requests
    /\ crashes \in 0..MaxCrashes

Init ==
    /\ record = [r \in Requests |-> NoRecord]
    /\ lock = NoHandler
    /\ post = [h \in Handlers |-> NoPost]
    /\ pc = [h \in Handlers |-> "idle"]
    /\ answer = [h \in Handlers |-> "none"]
    /\ delivered = [d \in Requests \X Scopes |-> 0]
    /\ purged = {}
    /\ crashes = 0

Request(h) == post[h].request
Scope(h) == post[h].scope

\* The handler answers and leaves action_lock.
Reply(h, what) ==
    /\ answer' = [answer EXCEPT ![h] = what]
    /\ pc' = [pc EXCEPT ![h] = "idle"]
    /\ lock' = NoHandler

\* Telegram has accepted the message of h; two stands for any larger number.
Deliver(h) ==
    delivered' = [delivered EXCEPT ![<<Request(h), Scope(h)>>] =
                    IF @ = 0 THEN 1 ELSE 2]

------------------------------------------------------------------------------
Post(h, p) ==
    /\ pc[h] = "idle"
    /\ pc' = [pc EXCEPT ![h] = "waiting"]
    /\ post' = [post EXCEPT ![h] = p]
    /\ answer' = [answer EXCEPT ![h] = "none"]
    /\ UNCHANGED <<record, lock, delivered, purged, crashes>>

\* Faulty: the scope of the earlier request is not compared.
KnownAnyScope(h) == IF record[Request(h)].sent THEN "ok" ELSE "unknown"

\* What _claim_send answers about a request it knows.
Known(h) ==
    LET r == record[Request(h)] IN
    IF r.scope # Scope(h) THEN "reused" ELSE IF r.sent THEN "ok" ELSE "unknown"

\* The first look, under the lock: a known request is answered from its record.
Acquire(h) ==
    /\ pc[h] = "waiting"
    /\ lock = NoHandler
    /\ IF record[Request(h)] # NoRecord THEN Reply(h, Known(h))
       ELSE /\ pc' = [pc EXCEPT ![h] = "checking"]
            /\ lock' = h
            /\ UNCHANGED answer
    /\ UNCHANGED <<record, post, delivered, purged, crashes>>

\* The conversation is closed, Telegram is not connected or cools down, the text
\* is too long, the image is unusable: nothing was recorded.
CheckFails(h) ==
    /\ pc[h] = "checking"
    /\ Reply(h, "failed")
    /\ UNCHANGED <<record, post, delivered, purged, crashes>>

\* The request is recorded as pending, and committed, before the call.
Claim(h) ==
    /\ pc[h] = "checking"
    /\ record' = [record EXCEPT ![Request(h)] =
                    [scope |-> Scope(h), sent |-> FALSE, age |-> 0]]
    /\ pc' = [pc EXCEPT ![h] = "calling"]
    /\ UNCHANGED <<lock, post, answer, delivered, purged, crashes>>

Accept(h) ==
    /\ pc[h] \in Calling
    /\ Deliver(h)
    /\ pc' = [pc EXCEPT ![h] = "accepted"]
    /\ UNCHANGED <<record, lock, post, answer, purged, crashes>>

\* Telegram does not know the peer: _peer_call resolves it anew and calls again,
\* once.
PeerError(h) ==
    /\ pc[h] = "calling"
    /\ pc' = [pc EXCEPT ![h] = "again"]
    /\ UNCHANGED <<record, lock, post, answer, delivered, purged, crashes>>

\* Any error that Telegram itself reports: the request was not executed, and the
\* record is deleted so that the draft can be posted again.
Reject(h) ==
    /\ pc[h] \in Calling
    /\ record' = [record EXCEPT ![Request(h)] = NoRecord]
    /\ Reply(h, "failed")
    /\ UNCHANGED <<post, delivered, purged, crashes>>

\* Faulty: a lost connection is treated like a rejection.
LoseContactForgets(h) ==
    /\ \/ /\ pc[h] \in Calling
          /\ Deliver(h) \/ UNCHANGED delivered
       \/ pc[h] = "accepted" /\ UNCHANGED delivered
    /\ record' = [record EXCEPT ![Request(h)] = NoRecord]
    /\ Reply(h, "failed")
    /\ UNCHANGED <<post, purged, crashes>>

\* The connection breaks or the call times out, before or after Telegram took
\* the message: the record stays pending.
LoseContact(h) ==
    /\ \/ /\ pc[h] \in Calling
          /\ Deliver(h) \/ UNCHANGED delivered
       \/ pc[h] = "accepted" /\ UNCHANGED delivered
    /\ Reply(h, "unknown")
    /\ UNCHANGED <<record, post, purged, crashes>>

Settled(r) == [scope |-> r.scope, sent |-> TRUE, age |-> r.age]

\* Faulty: success is answered without leaving the lock.
FinishHoldsLock(h) ==
    /\ pc[h] = "accepted"
    /\ record' = [record EXCEPT ![Request(h)] = Settled(@)]
    /\ answer' = [answer EXCEPT ![h] = "ok"]
    /\ pc' = [pc EXCEPT ![h] = "idle"]
    /\ UNCHANGED <<lock, post, delivered, purged, crashes>>

\* _finish_send.
Finish(h) ==
    /\ pc[h] = "accepted"
    /\ record' = [record EXCEPT ![Request(h)] = Settled(@)]
    /\ Reply(h, "ok")
    /\ UNCHANGED <<post, delivered, purged, crashes>>

------------------------------------------------------------------------------
\* The process dies: handlers and the lock are gone, a call under way may still
\* reach Telegram.
Crash ==
    /\ crashes < MaxCrashes
    /\ crashes' = crashes + 1
    /\ \/ \E h \in Handlers : pc[h] \in Calling /\ Deliver(h)
       \/ UNCHANGED delivered
    /\ lock' = NoHandler
    /\ pc' = [h \in Handlers |-> "idle"]
    /\ answer' = [h \in Handlers |-> IF pc[h] = "idle" THEN answer[h] ELSE "none"]
    /\ UNCHANGED <<record, post, purged>>

Older(r) == [scope |-> r.scope, sent |-> r.sent, age |-> r.age + 1]

\* A call lasts minutes at most, so no record grows old during one.
Tick ==
    /\ lock = NoHandler
    /\ record' = [r \in Requests |->
                    IF record[r] = NoRecord \/ record[r].age = Retention
                      THEN record[r] ELSE Older(record[r])]
    /\ UNCHANGED <<lock, post, pc, answer, delivered, purged, crashes>>

\* The end of service.cleanup, every half minute and after each close.
Cleanup ==
    LET old == {r \in Requests : record[r] # NoRecord /\ record[r].age = Retention}
    IN /\ record' = [r \in Requests |-> IF r \in old THEN NoRecord ELSE record[r]]
       /\ purged' = purged \cup old
       /\ UNCHANGED <<lock, post, pc, answer, delivered, crashes>>

------------------------------------------------------------------------------
Step(h) ==
    \/ Acquire(h) \/ CheckFails(h) \/ Claim(h) \/ Accept(h) \/ PeerError(h)
    \/ Reject(h) \/ LoseContact(h) \/ Finish(h)

Next ==
    \/ \E h \in Handlers : Step(h) \/ \E p \in Posts : Post(h, p)
    \/ Crash \/ Tick \/ Cleanup

Spec == Init /\ [][Next]_vars

\* Every await of a send has a time-out, and asyncio.Lock wakes its waiters in
\* turn.
Fairness ==
    \A h \in Handlers :
        /\ WF_vars(pc[h] # "waiting" /\ Step(h))
        /\ SF_vars(pc[h] = "waiting" /\ Step(h))

LiveSpec == Spec /\ Fairness

------------------------------------------------------------------------------
\* Properties.

Untouched(r) == \A s \in Scopes : delivered[<<r, s>>] = 0

\* At most one message, and in one conversation only.
OnceIn(r, s) ==
    /\ delivered[<<r, s>>] <= 1
    /\ \A t \in Scopes \ {s} : delivered[<<r, t>>] = 0

\* However often a draft is posted and whatever fails, Telegram takes it once,
\* as long as its record is kept.
DeliveredOnce == \A r \in Requests \ purged : \E s \in Scopes : OnceIn(r, s)

\* A post that was answered with success is in Telegram, in the conversation it
\* was meant for.
OkMeansDelivered ==
    \A h \in Handlers : answer[h] = "ok" => delivered[<<Request(h), Scope(h)>>] > 0

\* The browser is told that the draft was not sent, and may be posted again,
\* only when it was not sent.
FailedMeansNotSent ==
    [][\A h \in Handlers :
         answer'[h] = "failed" /\ answer[h] # "failed" /\ Request(h) \notin purged
           => Untouched(Request(h))]_vars

\* Every post is answered; the lock is not left held.
EveryPostIsAnswered ==
    \A h \in Handlers : pc[h] = "waiting" ~> pc[h] = "idle"
------------------------------------------------------------------------------
\* Why DeliveredOnce holds: an inductive invariant.

LockIsHeld == \A h \in Handlers : pc[h] \in Inside <=> lock = h

PostsAreKnown ==
    \A h \in Handlers : pc[h] # "idle" \/ answer[h] = "ok" => post[h] \in Posts

\* What the holder of the lock may rely on about its own request.
HolderKnows ==
    \A h \in Handlers :
        /\ pc[h] = "checking" => record[Request(h)] = NoRecord
        /\ pc[h] \in Claimed => record[Request(h)] =
                                  [scope |-> Scope(h), sent |-> FALSE, age |-> 0]
        /\ pc[h] \in Calling /\ Request(h) \notin purged => Untouched(Request(h))
        /\ pc[h] = "accepted" => delivered[<<Request(h), Scope(h)>>] > 0

\* What the journal says of a request nobody forgot is true.
JournalIsTrue ==
    \A r \in Requests :
        /\ r \notin purged => IF record[r] = NoRecord THEN Untouched(r)
                              ELSE OnceIn(r, record[r].scope)
        /\ record[r] # NoRecord /\ record[r].sent =>
             delivered[<<r, record[r].scope>>] > 0

Safe == /\ TypeOK /\ LockIsHeld /\ PostsAreKnown /\ HolderKnows /\ JournalIsTrue
        /\ OkMeansDelivered
=============================================================================
