---------------------------- MODULE DigestOutbox ----------------------------
(***************************************************************************)
(* The daily digest as a persistent job (services/digest.py,               *)
(* db/repository.py): runs of the pipeline claim the day's messages under  *)
(* a digest row, write its payload once the model has answered, and mail   *)
(* it under a lease; retry_pending_digests mails what failed, and          *)
(* cancel_unsafe_digests withdraws what the ignored chats forbid.  All are *)
(* processes of their own on one database; each step below ends with a     *)
(* commit or is one statement.  The messages are those of one day.         *)
(*                                                                         *)
(* Times are relative: age is the time since a claim, due the time until   *)
(* the next attempt, late how old the instant is that a run calls now.     *)
(***************************************************************************)
EXTENDS Integers, Sequences, FiniteSets

CONSTANTS
    Messages, ChatOf,
    Pipelines,      \* runs of digest_now or of the daily job
    Retrier, Cli,
    MaxDigests,
    MaxMessages,    \* MAX_MESSAGES_PER_DIGEST_WINDOW
    StaleAfter,     \* age at which a claim is released
    MaxSend,        \* ticks a delivery of the pipeline may take
    Backoff,        \* delay after the n-th failure
    MaxIncidents,   \* crashes, edits of the ignored chats
    MaxRuns,        \* runs of all the workers
    None

Chats == {ChatOf[m] : m \in Messages}
Digests == 1..MaxDigests
Sweepers == {Retrier, Cli}
Workers == Pipelines \cup Sweepers
Horizon == StaleAfter

ASSUME ConstantsAssumption ==
    /\ Retrier \notin Pipelines /\ Cli \notin Pipelines /\ Retrier # Cli
    /\ MaxDigests \in Nat /\ MaxMessages \in Nat \ {0} /\ MaxIncidents \in Nat
    /\ MaxRuns \in Nat
    /\ StaleAfter \in Nat /\ MaxSend \in Nat
    /\ Backoff \in Seq(Nat \ {0}) /\ Backoff # <<>>
    /\ None \notin Digests \cup Workers

Statuses == {"none", "building", "pending", "sending", "sent", "cancelled"}
Live == {"building", "pending", "sending"}

VARIABLES
    arrived,        \* messages stored
    claimedBy,      \* claimed_digest_id of each, or None
    digested,       \* messages with digested_at
    status, key, payload, sources, attempts,    \* of each digest row
    age, due, owner,
    ignored,        \* the ignored chats
    pc, hold, rows, snap, late, queue,    \* of each worker
    mailed,         \* history: accepted mails each message was in, up to 2
    carried,        \* history: messages of the mails begun of each digest
    omitted,        \* history: claimed messages left out of a payload as ignored
    doubt,          \* history: digests cancelled or given up with a mail on its way
    incidents, runs

messages == <<arrived, claimedBy, digested>>
job == <<key, payload, sources, attempts, due>>
lease == <<status, age, owner>>
digest == <<job, lease>>
local == <<pc, hold, rows, snap, late, queue>>
past == <<mailed, carried, omitted, doubt>>
bounds == <<incidents, runs>>
vars == <<messages, digest, ignored, local, past, bounds>>

Steps == {"idle", "building", "found", "gather", "rows", "generated", "deliver",
          "claimed", "sending", "accepted", "failed", "select", "next"}

TypeOK ==
    /\ arrived \subseteq Messages /\ digested \subseteq arrived
    /\ claimedBy \in [Messages -> Digests \cup {None}]
    /\ status \in [Digests -> Statuses]
    /\ key \in [Digests -> SUBSET Messages] /\ payload \in [Digests -> SUBSET Messages]
    /\ sources \in [Digests -> SUBSET Chats]
    /\ attempts \in [Digests -> 0..Len(Backoff)]
    /\ age \in [Digests -> 0..Horizon] /\ due \in [Digests -> Int]
    /\ owner \in [Digests -> Workers \cup {None}]
    /\ ignored \subseteq Chats
    /\ pc \in [Workers -> Steps] /\ hold \in [Workers -> Digests \cup {None}]
    /\ rows \in [Workers -> SUBSET Messages] /\ snap \in [Workers -> SUBSET Chats]
    /\ late \in [Workers -> 0..Horizon]
    /\ queue \in [Workers -> SUBSET Digests]
    /\ mailed \in [Messages -> 0..2] /\ carried \in [Digests -> SUBSET Messages]
    /\ omitted \subseteq Messages /\ doubt \subseteq Digests
    /\ incidents \in 0..MaxIncidents /\ runs \in 0..MaxRuns

Init ==
    /\ arrived = {} /\ digested = {} /\ claimedBy = [m \in Messages |-> None]
    /\ status = [d \in Digests |-> "none"]
    /\ key = [d \in Digests |-> {}] /\ payload = [d \in Digests |-> {}]
    /\ sources = [d \in Digests |-> {}]
    /\ attempts = [d \in Digests |-> 0]
    /\ age = [d \in Digests |-> 0] /\ due = [d \in Digests |-> 0]
    /\ owner = [d \in Digests |-> None]
    /\ ignored = {}
    /\ pc = [w \in Workers |-> "idle"] /\ hold = [w \in Workers |-> None]
    /\ rows = [w \in Workers |-> {}] /\ snap = [w \in Workers |-> {}]
    /\ late = [w \in Workers |-> 0]
    /\ queue = [w \in Workers |-> {}]
    /\ mailed = [m \in Messages |-> 0] /\ carried = [d \in Digests |-> {}]
    /\ omitted = {} /\ doubt = {}
    /\ incidents = 0 /\ runs = 0

Smaller(a, b) == IF a <= b THEN a ELSE b

Claims(d) == {m \in Messages : claimedBy[m] = d}
ChatsOf(S) == {ChatOf[m] : m \in S}

\* A worker whose mail the server may yet take, or has taken.
Mailing(w) == pc[w] \in {"sending", "accepted"}

Goto(w, step) == pc' = [pc EXCEPT ![w] = step]

\* What a worker holds when it is done with a digest, or with all of them.
Leave(w) ==
    /\ Goto(w, IF w \in Sweepers THEN "next" ELSE "idle")
    /\ hold' = [hold EXCEPT ![w] = None]
    /\ rows' = [rows EXCEPT ![w] = {}]

Set(f, d, x) == [f EXCEPT ![d] = x]

------------------------------------------------------------------------------
\* The world: messages, the file of ignored chats, time, death.

Arrive(m) ==
    /\ m \notin arrived
    /\ arrived' = arrived \cup {m}
    /\ UNCHANGED <<claimedBy, digested, digest, ignored, local, past, bounds>>

EditIgnored(c) ==
    /\ incidents < MaxIncidents /\ incidents' = incidents + 1
    /\ ignored' = IF c \in ignored THEN ignored \ {c} ELSE ignored \cup {c}
    /\ UNCHANGED <<messages, digest, local, past, runs>>

Delivering(w) == pc[w] \in {"deliver", "claimed", "sending", "accepted", "failed"}

Tick ==
    /\ \A p \in Pipelines : Delivering(p) => late[p] < MaxSend
    /\ age' = [d \in Digests |-> IF status[d] = "sending" THEN Smaller(age[d] + 1, Horizon)
                                 ELSE age[d]]
    /\ due' = [d \in Digests |-> IF status[d] \in {"pending", "sending"} /\ due[d] > -Horizon
                                 THEN due[d] - 1 ELSE due[d]]
    /\ late' = [w \in Workers |->
                  IF Delivering(w) \/ (w = Retrier /\ pc[w] # "idle")
                    THEN Smaller(late[w] + 1, Horizon) ELSE late[w]]
    /\ UNCHANGED <<messages, status, owner, key, payload, sources, attempts, ignored,
                   pc, hold, rows, snap, queue, past, bounds>>

Crash(w) ==
    /\ incidents < MaxIncidents /\ incidents' = incidents + 1
    /\ pc[w] # "idle"
    /\ doubt' = IF Mailing(w) THEN doubt \cup {hold[w]} ELSE doubt
    /\ Goto(w, "idle")
    /\ hold' = Set(hold, w, None) /\ rows' = Set(rows, w, {})
    /\ snap' = Set(snap, w, {}) /\ queue' = Set(queue, w, {}) /\ late' = Set(late, w, 0)
    /\ UNCHANGED <<messages, digest, ignored, mailed, carried, omitted, runs>>

------------------------------------------------------------------------------
\* Withdrawing a digest.

\* The row is overwritten by primary key, whatever it says by now; claims is what is
\* left claimed.
Withdraw(d, claims) ==
    /\ status' = Set(status, d, "cancelled")
    /\ payload' = Set(payload, d, {})
    /\ due' = Set(due, d, 0)
    /\ owner' = Set(owner, d, None)
    /\ age' = Set(age, d, 0)
    /\ claimedBy' = claims
    /\ doubt' = IF \E w \in Workers : Mailing(w) /\ hold[w] = d
                THEN doubt \cup {d} ELSE doubt
    /\ omitted' = omitted \ Claims(d)
    /\ UNCHANGED <<arrived, digested, key, sources, attempts, mailed, carried>>

Released(d) == [m \in Messages |-> IF claimedBy[m] = d THEN None ELSE claimedBy[m]]

\* Faulty: the messages stay claimed.
CancelKeepsClaims(d) == Withdraw(d, claimedBy)

Cancel(d) == Withdraw(d, Released(d))

------------------------------------------------------------------------------
\* The pipeline, up to the payload.

Start(w) ==
    /\ pc[w] = "idle"
    /\ runs < MaxRuns /\ runs' = runs + 1
    /\ snap' = Set(snap, w, ignored)
    /\ UNCHANGED incidents

\* The ignored chats are read and the newest digest of the day that is not over is
\* looked for; nothing the second step reads depends on the first.
Begin(p) ==
    LET open == {d \in Digests : status[d] \in Live} IN
    /\ Start(p)
    /\ \/ /\ open = {}
          /\ Goto(p, "gather") /\ UNCHANGED hold
       \/ \E d \in open :
            /\ \A x \in open : x <= d
            /\ Goto(p, IF status[d] = "building" THEN "building" ELSE "found")
            /\ hold' = Set(hold, p, d)
    /\ UNCHANGED <<messages, digest, ignored, rows, late, queue, past>>

\* A digest without claims is cancelled (claims never grow, so that the cancellation
\* may be taken together with the check); one that is building is built again, of
\* what its claims have left after the ignored chats.
Check(p) ==
    LET d == hold[p]
        left == {m \in Claims(d) : ChatOf[m] \notin snap[p]}
    IN
    /\ pc[p] \in {"building", "found"}
    /\ IF Claims(d) = {}
         THEN /\ Cancel(d)
              /\ Goto(p, "gather") /\ hold' = Set(hold, p, None) /\ UNCHANGED rows
         ELSE /\ IF pc[p] = "building" /\ left # {}
                   THEN Goto(p, "generated") /\ rows' = Set(rows, p, left) /\ UNCHANGED hold
                   ELSE Leave(p)
              /\ UNCHANGED <<messages, digest, past>>
    /\ UNCHANGED <<ignored, snap, late, queue, bounds>>

Free(m) == claimedBy[m] = None /\ m \notin digested

\* messages_between: at most MaxMessages (which ones depends on their titles).
Gather(p) ==
    LET found == {m \in arrived : Free(m) /\ ChatOf[m] \notin snap[p]} IN
    /\ pc[p] = "gather"
    /\ IF found = {} THEN Leave(p)
       ELSE /\ \E S \in SUBSET found :
                 /\ Cardinality(S) = Smaller(Cardinality(found), MaxMessages)
                 /\ rows' = Set(rows, p, S)
            /\ Goto(p, "rows") /\ UNCHANGED hold
    /\ UNCHANGED <<messages, digest, ignored, snap, late, queue, past, bounds>>

\* The row the next insert makes.
IsNext(d) == status[d] = "none" /\ \A x \in Digests : status[x] = "none" => d <= x

\* One transaction: a digest whose key, the day and the rows read, is there already,
\* in whatever state, is left alone; else it claims what is still open of the rows.
ClaimAmong(p, open) ==
    LET mine == rows[p] \cap open
        known == \E x \in Digests : status[x] # "none" /\ key[x] = rows[p]
    IN
    /\ pc[p] = "rows"
    /\ \/ /\ known \/ mine = {}
          /\ Leave(p) /\ UNCHANGED <<messages, digest>>
       \/ /\ ~known /\ mine # {}
          /\ \E d \in Digests :
               /\ IsNext(d)
               /\ status' = Set(status, d, "building") /\ key' = Set(key, d, rows[p])
               /\ sources' = Set(sources, d, ChatsOf(mine))
               /\ claimedBy' = [m \in Messages |-> IF m \in mine THEN d ELSE claimedBy[m]]
               /\ hold' = Set(hold, p, d)
          /\ Goto(p, "generated") /\ rows' = Set(rows, p, mine)
          /\ UNCHANGED <<arrived, digested, payload, attempts, due, age, owner>>
    /\ UNCHANGED <<ignored, snap, late, queue, past, bounds>>

\* Faulty: what is claimed already is claimed again.
ClaimRowsAnyway(p) == ClaimAmong(p, Messages \ digested)

ClaimRows(p) == ClaimAmong(p, {m \in Messages : Free(m)})

\* The model has answered, or the fallback has: the payload is written if the digest
\* is still building, once.
Persist(p) ==
    LET d == hold[p] IN
    /\ pc[p] = "generated"
    /\ IF status[d] = "building"
         THEN /\ status' = Set(status, d, "pending")
              /\ payload' = Set(payload, d, rows[p])
              /\ sources' = Set(sources, d, ChatsOf(Claims(d)))
              /\ due' = Set(due, d, 0)
              /\ omitted' = omitted \cup (Claims(d) \ rows[p])
         ELSE UNCHANGED <<status, payload, sources, due, omitted>>
    /\ Goto(p, "deliver") /\ late' = Set(late, p, 0)
    /\ UNCHANGED <<messages, key, attempts, age, owner, ignored, hold, rows, snap, queue,
                   mailed, carried, doubt, bounds>>

------------------------------------------------------------------------------
\* Delivery.

Sendable(w, d) == payload[d] # {} /\ due[d] <= -late[w]

Claimable(w, d) == status[d] = "pending" /\ Sendable(w, d)

\* claimed_at is the instant the run calls now, not that of the statement.
Claim(w, d) ==
    /\ status' = Set(status, d, "sending")
    /\ age' = Set(age, d, late[w]) /\ owner' = Set(owner, d, w)
    /\ Goto(w, "claimed") /\ hold' = Set(hold, w, d)
    /\ UNCHANGED <<messages, job, rows, past>>

Deliver(p) ==
    /\ pc[p] = "deliver"
    /\ IF Claimable(p, hold[p]) THEN Claim(p, hold[p])
       ELSE Leave(p) /\ UNCHANGED <<messages, digest, past>>
    /\ UNCHANGED <<ignored, snap, late, queue, bounds>>

Owned(w, d) == status[d] = "sending" /\ owner[d] = w

\* The claim is read back by its token before the mail is begun.
BeginSend(w) ==
    LET d == hold[w] IN
    /\ pc[w] = "claimed"
    /\ \/ /\ ~Owned(w, d)
          /\ Leave(w)
          /\ UNCHANGED <<messages, digest, past>>
       \/ /\ Owned(w, d) /\ Claims(d) = {}
          /\ Cancel(d) /\ Leave(w)
       \/ /\ Owned(w, d) /\ Claims(d) # {}
          /\ Goto(w, "sending") /\ rows' = Set(rows, w, payload[d])
          /\ carried' = Set(carried, d, carried[d] \cup payload[d])
          /\ UNCHANGED <<messages, digest, hold, mailed, omitted, doubt>>
    /\ UNCHANGED <<ignored, snap, late, queue, bounds>>

Accept(w) ==
    /\ pc[w] = "sending"
    /\ mailed' = [m \in Messages |->
                    IF m \in rows[w] THEN Smaller(mailed[m] + 1, 2) ELSE mailed[m]]
    /\ Goto(w, "accepted")
    /\ UNCHANGED <<messages, digest, ignored, hold, rows, snap, late, queue, carried,
                   omitted, doubt, bounds>>

\* The mail is refused, or its answer lost once the server has taken it.
Raise(w) ==
    /\ Mailing(w)
    /\ doubt' = IF pc[w] = "accepted" THEN doubt \cup {hold[w]} ELSE doubt
    /\ Goto(w, "failed")
    /\ UNCHANGED <<messages, digest, ignored, hold, rows, snap, late, queue, mailed, carried,
                   omitted, bounds>>

\* Both outcomes are written by primary key, whatever has become of the claim.
Done(w, covered) ==
    /\ pc[w] = "accepted"
    /\ status' = Set(status, hold[w], "sent") /\ due' = Set(due, hold[w], 0)
    /\ owner' = Set(owner, hold[w], None) /\ age' = Set(age, hold[w], 0)
    /\ digested' = digested \cup covered
    /\ claimedBy' = Released(hold[w])
    /\ Leave(w)
    /\ UNCHANGED <<arrived, key, payload, sources, attempts, ignored, snap, late, queue,
                   past, bounds>>

\* Faulty: everything stored by now counts as digested.
FinalizeDay(w) == Done(w, arrived)

Finalize(w) == Done(w, Claims(hold[w]))

MarkPending(w) ==
    LET n == Smaller(attempts[hold[w]] + 1, Len(Backoff)) IN
    /\ pc[w] = "failed"
    /\ status' = Set(status, hold[w], "pending") /\ attempts' = Set(attempts, hold[w], n)
    /\ due' = Set(due, hold[w], Backoff[n] - late[w])
    /\ owner' = Set(owner, hold[w], None) /\ age' = Set(age, hold[w], 0)
    /\ Leave(w)
    /\ UNCHANGED <<messages, key, payload, sources, ignored, snap, late, queue, past, bounds>>

------------------------------------------------------------------------------
\* Passes over the stored digests: retry_pending_digests and cancel_unsafe_digests.

\* Faulty: the lease is not looked at.
StaleAtOnce(d) == status[d] = "sending"

Stale(d) == status[d] = "sending" /\ age[d] >= StaleAfter

\* The retrier's stale claims are those at the instant it calls now, so that their
\* release may be taken with its first step.
StartSweep(w) ==
    LET released == {d \in Digests : w = Retrier /\ Stale(d)} IN
    /\ Start(w)
    /\ late' = Set(late, w, 0)
    /\ status' = [d \in Digests |-> IF d \in released THEN "pending" ELSE status[d]]
    /\ owner' = [d \in Digests |-> IF d \in released THEN None ELSE owner[d]]
    /\ age' = [d \in Digests |-> IF d \in released THEN 0 ELSE age[d]]
    /\ Goto(w, "select")
    /\ UNCHANGED <<messages, job, ignored, hold, rows, queue, past>>

Select(w) ==
    /\ pc[w] = "select"
    /\ queue' = Set(queue, w,
         IF w = Retrier THEN {d \in Digests : status[d] = "pending" /\ due[d] <= -late[w]}
         ELSE {d \in Digests : status[d] \in {"pending", "sending"}})
    /\ Goto(w, "next")
    /\ UNCHANGED <<messages, digest, ignored, hold, rows, snap, late, past, bounds>>

\* Faulty: the ignored chats are not compared.
RetrySafeIfClaimed(w, d) == Claims(d) # {}

RetrySafe(w, d) == Claims(d) # {} /\ sources[d] \cap snap[w] = {}

\* The rows were read when they were selected: one that has been sent since has no
\* claims, and is cancelled.
Sweep(w) ==
    /\ pc[w] = "next"
    /\ \E d \in queue[w] :
         /\ \A x \in queue[w] : d <= x
         /\ queue' = Set(queue, w, queue[w] \ {d})
         /\ \/ /\ ~RetrySafe(w, d)
               /\ Cancel(d) /\ UNCHANGED <<pc, hold, rows>>
            \/ /\ RetrySafe(w, d) /\ w = Retrier /\ Claimable(w, d)
               /\ Claim(w, d)
            \/ /\ RetrySafe(w, d) /\ ~(w = Retrier /\ Claimable(w, d))
               /\ UNCHANGED <<messages, digest, pc, hold, rows, past>>
    /\ UNCHANGED <<ignored, snap, late, bounds>>

EndSweep(w) ==
    /\ pc[w] = "next" /\ queue[w] = {}
    /\ Goto(w, "idle")
    /\ snap' = Set(snap, w, {}) /\ late' = Set(late, w, 0)
    /\ UNCHANGED <<messages, digest, ignored, hold, rows, queue, past, bounds>>

------------------------------------------------------------------------------
Pipeline(p) ==
    \/ Begin(p) \/ Check(p) \/ Gather(p) \/ ClaimRows(p) \/ Persist(p) \/ Deliver(p)

Send(w) == BeginSend(w) \/ Accept(w) \/ Raise(w) \/ Finalize(w) \/ MarkPending(w)

Next ==
    \/ \E m \in Messages : Arrive(m)
    \/ \E c \in Chats : EditIgnored(c)
    \/ Tick
    \/ \E p \in Pipelines : Pipeline(p)
    \/ \E w \in Sweepers : StartSweep(w) \/ Select(w) \/ Sweep(w) \/ EndSweep(w)
    \/ \E w \in Workers : Send(w) \/ Crash(w)

Spec == Init /\ [][Next]_vars

------------------------------------------------------------------------------
\* The lease on a digest outlives its delivery, so that no two workers have the same
\* digest at the mail server (claim_pending_digest, release_stale_digest_claims).
OneSender ==
    \A v, w \in Workers : Mailing(v) /\ Mailing(w) /\ hold[v] = hold[w] => v = w

\* What is marked as digested has been mailed, or was left out of its digest because
\* its chat was ignored when the digest was built again (finalize_digest_sent).
DigestedWasMailed ==
    \A m \in digested : mailed[m] > 0 \/ m \in omitted

\* No message stays claimed by a digest nobody will send: neither a cancelled nor a
\* sent one keeps it from the next (_cancel_unsafe_digest, finalize_digest_sent).
ClaimedIsLive ==
    \A m \in Messages : claimedBy[m] # None => status[claimedBy[m]] \in Live

\* A digest mailed by a retry has nothing of a chat that was ignored when the retry
\* began, however the digest came to be (_digest_retry_is_safe).
RetryRespectsIgnored ==
    pc[Retrier] \in {"sending", "accepted"} => ChatsOf(rows[Retrier]) \cap snap[Retrier] = {}

\* The outbox each message of a day is in, the mail of a digest being a try for all
\* of its messages.  A digest withdrawn while it is mailed is no try any more: its
\* messages are free, and in doubt.
InMail(m, step) ==
    \E w \in Workers : pc[w] = step /\ m \in rows[w] /\ Owned(w, hold[w])

Stage(m) ==
    IF m \in digested THEN "closed"
    ELSE IF InMail(m, "accepted") THEN "taken"
    ELSE IF InMail(m, "sending") THEN "trying"
    ELSE "open"

Abstract == INSTANCE Outbox WITH
    Things <- Messages,
    stage <- [m \in Messages |-> Stage(m)],
    taken <- mailed,
    doubt <- {m \in Messages : \E d \in doubt : m \in carried[d]}

\* The pipelines, the retry and the cancellation together are an outbox: no message
\* is in two mails at a time, a digested one never goes out again, and one is mailed
\* twice only if a mail that carried it was left in doubt (the claims, leases and
\* releases of db/repository.py).
ImplementsOutbox == Abstract!Spec

------------------------------------------------------------------------------
\* Why OneSender holds: the inductive invariant of DigestOutboxProofs.

LeaseOutlivesSend == MaxSend < StaleAfter

\* A worker between its claim and its last write about the digest.
Holds(w, d) == pc[w] \in {"claimed", "sending", "accepted", "failed"} /\ hold[w] = d

OneHolder == \A v, w \in Workers, d \in Digests : Holds(v, d) /\ Holds(w, d) => v = w

\* What a worker holds is its own, or was withdrawn meanwhile; a withdrawn digest is
\* never sent again, because it has no payload.
HoldersOwn ==
    \A w \in Workers, d \in Digests : Holds(w, d) =>
        Owned(w, d) \/ (status[d] = "cancelled" /\ payload[d] = {})

\* A pipeline delivers in time, and its claim is no older than its delivery.
InTime == \A p \in Pipelines : Delivering(p) => late[p] <= MaxSend

ClaimAge ==
    \A p \in Pipelines, d \in Digests : Holds(p, d) /\ Owned(p, d) => age[d] <= late[p]

LeaseInv == OneHolder /\ HoldersOwn /\ InTime /\ ClaimAge

------------------------------------------------------------------------------
\* Why DigestedWasMailed and RetryRespectsIgnored hold: the inductive invariant of
\* DigestOutboxProofs.

\* The payload of d has been written.
Written(d) == status[d] \notin {"none", "building"}

PayloadIsWritten == \A d \in Digests : ~Written(d) => payload[d] = {}

\* What a digest claims is not digested; once its payload is written, the payload has
\* it, unless it was left out as ignored.
ClaimsAreCovered ==
    /\ \A m \in digested : claimedBy[m] = None
    /\ \A d \in Digests : Written(d) /\ Claims(d) # {} =>
           payload[d] # {} /\ Claims(d) \subseteq payload[d] \cup omitted

\* A payload is made of claims that last while the digest is being built.
RowsAreClaimed ==
    \A p \in Pipelines : pc[p] = "generated" =>
        /\ rows[p] # {} /\ status[hold[p]] # "none"
        /\ status[hold[p]] = "building" => rows[p] \subseteq Claims(hold[p])

SourcesAreKnown == \A d \in Digests : ChatsOf(payload[d]) \subseteq sources[d]

\* A mail has the payload of its digest, even if that was withdrawn meanwhile.
MailIsPayload ==
    \A w \in Workers :
        /\ \A d \in Digests : Holds(w, d) => Written(d)
        /\ Mailing(w) => payload[hold[w]] \in {rows[w], {}}
        /\ pc[w] = "accepted" => \A m \in rows[w] : mailed[m] > 0

RetryIsSafe ==
    pc[Retrier] = "claimed" => sources[hold[Retrier]] \cap snap[Retrier] = {}

Contents ==
    /\ PayloadIsWritten /\ ClaimsAreCovered /\ RowsAreClaimed /\ SourcesAreKnown
    /\ MailIsPayload /\ RetryIsSafe

\* Why it is an outbox, if moreover a delivery takes less than the lease.

\* What has a payload and may be sent has claimed all of it.
PayloadIsClaimed ==
    \A d \in Digests : status[d] \in Live => payload[d] \subseteq Claims(d)

\* All mails of a digest carry the same, and one withdrawn while it is mailed is in
\* doubt.
CarriedIsPayload ==
    /\ \A d \in Digests : carried[d] # {} => Written(d) /\ payload[d] \in {carried[d], {}}
    /\ \A d \in doubt : Written(d) /\ payload[d] \subseteq carried[d]
    /\ \A w \in Workers : Mailing(w) =>
           /\ rows[w] = carried[hold[w]]
           /\ IF Owned(w, hold[w]) THEN payload[hold[w]] = rows[w] ELSE hold[w] \in doubt

OutboxInv == PayloadIsClaimed /\ CarriedIsPayload

==============================================================================
