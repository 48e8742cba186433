----------------------------- MODULE AlertOutbox -----------------------------
(***************************************************************************)
(* The durable outbox of attention e-mails: the rows of messages and       *)
(* alert_jobs (db/tables.py) and every thread or process that moves a job: *)
(*                                                                         *)
(*   - an ingesting thread stores the message, creates the job and makes   *)
(*     the first attempt (telegram/client.py, services/p0.py);             *)
(*   - the retry job of the scheduler releases stale claims, cancels what  *)
(*     may not be sent and tries every due job again (db/repository.py);   *)
(*   - the cancel and cleanup commands run beside the service as processes *)
(*     of their own, and the nightly cleanup deletes old messages.         *)
(*                                                                         *)
(* One action is one committed statement, or one exchange with the mail    *)
(* server.  Every instant is relative to the present: due is               *)
(* next_attempt_at - now, age is now - claimed_at and late is how long ago *)
(* a worker read the clock value it still calls "now".  All are in minutes *)
(* and saturate, so time never runs out.  A claim_token is a fresh uuid4;  *)
(* a worker has one claim at a time, so its name stands for its token.     *)
(***************************************************************************)
EXTENDS Integers, FiniteSets, Sequences

CONSTANTS
    Messages,    \* the Telegram messages that may arrive while we look
    Legacy,      \* those whose alert row an older version left behind
    Ingesters,   \* threads that run handle_p0_candidate
    Backfillers, \* the one of them that runs the startup backfill
    Retrier,     \* the scheduler thread of retry_alerts_job
    Cli,         \* a cancel_legacy_alerts or cleanup command
    NoWorker,    \* claim_token IS NULL
    NoMessage,   \* a worker with nothing in hand
    MentionOnly, \* settings.mention_only_mode
    Lags,        \* minutes a message may be old when it is first handled
    StaleAfter,  \* release_stale_alert_claims(stale_minutes)
    MaxSend,     \* minutes the e-mail transport may block
    Backoff,     \* the delays of _backoff_minutes
    Horizon      \* relative instants saturate here

ASSUME ConstantsAssumption ==
    /\ Legacy \subseteq Messages
    /\ Retrier \notin Ingesters /\ Cli \notin Ingesters /\ Cli # Retrier
    /\ NoMessage \notin Messages
    /\ NoWorker \notin Ingesters \cup {Retrier, Cli}
    /\ MentionOnly \in BOOLEAN
    /\ Backfillers \subseteq Ingesters /\ (MentionOnly => Backfillers = {})
    /\ Lags \subseteq Nat
    /\ StaleAfter \in Nat \ {0} /\ MaxSend \in Nat
    /\ Len(Backoff) \in Nat \ {0} /\ Backoff \in [1..Len(Backoff) -> Nat]
    /\ Horizon \in Nat /\ StaleAfter <= Horizon

Workers == Ingesters \cup {Retrier}
Cancellers == {Retrier, Cli}

VARIABLES
    message,   \* the row of messages: absent, stored, classified, deleted
    alerted,   \* messages.alert_sent
    status,    \* alert_jobs.status, "none" without a row
    token,     \* alert_jobs.claim_token
    attempts,  \* alert_jobs.attempts, saturating at the last delay
    due,       \* alert_jobs.next_attempt_at - now
    age,       \* now - alert_jobs.claimed_at
    ignored,   \* the messages of the chats in ignored_chats.json
    pc,        \* where each worker and the command stand
    msg,       \* the message a worker handles
    late,      \* now - the clock value a worker read
    spent,     \* minutes a worker has been inside email_sender.send
    batch,     \* what the retry run may still try: at first the messages of the
               \* chats it found not ignored, then the job ids it selected
    doomed,    \* what a canceller read as unsafe and will overwrite
    slot,      \* the one-minute interval trigger is due
    accepted,  \* history: e-mails the mail server took, saturating at 2
    unsure     \* history: a taken e-mail whose sender never learned of it

rows == <<status, token, attempts, due, age>>
work == <<pc, msg, late, spent>>
run == <<batch, doomed, slot>>
history == <<accepted, unsure>>
vars == <<message, alerted, rows, ignored, work, run, history>>

MessageStates == {"absent", "stored", "strict", "other", "deleted"}
Statuses == {"none", "pending", "sending", "sent", "cancelled"}
InHand == {"saved", "classified", "created", "claimed", "sending", "accepted",
           "failed", "delivered"}  \* a worker in one of these steps has a message
Steps == InHand \cup {"idle", "released", "cancelling", "selecting", "batch"}

Smaller(a, b) == IF a < b THEN a ELSE b
Larger(a, b) == IF a > b THEN a ELSE b

MessagesOK ==
    /\ message \in [Messages -> MessageStates]
    /\ alerted \subseteq Messages
    /\ ignored \subseteq Messages

RowsOK ==
    /\ status \in [Messages -> Statuses]
    /\ token \in [Messages -> Workers \cup {NoWorker}]
    /\ attempts \in [Messages -> 0..Len(Backoff)]
    /\ due \in [Messages -> Int]
    /\ age \in [Messages -> 0..StaleAfter]

WorkOK ==
    /\ pc \in [Workers \cup {Cli} -> Steps]
    /\ msg \in [Workers -> Messages \cup {NoMessage}]
    /\ late \in [Workers -> 0..Horizon]
    /\ spent \in [Workers -> 0..MaxSend]
    /\ \A w \in Workers : pc[w] \in InHand => msg[w] \in Messages

RunOK ==
    /\ batch \subseteq Messages
    /\ doomed \in [Cancellers -> SUBSET Messages]
    /\ slot \in BOOLEAN

HistoryOK ==
    /\ accepted \in [Messages -> 0..2]
    /\ unsure \in [Messages -> BOOLEAN]

TypeOK == MessagesOK /\ RowsOK /\ WorkOK /\ RunOK /\ HistoryOK

\* A legacy row is an unsent p0 alert whose message was never classified
\* strict; its sender died with the older version.
Init ==
    /\ message = [m \in Messages |-> IF m \in Legacy THEN "stored" ELSE "absent"]
    /\ alerted = {}
    /\ status \in [Messages -> {"none", "pending", "sending"}]
    /\ \A m \in Messages : status[m] = "none" <=> m \notin Legacy
    /\ token = [m \in Messages |-> NoWorker]
    /\ attempts = [m \in Messages |-> 0]
    /\ due = [m \in Messages |-> 0]
    /\ age = [m \in Messages |-> 0]
    /\ ignored = {}
    /\ pc = [w \in Workers \cup {Cli} |-> "idle"]
    /\ msg = [w \in Workers |-> NoMessage]
    /\ late = [w \in Workers |-> 0]
    /\ spent = [w \in Workers |-> 0]
    /\ batch = {}
    /\ doomed = [c \in Cancellers |-> {}]
    /\ slot = TRUE
    /\ accepted = [m \in Messages |-> 0]
    /\ unsure = [m \in Messages |-> FALSE]

------------------------------------------------------------------------------
\* Faulty: any stored message proves its alert.
RetrySafeStored(m) == message[m] \in {"stored", "strict"}

\* _is_retry_safe_alert: the stored message still proves the alert.  What a
\* mention or a reply needs is in the row from the start; a p0 alert needs the
\* strict classification too.
RetrySafe(m) ==
    IF MentionOnly /\ m \notin Legacy
      THEN message[m] = "stored"
      ELSE message[m] = "strict"

\* The types the retry job may touch: in mention-only mode the deterministic
\* ones, so legacy p0 rows are left alone; otherwise every type.
Allowed(m) == MentionOnly => m \notin Legacy

\* _backoff_minutes(attempts)
BackoffMinutes(n) == Backoff[Smaller(Larger(n, 1), Len(Backoff))]

Goto(w, step) == pc' = [pc EXCEPT ![w] = step]

\* A worker is done with its job: the retry run takes its next one.
Finish(w) ==
    /\ Goto(w, IF w = Retrier THEN "batch" ELSE "idle")
    /\ msg' = [msg EXCEPT ![w] = NoMessage]
    /\ late' = IF w = Retrier THEN late ELSE [late EXCEPT ![w] = 0]
    /\ spent' = [spent EXCEPT ![w] = 0]

\* A worker goes on to its next step with the same job.
Continue(w, step) == Goto(w, step) /\ UNCHANGED <<msg, late, spent>>

------------------------------------------------------------------------------
\* Ingestion (client.ingest_event.persist_and_alert, backfill's insert).

\* save_message: on conflict do nothing; the backfill skips a message that is
\* stored (insert_message_if_missing).  The chat was not ignored when the
\* handler looked.  handle_p0_candidate goes no further with a message that is
\* already alerted or classified.
Receive(i, m) ==
    /\ pc[i] = "idle"
    /\ m \notin Legacy \cup ignored \cup alerted
    /\ message[m] \in {"absent", "stored"}
    /\ i \in Backfillers => message[m] = "absent"
    /\ message' = [message EXCEPT ![m] = "stored"]
    /\ msg' = [msg EXCEPT ![i] = m]
    /\ \E lag \in IF MentionOnly THEN {0} ELSE Lags :
         late' = [late EXCEPT ![i] = Smaller(lag, Horizon)]
    /\ Goto(i, IF MentionOnly THEN "classified" ELSE "saved")
    /\ UNCHANGED <<alerted, rows, ignored, spent, run, history>>

\* The p0 policy: _send_strict_decision marks the message strict before it
\* creates the job, _mark_candidate and _mark_not_p0 end the handling.  The
\* mark is unconditional: the check of Receive is not repeated after the model
\* answered, so two threads may classify one message.
Classify(i) ==
    /\ pc[i] = "saved"
    /\ \/ /\ message' = [message EXCEPT ![msg[i]] = "strict"]
          /\ Continue(i, "classified")
       \/ /\ message' = [message EXCEPT ![msg[i]] = "other"]
          /\ Finish(i)
    /\ UNCHANGED <<alerted, rows, ignored, run, history>>

\* Faulty: on conflict the row is reset (an upsert).
CreateJobUpsert(i) ==
    /\ pc[i] = "classified"
    /\ status' = [status EXCEPT ![msg[i]] = "pending"]
    /\ due' = [due EXCEPT ![msg[i]] = -late[i]]
    /\ Continue(i, "created")
    /\ UNCHANGED <<message, alerted, token, attempts, age, ignored, run, history>>

\* create_alert_job: the row of (chat, message, type) if there is one, else a
\* pending one due at once.  The unique constraint makes the two-statement
\* get-or-create behave as one step; the loser of a race raises (see Stop).
\* The caller gives up on a row that is not fresh.
CreateJob(i) ==
    LET m == msg[i]
        fresh == status[m] = "none"
        goOn == IF MentionOnly THEN status[m] # "sent"
                ELSE fresh \/ (status[m] = "pending" /\ attempts[m] = 0)
    IN /\ pc[i] = "classified"
       /\ status' = IF fresh THEN [status EXCEPT ![m] = "pending"] ELSE status
       /\ due' = IF fresh THEN [due EXCEPT ![m] = -late[i]] ELSE due
       /\ IF goOn THEN Continue(i, "created") ELSE Finish(i)
       /\ UNCHANGED <<message, alerted, token, attempts, age, ignored, run, history>>

------------------------------------------------------------------------------
\* Claiming and sending, the same code for every worker.

\* Faulty: the WHERE clause forgets the status.
ClaimableDue(w, m) == due[m] <= -late[w]

\* The UPDATE of claim_pending_alert: its WHERE clause and its values.
Claimable(w, m) == status[m] = "pending" /\ due[m] <= -late[w]

ClaimPending(w, m) ==
    /\ status' = [status EXCEPT ![m] = "sending"]
    /\ token' = [token EXCEPT ![m] = w]
    /\ age' = [age EXCEPT ![m] = Smaller(late[w], StaleAfter)]
    /\ UNCHANGED <<attempts, due>>

\* _set_alert_cancelled; the instants become NULL.
CancelRows(S) ==
    /\ status' = [m \in Messages |-> IF m \in S THEN "cancelled" ELSE status[m]]
    /\ token' = [m \in Messages |-> IF m \in S THEN NoWorker ELSE token[m]]
    /\ due' = [m \in Messages |-> IF m \in S THEN 0 ELSE due[m]]
    /\ age' = [m \in Messages |-> IF m \in S THEN 0 ELSE age[m]]
    /\ UNCHANGED attempts

\* send_alert_job: cancel what is unsafe, else compare-and-set the claim.
ClaimFirst(i) ==
    LET m == msg[i] IN
    /\ pc[i] = "created"
    /\ IF ~RetrySafe(m) THEN CancelRows({m}) /\ Finish(i)
       ELSE IF Claimable(i, m) THEN ClaimPending(i, m) /\ Continue(i, "claimed")
       ELSE Finish(i) /\ UNCHANGED rows
    /\ UNCHANGED <<message, alerted, ignored, run, history>>

\* send_claimed_alert up to the transport: the claim must still be this
\* worker's and the message must still prove the alert.
BeginSend(w) ==
    LET m == msg[w]
        mine == status[m] = "sending" /\ token[m] = w
    IN /\ pc[w] = "claimed"
       /\ IF ~mine THEN Finish(w) /\ UNCHANGED rows
          ELSE IF ~RetrySafe(m) THEN CancelRows({m}) /\ Finish(w)
          ELSE Continue(w, "sending") /\ UNCHANGED rows
       /\ UNCHANGED <<message, alerted, ignored, run, history>>

\* The mail server takes a mail.
Deliver(m) == accepted' = [accepted EXCEPT ![m] = Smaller(@ + 1, 2)]

\* email_sender.send returns.
Accept(w) ==
    /\ pc[w] = "sending"
    /\ Deliver(msg[w])
    /\ Continue(w, "accepted")
    /\ UNCHANGED <<message, alerted, rows, ignored, run, unsure>>

\* email_sender.send raises.  A connection lost after the data was sent raises
\* too, and then the server may have taken the mail.
Raise(w) ==
    /\ pc[w] = "sending"
    /\ \/ UNCHANGED history
       \/ Deliver(msg[w]) /\ unsure' = [unsure EXCEPT ![msg[w]] = TRUE]
    /\ Continue(w, "failed")
    /\ UNCHANGED <<message, alerted, rows, ignored, run>>

\* _mark_alert_sent: written by primary key, whatever the row says by now.  A
\* first attempt of a p0 alert goes on to flag the message.
MarkSent(w) ==
    LET m == msg[w] IN
    /\ pc[w] = "accepted"
    /\ status' = [status EXCEPT ![m] = "sent"]
    /\ token' = [token EXCEPT ![m] = NoWorker]
    /\ due' = [due EXCEPT ![m] = 0]
    /\ age' = [age EXCEPT ![m] = 0]
    /\ IF w = Retrier \/ MentionOnly THEN Finish(w) ELSE Continue(w, "delivered")
    /\ UNCHANGED <<message, alerted, attempts, ignored, run, history>>

\* _mark_alert_pending: also by primary key; the delay counts from the clock
\* value the worker started with.
MarkPending(w) ==
    LET m == msg[w]
        n == attempts[m] + 1
    IN /\ pc[w] = "failed"
       /\ status' = [status EXCEPT ![m] = "pending"]
       /\ token' = [token EXCEPT ![m] = NoWorker]
       /\ attempts' = [attempts EXCEPT ![m] = Smaller(n, Len(Backoff))]
       /\ due' = [due EXCEPT ![m] = BackoffMinutes(n) - late[w]]
       /\ age' = [age EXCEPT ![m] = 0]
       /\ Finish(w)
       /\ UNCHANGED <<message, alerted, ignored, run, history>>

\* repository.mark_alert_sent, after a first attempt of a p0 alert.
FlagMessage(i) ==
    /\ pc[i] = "delivered"
    /\ alerted' = alerted \cup {msg[i]}
    /\ Finish(i)
    /\ UNCHANGED <<message, rows, ignored, run, history>>

------------------------------------------------------------------------------
\* The retry run (main.retry_alerts_job, repository.retry_pending_alerts).

\* Faulty: every claim is released, or none is.
StaleAtOnce(m) == status[m] = "sending"
StaleNever(m) == FALSE

\* The run reads the clock and the ignored chats, then releases what was
\* claimed StaleAfter ago.
Stale(m) == status[m] = "sending" /\ age[m] >= StaleAfter

StartRun ==
    LET S == {m \in Messages : Allowed(m) /\ Stale(m)} IN
    /\ pc[Retrier] = "idle" /\ slot
    /\ slot' = FALSE
    /\ batch' = Messages \ ignored
    /\ status' = [m \in Messages |-> IF m \in S THEN "pending" ELSE status[m]]
    /\ token' = [m \in Messages |-> IF m \in S THEN NoWorker ELSE token[m]]
    /\ age' = [m \in Messages |-> IF m \in S THEN 0 ELSE age[m]]
    /\ Continue(Retrier, "released")
    /\ UNCHANGED <<message, alerted, attempts, due, ignored, doomed, history>>

\* cancel_legacy_alerts reads the unsafe jobs, and later overwrites the rows it
\* read: two statements, with other threads in between.  The command line
\* passes no type filter.
CancelRead(c) ==
    /\ pc[c] = IF c = Cli THEN "idle" ELSE "released"
    /\ doomed' = [doomed EXCEPT ![c] =
         {m \in Messages : /\ status[m] \in {"pending", "sending"}
                           /\ c = Retrier => Allowed(m)
                           /\ ~RetrySafe(m)}]
    /\ Continue(c, "cancelling")
    /\ UNCHANGED <<message, alerted, rows, ignored, batch, slot, history>>

CancelCommit(c) ==
    /\ pc[c] = "cancelling"
    /\ CancelRows(doomed[c])
    /\ doomed' = [doomed EXCEPT ![c] = {}]
    /\ Continue(c, IF c = Cli THEN "idle" ELSE "selecting")
    /\ UNCHANGED <<message, alerted, ignored, batch, slot, history>>

\* The SELECT: due rows of an allowed type, in a chat the run found not
\* ignored, whose message is still there.
Select ==
    /\ pc[Retrier] = "selecting"
    /\ batch' = {m \in batch : /\ Claimable(Retrier, m)
                               /\ Allowed(m)
                               /\ message[m] \notin {"absent", "deleted"}}
    /\ Continue(Retrier, "batch")
    /\ UNCHANGED <<message, alerted, rows, ignored, doomed, slot, history>>

\* claim_pending_alert of the next selected job.
ClaimNext(m) ==
    /\ pc[Retrier] = "batch" /\ m \in batch
    /\ batch' = batch \ {m}
    /\ IF Claimable(Retrier, m)
         THEN /\ ClaimPending(Retrier, m)
              /\ msg' = [msg EXCEPT ![Retrier] = m]
              /\ Goto(Retrier, "claimed")
         ELSE UNCHANGED <<rows, msg, pc>>
    /\ UNCHANGED <<message, alerted, ignored, late, spent, doomed, slot, history>>

EndRun ==
    /\ pc[Retrier] = "batch" /\ batch = {}
    /\ Goto(Retrier, "idle")
    /\ late' = [late EXCEPT ![Retrier] = 0]
    /\ UNCHANGED <<message, alerted, rows, ignored, msg, spent, run, history>>

------------------------------------------------------------------------------
\* The environment.

\* A crash, a restart or a database error ends what a worker was doing; the
\* rows stay as they are.  If the mail was taken, nobody remembers.
Stop(w) ==
    /\ pc[w] # "idle"
    /\ unsure' = IF pc[w] = "accepted" THEN [unsure EXCEPT ![msg[w]] = TRUE]
                 ELSE unsure
    /\ pc' = [pc EXCEPT ![w] = "idle"]
    /\ msg' = [msg EXCEPT ![w] = NoMessage]
    /\ late' = [late EXCEPT ![w] = 0]
    /\ spent' = [spent EXCEPT ![w] = 0]
    /\ batch' = IF w = Retrier THEN {} ELSE batch
    /\ doomed' = [doomed EXCEPT ![Retrier] = IF w = Retrier THEN {} ELSE @]
    /\ UNCHANGED <<message, alerted, rows, ignored, slot, accepted>>

StopCli ==
    /\ pc[Cli] # "idle"
    /\ Goto(Cli, "idle")
    /\ doomed' = [doomed EXCEPT ![Cli] = {}]
    /\ UNCHANGED <<message, alerted, rows, ignored, msg, late, spent, batch, slot,
                   history>>

\* cleanup_old deletes a message past its retention of days, so none that an
\* ingesting thread is handling.
Cleanup(m) ==
    /\ message[m] \notin {"absent", "deleted"}
    /\ \A i \in Ingesters : msg[i] # m
    /\ message' = [message EXCEPT ![m] = "deleted"]
    /\ UNCHANGED <<alerted, rows, ignored, work, run, history>>

\* The owner edits ignored_chats.json.
EditIgnored(m) ==
    /\ ignored' = IF m \in ignored THEN ignored \ {m} ELSE ignored \cup {m}
    /\ UNCHANGED <<message, alerted, rows, work, run, history>>

\* A minute passes.  Statements take no time at this scale: only the mail
\* transport does, at most MaxSend minutes.
Tick ==
    LET sending == {w \in Workers : pc[w] = "sending"}
        waiting == {m \in Messages : status[m] \in {"pending", "sending"}}
        claimed == {m \in Messages : status[m] = "sending"}
    IN /\ \A w \in (Workers \cup {Cli}) \ sending : pc[w] = "idle"
       /\ \A w \in sending : spent[w] < MaxSend
       /\ due' = [m \in Messages |->
                    IF m \in waiting THEN Larger(due[m] - 1, -Horizon) ELSE due[m]]
       /\ age' = [m \in Messages |->
                    IF m \in claimed THEN Smaller(age[m] + 1, StaleAfter) ELSE age[m]]
       /\ late' = [w \in Workers |->
                     IF w \in sending THEN Smaller(late[w] + 1, Horizon) ELSE late[w]]
       /\ spent' = [w \in Workers |-> IF w \in sending THEN spent[w] + 1 ELSE spent[w]]
       /\ slot' = TRUE
       /\ UNCHANGED <<message, alerted, status, token, attempts, ignored, pc, msg,
                      batch, doomed, history>>

------------------------------------------------------------------------------
Ingest(i) ==
    \/ \E m \in Messages : Receive(i, m)
    \/ Classify(i) \/ CreateJob(i) \/ ClaimFirst(i) \/ FlagMessage(i)

Transport(w) ==
    BeginSend(w) \/ Accept(w) \/ Raise(w) \/ MarkSent(w) \/ MarkPending(w)

RetryRun ==
    \/ StartRun \/ CancelRead(Retrier) \/ CancelCommit(Retrier)
    \/ Select \/ EndRun
    \/ \E m \in Messages : ClaimNext(m)

Command == CancelRead(Cli) \/ CancelCommit(Cli) \/ StopCli

Environment ==
    \/ \E w \in Workers : Stop(w)
    \/ \E m \in Messages : Cleanup(m) \/ EditIgnored(m)
    \/ Tick

Work ==
    \/ \E i \in Ingesters : Ingest(i)
    \/ \E w \in Workers : Transport(w)
    \/ RetryRun
    \/ Command

Next == Work \/ Environment

Spec == Init /\ [][Next]_vars

\* The threads keep running, a mail server that is tried again and again does
\* not refuse every time, and only finitely much arrives in a minute.  Nothing
\* else is assumed of Telegram, the owner or the commands.
Fairness ==
    /\ WF_vars(RetryRun)
    /\ \A i \in Ingesters : WF_vars(Classify(i) \/ CreateJob(i) \/ ClaimFirst(i)
                                    \/ FlagMessage(i))
    /\ \A w \in Workers : /\ WF_vars(Transport(w))
                          /\ SF_vars(Accept(w))
    /\ WF_vars(Command)
    /\ []<><<Tick>>_vars

FairSpec == Spec /\ Fairness

------------------------------------------------------------------------------
\* Properties.

\* A worker between its claim and its last write about the job.
Holds(w, m) ==
    pc[w] \in {"claimed", "sending", "accepted", "failed"} /\ msg[w] = m

\* Whoever is at work on a job still owns its row: no other thread released or
\* claimed it meanwhile, and the only thing that can have happened to it is a
\* cancellation.  send_claimed_alert relies on this when it writes the outcome
\* by primary key without looking at the token again.
ClaimsAreKept ==
    \A w \in Workers, m \in Messages :
        Holds(w, m) => \/ status[m] = "sending" /\ token[m] = w
                       \/ status[m] = "cancelled"

\* No two workers are at work on one job: a claimed job is not sent by a second
\* worker (claim_pending_alert, release_stale_alert_claims).
OneSender ==
    \A v, w \in Workers, m \in Messages : Holds(v, m) /\ Holds(w, m) => v = w

\* The owner gets a second mail about one message only when the sender of the
\* first cannot know that it was taken: the transport raised after the server
\* took it, or the thread ended before it wrote "sent".
NoNeedlessDuplicate == \A m \in Messages : accepted[m] > 1 => unsure[m]

\* An alert the present rules cannot justify is never mailed, whichever run of
\* the retry job or of the cancel command meets it first.
LegacyIsNeverMailed == \A m \in Legacy : accepted[m] = 0

\* A job that is sent never goes back to the queue, although the outcome of a
\* send is written over whatever the row says.
SentIsFinal ==
    [][\A m \in Messages :
         status[m] = "sent" => status'[m] \in {"sent", "cancelled"}]_vars

\* The outbox an alert is in.  A cancelled job may still be in the transport; it is
\* over once nobody is at work on it.
InMail(m, step) == \E w \in Workers : pc[w] = step /\ msg[w] = m

Over(m) ==
    \/ status[m] = "sent"
    \/ status[m] = "cancelled" /\ \A w \in Workers : ~Holds(w, m)

Stage(m) ==
    IF Over(m) THEN "closed"
    ELSE IF InMail(m, "accepted") THEN "taken"
    ELSE IF InMail(m, "sending") THEN "trying"
    ELSE "open"

Abstract == INSTANCE Outbox WITH
    Things <- Messages,
    stage <- [m \in Messages |-> Stage(m)],
    taken <- accepted,
    doubt <- {m \in Messages : unsure[m]}

\* The threads, the retry and the cancellation together are an outbox: one alert is
\* in one mail at a time, and one that is over never goes out again.
ImplementsOutbox == Abstract!Spec

\* Every job that exists is eventually sent or cancelled, if from some point on
\* nothing crashes and its chat is not ignored.  (A worker that ends its work in
\* the ordinary way looks like one that stopped.)
JobsAreSettled ==
    \A m \in Messages \ Legacy :
        (/\ <>[][(\E w \in Workers : Stop(w)) => Work]_vars
         /\ <>[](m \notin ignored))
        => ((status[m] # "none") ~> (status[m] \in {"sent", "cancelled"}))

------------------------------------------------------------------------------
\* Why they hold: the inductive invariant of AlertOutboxProofs.

\* The age a claim starts with (0 in mention-only mode, else the age of the
\* message) and the longest send together stay below StaleAfter.
LeaseOutlivesSend ==
    \A lag \in IF MentionOnly THEN {0} ELSE Lags : lag + MaxSend < StaleAfter

\* An ingesting thread is never so late that its claim could be stale.
InTime ==
    \A i \in Ingesters :
        /\ pc[i] \notin {"sending", "accepted", "failed", "delivered"} =>
             spent[i] = 0
        /\ pc[i] \in {"saved", "classified", "created", "claimed"} =>
             late[i] + MaxSend < StaleAfter
        /\ pc[i] \in {"sending", "accepted", "failed"} =>
             late[i] - spent[i] + MaxSend < StaleAfter

\* Its claim is no older than the clock value it was made with.
ClaimAge ==
    \A i \in Ingesters, m \in Messages :
        Holds(i, m) /\ token[m] = i => age[m] <= late[i]

ClaimInv == InTime /\ ClaimAge /\ ClaimsAreKept /\ OneSender

\* After a delivery its sender will remember, the job is out of the queue and
\* nobody else is at work on it.
Remembered(m) == accepted[m] > 0 /\ ~unsure[m]

OutOfQueue(m) ==
    /\ status[m] \in {"sending", "sent", "cancelled"}
    /\ \A w \in Workers : Holds(w, m) => pc[w] = "accepted"
    /\ status[m] = "sending" => \E w \in Workers : Holds(w, m)

DeliveryInv ==
    \A m \in Messages : /\ accepted[m] > 1 => unsure[m]
                        /\ Remembered(m) => OutOfQueue(m)

\* Nobody ever reaches the transport with a legacy alert.
LegacyInv ==
    \A m \in Legacy :
        /\ message[m] \in {"stored", "deleted"}
        /\ accepted[m] = 0
        /\ \A w \in Workers : msg[w] = m => w = Retrier /\ pc[w] = "claimed"
=============================================================================
