--------------------------- MODULE MessageIntake ---------------------------
(***************************************************************************)
(* How messages come in when MENTION_ONLY_MODE is off: the listener        *)
(* (telegram/client.py), the backfill of a start (telegram/backfill.py)    *)
(* and the classification both run (services/p0.py).                       *)
(*                                                                         *)
(* The listener handles one message at a time in a thread, under a lock.   *)
(* The backfill runs on the event loop, without the lock: it awaits while  *)
(* it lists chats and fetches, and holds the loop while it stores and      *)
(* classifies.  Each step below ends with a commit, so the two interleave  *)
(* at commits, and the process may die between any two.  What comes while  *)
(* the process is down is not delivered again.  Which chats are ignored is *)
(* read when the process starts.                                           *)
(*                                                                         *)
(* A message is its number: numbers grow with time, in every chat.         *)
(***************************************************************************)
EXTENDS Integers, FiniteSets, AlertPolicy

CONSTANTS
    Chats,
    MaxMessages,
    ChatOf,         \* the chat of each message
    Contents,       \* what the messages may be, and whether they are login codes
    Rules,          \* the settings of the policy
    Suspicious,     \* messages an old review would mark
    PerChat, Total, \* backfill limits of one start
    Back,           \* ticks the first backfill goes back
    Recent,         \* ticks within which a backfilled message is classified
    Hour, Cap,      \* at most Cap calls of the model in Hour ticks
    MaxTime, MaxCrashes,
    None

Messages == 1..MaxMessages
Times == 0..MaxTime

\* What AlertPolicy makes of a message.
Kinds == {"strict", "open", "quiet", "media", "own"}

Actors == {"listener", "backfill"}
Steps == {"fetched", "look", "save", "review", "policy", "budget", "mark", "ask",
          "strict", "alert", "advance"}

ASSUME ConstantsAssumption ==
    /\ MaxMessages \in Nat /\ MaxTime \in Nat /\ MaxCrashes \in Nat
    /\ ChatOf \in [Messages -> Chats]
    /\ Contents \subseteq [Messages -> [message : Message, code : BOOLEAN]]
    /\ Rules \in Settings
    /\ Suspicious \subseteq Messages
    /\ PerChat \in Nat \ {0} /\ Total \in Nat \ {0}
    /\ Back \in Nat /\ Recent \in Nat /\ Hour \in Nat /\ Cap \in Nat
    /\ None \notin Times /\ None \notin [msg : Messages, step : Steps]

States == [start : Int, end : Times, completed : BOOLEAN, last : 0..MaxMessages]
Verdicts == {"none", "not_p0", "p0_candidate", "p0_strict"}

VARIABLES
    now,
    sent, sentAt,   \* Telegram: messages 1..sent, and when they were sent
    kind,           \* what the policy makes of each
    codes,          \* messages Telegram's service account sent
    pending,        \* updates on their way to the listener
    phase,          \* of the process: down, scanning, filling or running
    runAt,          \* when the backfill of this start began
    toScan,         \* chats it has yet to look at
    ignored,        \* chats the process ignores
    pass,           \* chats it has yet to visit in this round
    remaining, fetched, progressed,
    work,           \* the message each actor has in hand, and its next step
    stored,         \* rows of messages
    verdict,        \* p0_classification of each
    called,         \* p0_llm_called_at of each, or None
    alerts,         \* messages with an alert job
    states,         \* backfill_states
    missed, torn,   \* history: messages that came while the process was down; in hand
                    \* when it died
    unread,         \* history: messages lost because Telegram did not tell who sent them
    asks,           \* history: who asked the model, about which message
    failed,         \* history: messages the model failed on
    base,           \* history: the cursor each backfill state began with
    crashes

telegram == <<sent, sentAt, kind, codes>>
scan == <<runAt, toScan, ignored>>
round == <<pass, remaining, fetched, progressed>>
rows == <<stored, verdict, called, alerts>>
past == <<missed, torn, unread, asks, failed, base>>
vars == <<now, telegram, pending, phase, scan, round, work, rows, states, past, crashes>>

TypeOK ==
    /\ now \in Times
    /\ sent \in 0..MaxMessages /\ sentAt \in [Messages -> Times] /\ kind \in [Messages -> Kinds]
    /\ codes \subseteq Messages
    /\ pending \subseteq 1..sent
    /\ phase \in {"down", "scanning", "filling", "running"}
    /\ runAt \in Times /\ toScan \subseteq Chats /\ ignored \subseteq Chats /\ pass \subseteq Chats
    /\ remaining \in 0..Total
    /\ fetched \in [Chats -> 0..PerChat] /\ progressed \in BOOLEAN
    /\ work \in [Actors -> [msg : Messages, step : Steps] \cup {None}]
    /\ stored \subseteq 1..sent
    /\ verdict \in [Messages -> Verdicts]
    /\ called \in [Messages -> Times \cup {None}]
    /\ alerts \subseteq stored
    /\ states \in [Chats -> States \cup {None}]
    /\ missed \subseteq 1..sent /\ torn \subseteq 1..sent /\ unread \subseteq 1..sent
    /\ asks \subseteq Actors \X Messages /\ failed \subseteq Messages
    /\ base \in [Chats -> 0..MaxMessages]
    /\ crashes \in 0..MaxCrashes

Init ==
    /\ now = 0
    /\ sent = 0 /\ sentAt = [m \in Messages |-> 0] /\ pending = {}
    /\ \E content \in Contents :
         /\ kind = [m \in Messages |-> Kind(content[m].message, Rules)]
         /\ codes = {m \in Messages : content[m].code}
    /\ phase = "down" /\ runAt = 0 /\ toScan = {} /\ ignored = {}
    /\ pass = {} /\ remaining = 0 /\ fetched = [c \in Chats |-> 0] /\ progressed = FALSE
    /\ work = [a \in Actors |-> None]
    /\ stored = {} /\ verdict = [m \in Messages |-> "none"]
    /\ called = [m \in Messages |-> None] /\ alerts = {}
    /\ states = [c \in Chats |-> None]
    /\ missed = {} /\ torn = {} /\ unread = {} /\ asks = {} /\ failed = {}
    /\ base = [c \in Chats |-> 0]
    /\ crashes = 0

Up == phase # "down"
Idle(a) == work[a] = None
Goto(a, m, step) == work' = [work EXCEPT ![a] = [msg |-> m, step |-> step]]
At(a, m, step) == work[a] = [msg |-> m, step |-> step]

\* The event loop is free unless the backfill stores or classifies.
LoopIsFree == ~Idle("backfill") => work["backfill"].step = "fetched"

Greatest(S) == IF S = {} THEN 0 ELSE CHOOSE x \in S : \A y \in S : y <= x
Least(S) == CHOOSE x \in S : \A y \in S : x <= y

------------------------------------------------------------------------------
\* Telegram and the process.

Send ==
    LET m == sent + 1 IN
    /\ sent < MaxMessages
    /\ sent' = m
    /\ sentAt' = [sentAt EXCEPT ![m] = now]
    /\ pending' = IF Up THEN pending \cup {m} ELSE pending
    /\ missed' = IF Up THEN missed ELSE missed \cup {m}
    /\ UNCHANGED <<now, kind, codes, phase, scan, round, work, rows, states, torn, unread,
                   asks, failed, base, crashes>>

Start ==
    /\ ~Up
    /\ phase' = "scanning" /\ runAt' = now
    /\ ignored' \in SUBSET Chats /\ toScan' = Chats \ ignored'
    /\ pass' = {} /\ remaining' = Total /\ fetched' = [c \in Chats |-> 0]
    /\ progressed' = FALSE
    /\ UNCHANGED <<now, telegram, pending, work, rows, states, past, crashes>>

Crash ==
    /\ Up /\ crashes < MaxCrashes
    /\ crashes' = crashes + 1
    /\ phase' = "down"
    /\ missed' = missed \cup pending /\ pending' = {}
    /\ torn' = torn \cup {work[a].msg : a \in {b \in Actors : ~Idle(b)}}
    /\ work' = [a \in Actors |-> None]
    /\ UNCHANGED <<now, telegram, scan, round, rows, states, unread, asks, failed, base>>

Tick ==
    /\ now < MaxTime
    /\ now' = now + 1
    /\ UNCHANGED <<telegram, pending, phase, scan, round, work, rows, states, past, crashes>>

------------------------------------------------------------------------------
\* The rounds of the backfill.

StoredOf(c) == {m \in stored : ChatOf[m] = c}

\* A chat gets a state once; its cursor starts at the newest message stored.
Scan(c) ==
    /\ phase = "scanning" /\ c \in toScan
    /\ toScan' = toScan \ {c}
    /\ IF states[c] = None
         THEN LET last == Greatest(StoredOf(c)) IN
              /\ states' = [states EXCEPT ![c] = [start |-> runAt - Back, end |-> runAt,
                                                  completed |-> FALSE, last |-> last]]
              /\ base' = [base EXCEPT ![c] = last]
         ELSE UNCHANGED <<states, base>>
    /\ UNCHANGED <<now, telegram, pending, phase, runAt, ignored, round, work, rows, missed,
                   torn, unread, asks, failed, crashes>>

\* Faulty: another round whether or not there is anything left.
BeginPassAnyway ==
    /\ remaining > 0 /\ Idle("backfill")
    /\ \/ phase = "scanning" /\ toScan = {}
       \/ phase = "filling" /\ pass = {}
    /\ phase' = "filling"
    /\ pass' = {c \in Chats \ ignored : states[c] # None /\ ~states[c].completed}
    /\ progressed' = FALSE
    /\ UNCHANGED <<now, telegram, pending, scan, remaining, fetched, work, rows, states,
                   past, crashes>>

\* Another round of the chats that are not complete, while the last one fetched
\* anything.
BeginPass ==
    /\ remaining > 0 /\ Idle("backfill")
    /\ \/ phase = "scanning" /\ toScan = {}
       \/ phase = "filling" /\ pass = {} /\ progressed
    /\ phase' = "filling"
    /\ pass' = {c \in Chats \ ignored : states[c] # None /\ ~states[c].completed}
    /\ progressed' = FALSE
    /\ UNCHANGED <<now, telegram, pending, scan, remaining, fetched, work, rows, states,
                   past, crashes>>

EndBackfill ==
    /\ phase = "filling" /\ Idle("backfill")
    /\ remaining = 0 \/ (pass = {} /\ ~progressed)
    /\ phase' = "running"
    /\ UNCHANGED <<now, telegram, pending, scan, round, work, rows, states, past, crashes>>

Candidates(c) ==
    {m \in 1..sent : /\ ChatOf[m] = c /\ m > states[c].last
                     /\ sentAt[m] >= states[c].start}

Visiting(c) == /\ phase = "filling" /\ Idle("backfill")
               /\ c \in pass /\ remaining > 0

\* Faulty: a chat that had its share is complete.
SkipForGood(c) ==
    /\ Visiting(c) /\ fetched[c] >= PerChat
    /\ states' = [states EXCEPT ![c].completed = TRUE]
    /\ pass' = pass \ {c}
    /\ UNCHANGED <<now, telegram, pending, phase, scan, remaining, fetched, progressed,
                   work, rows, past, crashes>>

\* A chat that had its share of this start waits for the next one.
SkipChat(c) ==
    /\ Visiting(c) /\ fetched[c] >= PerChat
    /\ pass' = pass \ {c}
    /\ UNCHANGED <<now, telegram, pending, phase, scan, remaining, fetched, progressed,
                   work, rows, states, past, crashes>>

\* Nothing more before the end of the window: the chat is complete, for good.
CompleteChat(c) ==
    /\ Visiting(c) /\ fetched[c] < PerChat
    /\ Candidates(c) # {} => sentAt[Least(Candidates(c))] > states[c].end
    /\ states' = [states EXCEPT ![c].completed = TRUE]
    /\ pass' = pass \ {c}
    /\ UNCHANGED <<now, telegram, pending, phase, scan, remaining, fetched, progressed,
                   work, rows, past, crashes>>

\* Faulty: the newest message of the window first.
FetchNewest(c) ==
    LET window == {m \in Candidates(c) : sentAt[m] <= states[c].end} IN
    /\ Visiting(c) /\ fetched[c] < PerChat
    /\ Candidates(c) # {} /\ sentAt[Least(Candidates(c))] <= states[c].end
    /\ remaining' = remaining - 1
    /\ fetched' = [fetched EXCEPT ![c] = @ + 1]
    /\ progressed' = TRUE
    /\ Goto("backfill", Greatest(window), "fetched")
    /\ UNCHANGED <<now, telegram, pending, phase, scan, pass, rows, states, past, crashes>>

\* The oldest message of the window after the cursor.
Fetch(c) ==
    /\ Visiting(c) /\ fetched[c] < PerChat
    /\ Candidates(c) # {} /\ sentAt[Least(Candidates(c))] <= states[c].end
    /\ remaining' = remaining - 1
    /\ fetched' = [fetched EXCEPT ![c] = @ + 1]
    /\ progressed' = TRUE
    /\ Goto("backfill", Least(Candidates(c)), "fetched")
    /\ UNCHANGED <<now, telegram, pending, phase, scan, pass, rows, states, past, crashes>>

------------------------------------------------------------------------------
\* One message.

env == <<now, telegram, phase, scan, missed, torn, unread, base, crashes>>
still == <<env, pending, round, states>>

\* Login codes and what is said in ignored chats stay in Telegram.
Wanted(m) == ChatOf[m] \notin ignored /\ m \notin codes

Arrived(m) == Up /\ m \in pending /\ LoopIsFree

Ignore(m) ==
    /\ Arrived(m) /\ ~Wanted(m)
    /\ pending' = pending \ {m}
    /\ UNCHANGED <<env, round, work, rows, states, asks, failed>>

\* Telegram is asked for the chat and the sender.  If it does not answer the handler
\* ends with an exception, and nobody takes up the update again.
Lose(m) ==
    /\ Arrived(m) /\ Wanted(m)
    /\ pending' = pending \ {m}
    /\ unread' = unread \cup {m}
    /\ UNCHANGED <<now, telegram, phase, scan, round, work, rows, states, missed, torn, asks,
                   failed, base, crashes>>

Deliver(m) ==
    /\ Arrived(m) /\ Wanted(m) /\ Idle("listener")
    /\ pending' = pending \ {m}
    /\ Goto("listener", m, "save")
    /\ UNCHANGED <<env, round, rows, states, asks, failed>>

\* The sender and the message replied to have been fetched.
Resume(m) ==
    /\ At("backfill", m, "fetched")
    /\ Goto("backfill", m, "look")
    /\ UNCHANGED <<still, rows, asks, failed>>

Look(m) ==
    /\ At("backfill", m, "look")
    /\ Goto("backfill", m, IF m \in stored THEN "advance" ELSE "save")
    /\ UNCHANGED <<still, rows, asks, failed>>

Finish(a, m) ==
    IF a = "listener" THEN work' = [work EXCEPT ![a] = None] ELSE Goto(a, m, "advance")

IsRecent(m) == runAt - sentAt[m] <= Recent

\* save_message keeps the row that is there.
Save(a, m) ==
    /\ At(a, m, "save")
    /\ stored' = stored \cup {m}
    /\ IF kind[m] = "own" THEN Finish(a, m)
       ELSE IF a = "listener" \/ IsRecent(m) THEN Goto(a, m, "policy")
       ELSE IF m \in Suspicious /\ kind[m] # "media" THEN Goto(a, m, "review")
       ELSE Finish(a, m)
    /\ UNCHANGED <<still, verdict, called, alerts, asks, failed>>

Classify(a, m, v) ==
    /\ verdict' = [verdict EXCEPT ![m] = v]
    /\ Finish(a, m)
    /\ UNCHANGED <<still, stored, called, alerts>>

Review(a, m) ==
    /\ At(a, m, "review")
    /\ Classify(a, m, "p0_candidate")
    /\ UNCHANGED <<asks, failed>>

\* What is classified, or not to be, is left.
Policy(a, m) ==
    /\ At(a, m, "policy")
    /\ IF verdict[m] # "none" \/ kind[m] = "quiet"
         THEN Finish(a, m) /\ UNCHANGED <<still, rows>>
         ELSE IF kind[m] = "media" THEN Classify(a, m, "not_p0")
         ELSE Goto(a, m, "budget") /\ UNCHANGED <<still, rows>>
    /\ UNCHANGED <<asks, failed>>

\* Calls are counted by the time of their messages.
Calls(m) == Cardinality({x \in Messages : called[x] # None /\ called[x] >= sentAt[m] - Hour})

\* Faulty: one call too many.
BudgetOneMore(a, m) ==
    /\ At(a, m, "budget")
    /\ IF Cap < Calls(m)
         THEN IF kind[m] = "strict"
                THEN Goto(a, m, "strict") /\ UNCHANGED <<still, rows>>
                ELSE Classify(a, m, "p0_candidate")
         ELSE Goto(a, m, "mark") /\ UNCHANGED <<still, rows>>
    /\ UNCHANGED <<asks, failed>>

\* At the cap a strict message is alerted without the model, another one is left
\* for the digest.
Budget(a, m) ==
    /\ At(a, m, "budget")
    /\ IF Cap <= Calls(m)
         THEN IF kind[m] = "strict"
                THEN Goto(a, m, "strict") /\ UNCHANGED <<still, rows>>
                ELSE Classify(a, m, "p0_candidate")
         ELSE Goto(a, m, "mark") /\ UNCHANGED <<still, rows>>
    /\ UNCHANGED <<asks, failed>>

Mark(a, m) ==
    /\ At(a, m, "mark")
    /\ called' = [called EXCEPT ![m] = sentAt[m]]
    /\ Goto(a, m, "ask")
    /\ UNCHANGED <<still, stored, verdict, alerts, asks, failed>>

\* The model is asked.  A deterministic signal prevails over its answer and over
\* its failure; without one it never makes a message strict.
Ask(a, m) ==
    /\ At(a, m, "ask")
    /\ asks' = asks \cup {<<a, m>>}
    /\ \E answered \in BOOLEAN :
         /\ failed' = IF answered THEN failed ELSE failed \cup {m}
         /\ IF kind[m] = "strict"
              THEN Goto(a, m, "strict") /\ UNCHANGED <<still, rows>>
              ELSE \E v \in {"p0_candidate", "not_p0"} :
                     (~answered => v = "p0_candidate") /\ Classify(a, m, v)

\* Faulty: a strict message that is classified needs no alert.
StrictAsReview(a, m) ==
    /\ At(a, m, "strict")
    /\ Classify(a, m, "p0_strict")
    /\ UNCHANGED <<asks, failed>>

Strict(a, m) ==
    /\ At(a, m, "strict")
    /\ verdict' = [verdict EXCEPT ![m] = "p0_strict"]
    /\ Goto(a, m, "alert")
    /\ UNCHANGED <<still, stored, called, alerts, asks, failed>>

\* create_alert_job; what becomes of the job is another module's.
Alert(a, m) ==
    /\ At(a, m, "alert")
    /\ alerts' = alerts \cup {m}
    /\ Finish(a, m)
    /\ UNCHANGED <<still, stored, verdict, called, asks, failed>>

\* The cursor moves when the message is done.
Advance(m) ==
    LET c == ChatOf[m] IN
    /\ At("backfill", m, "advance")
    /\ states' = [states EXCEPT ![c].last = m]
    /\ pass' = pass \ {c}
    /\ work' = [work EXCEPT !["backfill"] = None]
    /\ UNCHANGED <<env, pending, remaining, fetched, progressed, rows, asks, failed>>

Handle(a, m) ==
    \/ Save(a, m) \/ Policy(a, m) \/ Budget(a, m) \/ Mark(a, m)
    \/ Ask(a, m) \/ Strict(a, m) \/ Alert(a, m) \/ Review(a, m)

Backfill ==
    \/ BeginPass \/ EndBackfill
    \/ \E c \in Chats : Scan(c) \/ SkipChat(c) \/ CompleteChat(c) \/ Fetch(c)
    \/ \E m \in Messages : Resume(m) \/ Look(m) \/ Handle("backfill", m) \/ Advance(m)

Listener ==
    \E m \in Messages : Ignore(m) \/ Lose(m) \/ Deliver(m) \/ Handle("listener", m)

Next == Send \/ Start \/ Crash \/ Tick \/ Backfill \/ Listener

Spec == Init /\ [][Next]_vars

\* A process that runs goes on; the backfill fetches, the thread works.
Fairness == /\ WF_vars(Backfill)
            /\ \A m \in Messages : SF_vars(Deliver(m)) /\ WF_vars(Handle("listener", m))

LiveSpec == Spec /\ Fairness

------------------------------------------------------------------------------
\* Properties.

InWindow(m, s) == s.start <= sentAt[m] /\ sentAt[m] <= s.end

\* The cursor of a chat never passes a message of its window that is not stored,
\* whatever crashes, caps and live messages do to the rounds.
CursorIsBehindStored ==
    \A c \in Chats : states[c] # None =>
        \A m \in 1..sent :
            /\ ChatOf[m] = c /\ InWindow(m, states[c])
            /\ base[c] < m /\ m <= states[c].last
            => m \in stored

\* A chat that is complete has every message of its window after the first cursor.
\* (Those of the last tick may come after it was found complete: the listener has them.)
CompleteIsComplete ==
    \A c \in Chats : states[c] # None /\ states[c].completed =>
        \A m \in 1..sent :
            /\ ChatOf[m] = c /\ InWindow(m, states[c])
            /\ base[c] < m /\ sentAt[m] < states[c].end
            => m \in stored

InHand(m) == \E a \in Actors : ~Idle(a) /\ work[a].msg = m

\* What is classified as strict is alerted, by whichever of the two had it, unless
\* the process died with it in hand.
StrictIsAlerted ==
    \A m \in Messages : verdict[m] = "p0_strict" => m \in alerts \/ InHand(m) \/ m \in torn

\* Two actors that count before they call exceed the cap twice over at most.
WithinTwiceTheCap ==
    \A m \in 1..sent :
        Cardinality({p \in asks : /\ sentAt[p[2]] <= sentAt[m]
                                  /\ sentAt[p[2]] >= sentAt[m] - Hour}) <= 2 * Cap

\* The backfill of a start ends.
BackfillEnds == phase \in {"scanning", "filling"} ~> phase \in {"running", "down"}

Settled(m) ==
    /\ m \in stored /\ ~InHand(m)
    /\ kind[m] \in {"quiet", "own"} \/ verdict[m] # "none"
    /\ kind[m] = "strict" => m \in alerts

\* An update is stored, classified and alerted, login codes and ignored chats apart,
\* unless the process dies first or Telegram does not tell who sent it: nothing that
\* listener and backfill do to each other costs one.
EveryUpdateIsSettled ==
    \A m \in Messages :
        m \in pending /\ Wanted(m) ~> Settled(m) \/ m \in missed \cup torn \cup unread

Quiescent == phase = "running" /\ pending = {} /\ \A a \in Actors : Idle(a)

\* Nothing is dropped in silence: once a start has settled, what came while the
\* process was down, within the window of the start and not in an ignored chat, is
\* stored.
MissedIsStored ==
    Quiescent => \A m \in missed :
        sentAt[m] >= runAt - Back /\ ChatOf[m] \notin ignored => m \in stored
=============================================================================
