------------------------------ MODULE WebPush ------------------------------
(***************************************************************************)
(* Web Push (inbox/push.py): every four seconds deliver_pending takes a    *)
(* snapshot of the inbox and of the subscriptions and pushes the newest    *)
(* notification of each conversation to each device, one after the other.  *)
(*                                                                         *)
(* The loop awaits the push service for up to ten seconds a push; meanwhile*)
(* the browser subscribes and unsubscribes, the owner reads, mutes and     *)
(* ignores, messages arrive, and the process may die.                      *)
(***************************************************************************)
EXTENDS Integers, FiniteSets

CONSTANTS
    Subscriptions, \* endpoints of devices
    Conversations,
    MaxEvents,     \* notifications raised in a behaviour
    ConversationOf,\* the conversation of each
    Window,        \* rows a pass looks at, 200
    MaxAttempts,   \* MAX_ATTEMPTS
    Backoff,       \* ticks to wait after each attempt
    MaxDeaths,
    NoDelivery, NoPush

Events == 1..MaxEvents
Pairs == Subscriptions \X Events

\* A delivery is stored with its first attempt.
Deliveries == [attempts : Nat \ {0}, wait : Nat, done : BOOLEAN]

ASSUME PushAssumption ==
    /\ MaxEvents \in Nat /\ MaxDeaths \in Nat
    /\ MaxAttempts \in Nat \ {0} /\ Window \in Nat \ {0}
    /\ ConversationOf \in [Events -> Conversations]
    /\ Backoff \in [1..MaxAttempts -> Nat]
    /\ NoPush \notin Pairs /\ NoDelivery \notin Deliveries

VARIABLES
    raised,     \* number of rows of inbox_notifications; their ids are 1..raised
    suppressed, \* those raised while muted or in the foreground
    faded,      \* the first rows, older than a day
    seen,       \* last_seen_message_id: the newest event seen of each conversation
    active,     \* conversations that are not closed, expired or quarantined
    muted, ignored,
    sub,        \* web_push_subscriptions: none, on or off
    since,      \* created_at: the events older than the subscription
    delivery,   \* web_push_deliveries: [attempts, wait, done]
    todo,       \* what is left of the pass under way
    current,    \* the push under way
    pushed,     \* history: how often the push service took it, two for more
    doubt,      \* history: pairs with an attempt whose outcome was never learnt
    deaths

inbox == <<raised, suppressed, faded, seen, active, muted, ignored>>
table == <<sub, since, delivery>>
history == <<pushed, doubt, deaths>>
pushVars == <<inbox, table, todo, current, history>>

PushTypeOK ==
    /\ raised \in 0..MaxEvents /\ faded \in 0..MaxEvents
    /\ suppressed \subseteq Events
    /\ seen \in [Conversations -> 0..MaxEvents]
    /\ active \subseteq Conversations
    /\ muted \subseteq Conversations /\ ignored \subseteq Conversations
    /\ sub \in [Subscriptions -> {"none", "on", "off"}]
    /\ since \in [Subscriptions -> 0..MaxEvents]
    /\ delivery \in [Pairs -> Deliveries \cup {NoDelivery}]
    /\ todo \subseteq Pairs
    /\ current \in Pairs \cup {NoPush}
    /\ pushed \in [Pairs -> 0..2]
    /\ doubt \subseteq Pairs
    /\ deaths \in 0..MaxDeaths

PushInit ==
    /\ raised = 0 /\ suppressed = {} /\ faded = 0
    /\ seen = [c \in Conversations |-> 0]
    /\ active = {} /\ muted = {} /\ ignored = {}
    /\ sub = [s \in Subscriptions |-> "none"]
    /\ since = [s \in Subscriptions |-> 0]
    /\ delivery = [p \in Pairs |-> NoDelivery]
    /\ todo = {} /\ current = NoPush
    /\ pushed = [p \in Pairs |-> 0] /\ doubt = {} /\ deaths = 0

------------------------------------------------------------------------------
\* The inbox (store.activate, open, close; the library preferences).

\* A message activates its conversation; its row is suppressed if it is muted or
\* in the foreground of a browser.
Raise ==
    LET e == raised + 1
        c == ConversationOf[e]
    IN /\ raised < MaxEvents
       /\ c \notin ignored
       /\ raised' = e
       /\ active' = active \cup {c}
       /\ \/ c \notin muted /\ UNCHANGED suppressed
          \/ suppressed' = suppressed \cup {e}
       /\ UNCHANGED <<faded, seen, muted, ignored, table, todo, current, history>>

Rows(c) == {e \in 1..raised : ConversationOf[e] = c}

Read(c) ==
    /\ c \in active \ ignored
    /\ \E e \in Rows(c) : /\ e > seen[c] /\ \A f \in Rows(c) : f <= e
                          /\ seen' = [seen EXCEPT ![c] = e]
    /\ UNCHANGED <<raised, suppressed, faded, active, muted, ignored, table,
                   todo, current, history>>

Close(c) ==
    /\ active' = active \ {c}
    /\ UNCHANGED <<raised, suppressed, faded, seen, muted, ignored, table,
                   todo, current, history>>

Mute(c) ==
    /\ muted' = IF c \in muted THEN muted \ {c} ELSE muted \cup {c}
    /\ UNCHANGED <<raised, suppressed, faded, seen, active, ignored, table,
                   todo, current, history>>

Ignore(c) ==
    /\ ignored' = ignored \cup {c}
    /\ UNCHANGED <<raised, suppressed, faded, seen, active, muted, table,
                   todo, current, history>>

Fade ==
    /\ faded < raised
    /\ faded' = faded + 1
    /\ UNCHANGED <<raised, suppressed, seen, active, muted, ignored, table,
                   todo, current, history>>

------------------------------------------------------------------------------
\* The devices.

\* Faulty: a device that subscribes again starts anew, but for the push under way.
SubscribeAnew(s) ==
    /\ sub' = [sub EXCEPT ![s] = "on"]
    /\ since' = [since EXCEPT ![s] = IF sub[s] = "none" THEN raised ELSE @]
    /\ delivery' = [p \in Pairs |-> IF p[1] = s /\ p # current THEN NoDelivery
                                    ELSE delivery[p]]
    /\ UNCHANGED <<inbox, todo, current, history>>

\* A known endpoint keeps its row, the time of its creation and its deliveries.
Subscribe(s) ==
    /\ sub' = [sub EXCEPT ![s] = "on"]
    /\ since' = [since EXCEPT ![s] = IF sub[s] = "none" THEN raised ELSE @]
    /\ UNCHANGED <<inbox, delivery, todo, current, history>>

Unsubscribe(s) ==
    /\ sub[s] = "on"
    /\ sub' = [sub EXCEPT ![s] = "off"]
    /\ UNCHANGED <<inbox, since, delivery, todo, current, history>>

------------------------------------------------------------------------------
\* One pass of deliver_pending.

\* The newest rows of a day that may be shown, and of these the newest of each
\* conversation.
Recent ==
    LET shown == (faded + 1)..raised \ suppressed
    IN {e \in shown : Cardinality({f \in shown : f > e}) < Window}
Latest == {e \in Recent : \A f \in Rows(ConversationOf[e]) \cap Recent : f <= e}

\* What calls for a push, by the snapshot at the start of the pass.
Eligible(s, e) ==
    LET c == ConversationOf[e] IN
    /\ sub[s] = "on"
    /\ e \in Latest /\ e > since[s]
    /\ c \in active \ ignored
    /\ e > seen[c]
    /\ c \notin muted

StartPass ==
    /\ todo = {} /\ current = NoPush
    /\ todo' = {p \in Pairs : Eligible(p[1], p[2])}
    /\ UNCHANGED <<inbox, table, current, history>>

\* The delivery of a pair may be due, be waiting, or be over.
Due(p) == \/ delivery[p] = NoDelivery
          \/ ~delivery[p].done /\ delivery[p].wait = 0

Attempts(p) == IF delivery[p] = NoDelivery THEN 0 ELSE delivery[p].attempts

\* The body of the loop and _deliver up to the call: ignored chats, the delivery
\* and the subscription are looked up again, and the attempt is counted first.
Visit ==
    \E p \in todo :
        /\ current = NoPush
        /\ todo' = todo \ {p}
        /\ IF ConversationOf[p[2]] \notin ignored /\ Due(p) /\ sub[p[1]] = "on"
             THEN /\ delivery' = [delivery EXCEPT ![p] =
                                    [attempts |-> Attempts(p) + 1, wait |-> 0,
                                     done |-> FALSE]]
                  /\ current' = p
             ELSE UNCHANGED <<delivery, current>>
        /\ UNCHANGED <<inbox, sub, since, history>>

Push(p) == pushed' = [pushed EXCEPT ![p] = IF @ = 0 THEN 1 ELSE 2]

\* The outcome of p's attempt is recorded.
Record(p, wait, done) ==
    /\ delivery' = [delivery EXCEPT ![p] =
                      [attempts |-> Attempts(p), wait |-> wait, done |-> done]]
    /\ current' = NoPush

\* Faulty: success is not recorded as the end.
AcceptedUnrecorded ==
    /\ current # NoPush
    /\ Push(current)
    /\ Record(current, 0, FALSE)
    /\ UNCHANGED <<inbox, sub, since, todo, doubt, deaths>>

Accepted ==
    /\ current # NoPush
    /\ Push(current)
    /\ Record(current, 0, TRUE)
    /\ UNCHANGED <<inbox, sub, since, todo, doubt, deaths>>

\* 404 and 410: the endpoint is no more.
Gone ==
    /\ current # NoPush
    /\ Record(current, 0, TRUE)
    /\ sub' = [sub EXCEPT ![current[1]] = "off"]
    /\ UNCHANGED <<inbox, since, todo, history>>

\* Faulty: the attempt that fails is not counted.
PostponeUncounted(p) ==
    /\ delivery' = [delivery EXCEPT ![p] =
                      [attempts |-> Attempts(p) - 1, wait |-> 0, done |-> FALSE]]
    /\ current' = NoPush

\* The last attempt that fails ends the delivery, any other postpones it.  The
\* wait counts from the start of the pass and may be over by now.
Postpone(p) ==
    IF Attempts(p) >= MaxAttempts THEN Record(p, 0, TRUE)
    ELSE \E wait \in 0..Backoff[Attempts(p)] : Record(p, wait, FALSE)

Refused ==
    /\ current # NoPush
    /\ Postpone(current)
    /\ UNCHANGED <<inbox, sub, since, todo, history>>

\* No answer: the push may have been taken all the same.
TimedOut ==
    /\ current # NoPush
    /\ Push(current) \/ UNCHANGED pushed
    /\ doubt' = doubt \cup {current}
    /\ Postpone(current)
    /\ UNCHANGED <<inbox, sub, since, todo, deaths>>

\* The process dies; the push under way may still go out.
PushCrash ==
    /\ deaths < MaxDeaths
    /\ deaths' = deaths + 1
    /\ IF current = NoPush THEN UNCHANGED <<pushed, doubt>>
       ELSE /\ Push(current) \/ UNCHANGED pushed
            /\ doubt' = doubt \cup {current}
    /\ todo' = {} /\ current' = NoPush
    /\ UNCHANGED <<inbox, table>>

Waiting(p) == delivery[p] # NoDelivery /\ ~delivery[p].done /\ delivery[p].wait > 0

PushTick ==
    /\ \E p \in Pairs : Waiting(p)
    /\ delivery' = [p \in Pairs |->
                      IF Waiting(p)
                        THEN [attempts |-> delivery[p].attempts,
                              wait |-> delivery[p].wait - 1, done |-> delivery[p].done]
                        ELSE delivery[p]]
    /\ UNCHANGED <<inbox, sub, since, todo, current, history>>

------------------------------------------------------------------------------
Outcome == Accepted \/ Gone \/ Refused \/ TimedOut

PushNext ==
    \/ Raise \/ Fade
    \/ \E c \in Conversations : Read(c) \/ Close(c) \/ Mute(c) \/ Ignore(c)
    \/ \E s \in Subscriptions : Subscribe(s) \/ Unsubscribe(s)
    \/ StartPass \/ Visit \/ Outcome \/ PushCrash \/ PushTick

PushSpec == PushInit /\ [][PushNext]_pushVars

\* The loop of push_maintenance runs on, every push has a time-out, time passes.
PushFairness == WF_pushVars(StartPass) /\ WF_pushVars(Visit) /\ WF_pushVars(Outcome) /\ WF_pushVars(PushTick)

PushLiveSpec == PushSpec /\ PushFairness

------------------------------------------------------------------------------
\* Properties.

\* A device is tried three times for a notification, once more for each crash
\* that cut off an attempt, however often it leaves and comes back.
AttemptsAreBounded == \A p \in Pairs : Attempts(p) <= MaxAttempts + deaths

\* No device shows a notification twice, unless the outcome of an attempt could
\* not be known.
PushedOnce == \A p \in Pairs \ doubt : pushed[p] <= 1

\* The outbox of a notification and a device: the row of a delivery that is done
\* closes it.
Over(p) == delivery[p] # NoDelivery /\ delivery[p].done

Stage(p) ==
    IF current = p THEN "trying" ELSE IF Over(p) THEN "closed" ELSE "open"

Abstract == INSTANCE Outbox WITH
    Things <- Pairs,
    stage <- [p \in Pairs |-> Stage(p)],
    taken <- pushed,
    doubt <- doubt

\* The passes over stale snapshots are an outbox: a pair is pushed by nobody else
\* while it is under way, and never after success or the last failure.
ImplementsOutbox == Abstract!Spec

\* A notification that goes on calling for a push is delivered or given up.
EveryPushEnds ==
    \A p \in Pairs : <>[]Eligible(p[1], p[2]) =>
                       <>(delivery[p] # NoDelivery /\ delivery[p].done)

\* What makes the two invariants inductive: of the push under way no outcome is
\* recorded yet, and what was pushed is recorded or in doubt.
UnderWay == current # NoPush => /\ delivery[current] # NoDelivery
                                /\ ~delivery[current].done

CountsAreRight ==
    \A p \in Pairs :
        IF delivery[p] = NoDelivery THEN pushed[p] = 0
        ELSE /\ delivery[p].attempts <= MaxAttempts + deaths
             /\ ~delivery[p].done /\ p # current =>
                  delivery[p].attempts < MaxAttempts + deaths
             /\ pushed[p] > 0 => delivery[p].done \/ p \in doubt
             /\ p \notin doubt => pushed[p] <= 1

PushSafe == PushTypeOK /\ UnderWay /\ CountsAreRight
=============================================================================
