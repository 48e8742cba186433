---------------------------- MODULE MacNotifier ----------------------------
(***************************************************************************)
(* The notifier on the owner's Mac (tools/macos/notifier) and the feed it  *)
(* polls (store.notifications): a cursor into the notification rows, kept  *)
(* in a file, and one banner for each conversation.                        *)
(*                                                                         *)
(* The answer to a poll travels while rows are raised, conversations are   *)
(* opened, and the switch in the browser turns the notifier on and off or  *)
(* snoozes it; a save of the file may fail, and the notifier may die at    *)
(* any point.  Its own handlers run on the main queue, one after the       *)
(* other.                                                                  *)
(***************************************************************************)
EXTENDS Integers

CONSTANTS
    Conversations,
    MaxEvents,      \* rows raised in a behaviour
    ConversationOf, \* the conversation of each
    PageSize,       \* rows scanned for one poll (100)
    Fresh,          \* ticks after which a row is consumed in silence (15 minutes)
    Snoozes,        \* lengths of a snooze
    Skew,           \* ticks the server's clock is ahead of the Mac's
    Tolerance,      \* ticks ahead at which a row is consumed in silence (one minute)
    MaxTime, MaxToggles,
    None

Events == 1..MaxEvents
Times == 0..MaxTime

ASSUME NotifierAssumption ==
    /\ MaxEvents \in Nat /\ MaxTime \in Nat /\ MaxToggles \in Nat
    /\ PageSize \in Nat \ {0} /\ Fresh \in Nat
    /\ Snoozes \subseteq Nat \ {0}
    /\ Skew \in Nat /\ Tolerance \in Nat
    /\ ConversationOf \in [Events -> Conversations]
    /\ None \notin Int

VARIABLES
    now,        \* the Mac's clock
    raised,     \* the rows of inbox_notifications are 1..raised
    created,    \* created_at of each, by the server's clock
    suppressed, \* rows raised muted or in the foreground
    seen,       \* the newest row seen of each conversation
    closed,     \* conversations that are closed or expired
    state,      \* NotifierState in memory
    disk,       \* NotifierState in its file
    flight,     \* the poll under way: [after, valid, page]
    queue,      \* the rows of the last page that are being submitted
    banner,     \* the row shown of each conversation
    shown,      \* history: how often each row became a banner, two for more
    silent,     \* history: rows raised while the notifier was off or snoozed
    toggles     \* how often the switch was used, with and without success

feed == <<raised, created, suppressed, seen, closed>>
app == <<state, disk, flight, queue>>
past == <<shown, silent, toggles>>
notifierVars == <<now, feed, app, banner, past>>

Cursors == 0..MaxEvents \cup {None}
States == [enabled : BOOLEAN, cursor : Cursors, bootstrap : BOOLEAN, mute : Nat \cup {None}]
Pages == [rows : SUBSET Events, cursor : 0..MaxEvents]
Flights == [after : Cursors, valid : BOOLEAN, page : Pages \cup {None}]

NotifierTypeOK ==
    /\ now \in Times
    /\ raised \in 0..MaxEvents
    /\ created \in [Events -> 0..MaxTime + Skew]
    /\ suppressed \subseteq Events
    /\ seen \in [Conversations -> 0..MaxEvents]
    /\ closed \subseteq Conversations
    /\ state \in States /\ disk \in States
    /\ flight \in Flights \cup {None}
    /\ queue \subseteq Events
    /\ banner \in [Conversations -> Events \cup {None}]
    /\ shown \in [Events -> 0..2]
    /\ silent \subseteq Events
    /\ toggles \in 0..MaxToggles

\* The first launch: notifications are on, and begin with what comes.
Fresh0 == [enabled |-> TRUE, cursor |-> None, bootstrap |-> TRUE, mute |-> None]

NoBanner == [c \in Conversations |-> None]

NotifierInit ==
    /\ now = 0
    /\ raised = 0 /\ created = [e \in Events |-> 0] /\ suppressed = {}
    /\ seen = [c \in Conversations |-> 0] /\ closed = {}
    /\ state = Fresh0 /\ disk = Fresh0
    /\ flight = None /\ queue = {}
    /\ banner = NoBanner
    /\ shown = [e \in Events |-> 0] /\ silent = {}
    /\ toggles = 0

Effective(s) == s.enabled /\ (s.mute = None \/ s.mute <= now)

\* The notifier is off or snoozed, and would not speak after a restart: a switch that
\* could not be saved may have left a file that says otherwise (SetFails).
Silenced == ~Effective(state) /\ (Effective(disk) => disk.bootstrap)

------------------------------------------------------------------------------
\* The server and the browser.

\* A message of a conversation: the row is muted with its source, or suppressed
\* and seen at once when the conversation is in the foreground.
Raise ==
    LET e == raised + 1 IN
    /\ raised < MaxEvents
    /\ raised' = e
    /\ created' = [created EXCEPT ![e] = now + Skew]
    /\ \/ UNCHANGED <<suppressed, seen>>
       \/ suppressed' = suppressed \cup {e} /\ UNCHANGED seen
       \/ /\ suppressed' = suppressed \cup {e}
          /\ ConversationOf[e] \notin closed
          /\ seen' = [seen EXCEPT ![ConversationOf[e]] = e]
    /\ closed' = closed \ {ConversationOf[e]}
    /\ silent' = IF Silenced THEN silent \cup {e} ELSE silent
    /\ UNCHANGED <<now, app, banner, shown, toggles>>

Rows(c) == {e \in 1..raised : ConversationOf[e] = c}

\* POST /open, and then the browser tells the notifier, if it can.
Open(c) ==
    /\ c \notin closed
    /\ \E e \in Rows(c) : /\ \A f \in Rows(c) : f <= e
                          /\ seen' = [seen EXCEPT ![c] = e]
    /\ UNCHANGED <<now, raised, created, suppressed, closed, app, banner, past>>

Close(c) ==
    /\ closed' = closed \cup {c}
    /\ UNCHANGED <<now, raised, created, suppressed, seen, app, banner, past>>

\* Rows the feed does not show: their conversation is gone, was read, or they
\* were raised in silence.
Visible(e) ==
    /\ ConversationOf[e] \notin closed
    /\ e \notin suppressed
    /\ e > seen[ConversationOf[e]]

Lesser(a, b) == IF a < b THEN a ELSE b

\* Faulty: the cursor is the last row shown, not the last scanned.
FeedOfVisible(after) ==
    LET rows == {e \in (after + 1)..Lesser(after + PageSize, raised) : Visible(e)}
    IN IF after = None \/ after > raised THEN [rows |-> {}, cursor |-> raised]
       ELSE [rows |-> rows,
             cursor |-> IF rows = {} THEN after
                        ELSE CHOOSE e \in rows : \A f \in rows : f <= e]

\* GET /api/notifications: without a cursor, or with one that is ahead, only the
\* newest position; else the rows of one page and the last of them scanned.
Feed(after) ==
    IF after = None \/ after > raised THEN [rows |-> {}, cursor |-> raised]
    ELSE LET last == Lesser(after + PageSize, raised)
         IN [rows |-> {e \in (after + 1)..last : Visible(e)}, cursor |-> last]

------------------------------------------------------------------------------
\* Polling.

PollFeed ==
    /\ flight = None /\ queue = {}
    /\ flight' = [after |-> IF state.bootstrap THEN None ELSE state.cursor,
                  valid |-> TRUE, page |-> None]
    /\ UNCHANGED <<now, feed, state, disk, queue, banner, past>>

Answer ==
    /\ flight # None /\ flight.page = None
    /\ flight' = [after |-> flight.after, valid |-> flight.valid,
                  page |-> Feed(flight.after)]
    /\ UNCHANGED <<now, feed, state, disk, queue, banner, past>>

\* No answer: the notifier polls again, later each time.
Lose ==
    /\ flight # None
    /\ flight' = None
    /\ UNCHANGED <<now, feed, state, disk, queue, banner, past>>

\* An answer that arrives after the switch was used is thrown away.
Discard ==
    /\ flight # None /\ ~flight.valid
    /\ flight' = None
    /\ UNCHANGED <<now, feed, state, disk, queue, banner, past>>

\* Faulty: once a snooze is over, what was raised in it is news.
NewsOfMuted(page) ==
    {e \in page.rows :
        /\ e > state.cursor /\ e <= page.cursor
        /\ created[e] >= now - Fresh /\ created[e] <= now + Tolerance}

\* The rows of a page that become banners, before one is chosen for each
\* conversation.
News(page) ==
    {e \in page.rows :
        /\ e > state.cursor /\ e <= page.cursor
        /\ created[e] >= now - Fresh /\ created[e] <= now + Tolerance
        /\ state.mute = None \/ created[e] > state.mute}

\* NotifierState.consume.
Consumed(page) ==
    IF /\ Effective(state)
       /\ ~state.bootstrap
       /\ state.cursor # None
       /\ page.cursor >= state.cursor
      THEN {e \in News(page) : \A f \in News(page) :
              ConversationOf[f] = ConversationOf[e] => f <= e}
      ELSE {}

Advanced(s, cursor) ==
    [enabled |-> s.enabled, cursor |-> cursor, bootstrap |-> FALSE, mute |-> s.mute]

Arrived == flight # None /\ flight.valid /\ flight.page # None

\* The page is consumed and the file replaced before any banner is submitted.
Consume ==
    /\ Arrived
    /\ queue' = Consumed(flight.page)
    /\ state' = Advanced(state, flight.page.cursor)
    /\ disk' = state'
    /\ flight' = None
    /\ UNCHANGED <<now, feed, banner, past>>

\* Faulty: the banners are submitted although the state was not saved.
ConsumeFailsAloud ==
    /\ Arrived
    /\ disk' \in {disk, Advanced(state, flight.page.cursor)}
    /\ flight' = None
    /\ queue' = Consumed(flight.page)
    /\ UNCHANGED <<now, feed, state, banner, past>>

\* When the save throws, before or after the file was replaced, the state is taken
\* back and no banner is submitted.
ConsumeFails ==
    /\ Arrived
    /\ disk' \in {disk, Advanced(state, flight.page.cursor)}
    /\ flight' = None
    /\ UNCHANGED <<now, feed, state, queue, banner, past>>

\* notify replaces the banner of the conversation; the notification centre takes
\* the requests of a page one by one.
Submit(e) ==
    /\ e \in queue
    /\ queue' = queue \ {e}
    /\ banner' = [banner EXCEPT ![ConversationOf[e]] = e]
    /\ shown' = [shown EXCEPT ![e] = IF @ = 0 THEN 1 ELSE 2]
    /\ UNCHANGED <<now, feed, state, disk, flight, silent, toggles>>

------------------------------------------------------------------------------
\* The bridge.

\* On after off begins with what comes; on during a snooze ends it, and keeps its
\* end as a cut-off.
On == [enabled |-> TRUE, cursor |-> state.cursor,
       bootstrap |-> state.bootstrap \/ ~state.enabled,
       mute |-> IF ~state.enabled THEN None
                ELSE IF state.mute # None /\ state.mute > now THEN now
                ELSE state.mute]

Off == [enabled |-> FALSE, cursor |-> state.cursor, bootstrap |-> state.bootstrap,
        mute |-> None]

Snoozed(d) == [enabled |-> TRUE, cursor |-> state.cursor, bootstrap |-> state.bootstrap,
               mute |-> now + d]

\* The new state is saved; a poll under way was made for the old one.
Set(s) ==
    /\ toggles < MaxToggles
    /\ toggles' = toggles + 1
    /\ queue = {}
    /\ disk' = s
    /\ state' = s
    /\ flight' = IF flight = None \/ s = state THEN flight
                 ELSE [after |-> flight.after, valid |-> FALSE, page |-> flight.page]
    /\ UNCHANGED <<now, feed, queue, shown, silent>>

\* The save throws, before or after the file was replaced: the state is taken back, the
\* poll under way stays good, and so do the banners.
SetFails(s) ==
    /\ toggles < MaxToggles
    /\ toggles' = toggles + 1
    /\ queue = {}
    /\ disk' \in {disk, s}
    /\ UNCHANGED <<now, feed, state, flight, queue, banner, shown, silent>>

Enable ==
    \/ Set(On) /\ UNCHANGED banner
    \/ SetFails(On)

\* Off removes every banner.
Disable ==
    \/ Set(Off) /\ banner' = NoBanner
    \/ SetFails(Off)

Snooze ==
    /\ state.enabled
    /\ \E d \in Snoozes : \/ Set(Snoozed(d)) /\ UNCHANGED banner
                          \/ SetFails(Snoozed(d))

\* The browser opened the conversation and tells the notifier, which removes its banner
\* and saves the state as it is, or fails to.
Told(c) ==
    /\ queue = {}
    /\ seen[c] > 0
    /\ disk' \in {disk, state}
    /\ \/ banner' = [banner EXCEPT ![c] = None]
       \/ ~state.enabled /\ disk' = state /\ banner' = NoBanner
    /\ UNCHANGED <<now, feed, state, flight, queue, shown, silent, toggles>>

\* The notifier dies and launchd starts it again from its file.
Restart ==
    /\ state' = disk
    /\ flight' = None /\ queue' = {}
    /\ UNCHANGED <<now, feed, disk, banner, past>>

ClockTick ==
    /\ now < MaxTime
    /\ now' = now + 1
    /\ UNCHANGED <<feed, app, banner, past>>

------------------------------------------------------------------------------
NotifierNext ==
    \/ Raise \/ \E c \in Conversations : Open(c) \/ Close(c) \/ Told(c)
    \/ PollFeed \/ Answer \/ Lose \/ Discard \/ Consume \/ ConsumeFails
    \/ \E e \in Events : Submit(e)
    \/ Enable \/ Disable \/ Snooze \/ Restart \/ ClockTick

NotifierSpec == NotifierInit /\ [][NotifierNext]_notifierVars

\* The poll timer runs on; the server answers and the file is written now and
\* then.
Fairness ==
    /\ WF_notifierVars(PollFeed) /\ WF_notifierVars(Discard)
    /\ SF_notifierVars(Answer) /\ SF_notifierVars(Consume)
    /\ \A e \in Events : WF_notifierVars(Submit(e))

LiveSpec == NotifierSpec /\ Fairness

------------------------------------------------------------------------------
\* Properties.

\* At-most-once submission: no row becomes a banner twice, whatever is lost,
\* restarted or switched.
AtMostOnce == \A e \in Events : shown[e] <= 1

\* What was raised while the notifier was off or snoozed is never shown, not when
\* it is switched on, wakes, restarts or receives a page that was on its way, whether or
\* not the switch could be saved.  The exception is in Silenced: a row raised after an
\* attempt to switch on, or to snooze for less, that was answered with 503 although the
\* file had been replaced; a restart follows the file.
NoMutedBacklog == \A e \in silent : shown[e] = 0

\* The notifier catches up: every row is consumed, shown or not.
EveryRowIsConsumed ==
    \A e \in Events : raised >= e ~> (state.cursor # None /\ state.cursor >= e)
=============================================================================
