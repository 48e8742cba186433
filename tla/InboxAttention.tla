--------------------------- MODULE InboxAttention ---------------------------
(***************************************************************************)
(* The attention projections of one Telegram peer (inbox/store.py): the    *)
(* rows of inbox_conversations, one per thread, what the owner has seen of *)
(* them, and everything that shows or hides them.                          *)
(*                                                                         *)
(* All of it runs on one event loop, so a call of the store is one step;   *)
(* a handler that awaits Telegram between two calls is several, with any   *)
(* other handler in between.  action_lock is held by a send from its first *)
(* check to its last write; open, close and library changes take it too.   *)
(*                                                                         *)
(* Every start of the service, and every command that opens the database,  *)
(* rebases the rows first (db/session.py): what the rows of one identity   *)
(* say is folded into one row.  The first start of this version may find   *)
(* several of them for a private dialog, whose replies were threads once.  *)
(*                                                                         *)
(* Instants are relative and in ticks: left is expires_at - now and lease  *)
(* what remains of a browser's foreground lease, both 0 when in the past.  *)
(***************************************************************************)
EXTENDS Integers, FiniteSets, FiniteSetsExt

CONSTANTS
    LastId,      \* Telegram message ids are 1..LastId
    Threads,     \* the threads of the peer; 0 is the peer-wide one
    Home,        \* the thread each message belongs to
    Observers,   \* handlers that may observe events at the same time
    Lifetime,    \* ticks an opened conversation stays (ACTIVE_MINUTES)
    ViewLease,   \* ticks a foreground lease lasts (VIEW_LEASE_SECONDS)
    NoRow,       \* no row in inbox_conversations
    NoThread     \* no thread: nothing in flight, or a deleted row's

Ids == 1..LastId

ASSUME ConstantsAssumption ==
    /\ LastId \in Nat /\ Lifetime \in Nat \ {0} /\ ViewLease \in Nat \ {0}
    /\ 0 \in Threads /\ Threads \subseteq Nat
    /\ Home \in [Ids -> Threads]
    /\ NoThread \notin Threads /\ IsFiniteSet(Threads)

VARIABLES
    peer,      \* what the peer is: a forum, a private dialog, or a legacy one
               \* that has rows of its replies and is not upgraded yet
    row,       \* inbox_conversations by thread
    note,      \* inbox_notifications: the thread whose row an id was noted for,
               \* NoThread once that row is deleted; its domain is what is noted
    enabled,   \* library_sources.library_enabled of the peer
    access,    \* library_sources.manual_access_until - now
    ignored,   \* the peer is in ignored_chats.json
    lease,     \* view_leases, in the memory of the process
    observed,  \* what each handler read before it awaited: [id, selected]
    sending,   \* the thread a send holds action_lock for
    manual,    \* that send relies on manual access
    extended   \* history: threads whose row counts down over messages nobody
               \* opened, or counts one nobody noted

durable == <<peer, row, note, enabled, access>>
memory == <<lease, observed, sending, manual>>
vars == <<durable, ignored, memory, extended>>

Rows == [opened : BOOLEAN, left : 0..Lifetime, closed : BOOLEAN,
         quarantined : BOOLEAN, unread : Nat, latest : 0..LastId,
         seen : 0..LastId, library : BOOLEAN]

ASSUME NoRowAssumption == NoRow \notin Rows

Idle == [id |-> 0, selected |-> FALSE]

TypeOK ==
    /\ peer \in {"forum", "private", "legacy"}
    /\ row \in [Threads -> Rows \cup {NoRow}]
    /\ DOMAIN note \subseteq Ids
    /\ \A i \in DOMAIN note : note[i] \in Threads \cup {NoThread}
    /\ enabled \in BOOLEAN /\ ignored \in BOOLEAN /\ manual \in BOOLEAN
    /\ access \in 0..Lifetime
    /\ lease \in [Threads -> 0..ViewLease]
    /\ observed \in [Observers -> [id : 0..LastId, selected : BOOLEAN]]
    /\ sending \in Threads \cup {NoThread}
    /\ extended \subseteq Threads

NewRow == [opened |-> FALSE, left |-> 0, closed |-> FALSE, quarantined |-> FALSE,
           unread |-> 0, latest |-> 0, seen |-> 0, library |-> FALSE]

\* The rows the version before may have left for a thread with these messages.
LegacyRows(ids) ==
    IF ids = {} THEN {NoRow}
    ELSE {r \in [opened : BOOLEAN, left : 0..Lifetime, closed : BOOLEAN,
                 quarantined : BOOLEAN, unread : 0..LastId, latest : {Max(ids)},
                 seen : 0..Max(ids), library : {FALSE}] :
            /\ r.unread = Cardinality({i \in ids : i > r.seen})
            /\ IF r.opened THEN r.unread = 0 ELSE r.left = 0
            /\ r.quarantined => r.closed}

\* The tables of a peer nothing is known of, or of a private dialog with a row
\* for each thread of replies.
Nothing ==
    /\ peer = "forum"
    /\ row = [t \in Threads |-> NoRow]
    /\ note = [i \in {} |-> NoThread]

Legacy ==
    LET Of(t) == LegacyRows({i \in DOMAIN note : note[i] = t})
    IN /\ peer = "legacy"
       /\ note \in UNION {[ids -> Threads] : ids \in SUBSET Ids}
       /\ row \in [Threads -> UNION {Of(t) : t \in Threads}]
       /\ \A t \in Threads : row[t] \in Of(t)

Init ==
    /\ Nothing \/ Legacy
    /\ enabled = FALSE /\ access = 0
    /\ ignored = FALSE
    /\ lease = [t \in Threads |-> 0]
    /\ observed = [o \in Observers |-> Idle]
    /\ sending = NoThread /\ manual = FALSE
    /\ extended = {}

Larger(a, b) == IF a > b THEN a ELSE b

Exists(t) == row[t] # NoRow

\* store.active: pending, or opened and not expired.
Active(t) ==
    /\ Exists(t)
    /\ ~row[t].opened \/ row[t].left > 0
    /\ ~row[t].closed
    /\ ~row[t].quarantined
    /\ ~ignored

------------------------------------------------------------------------------
\* observe: the handler reads the library source of the peer, then awaits the
\* chat and its identity.  Telegram may deliver an update again, and several
\* handlers may be between their read and their write.
Observe(o, i) ==
    /\ observed[o] = Idle
    /\ ~ignored
    /\ observed' = [observed EXCEPT ![o] = [id |-> i, selected |-> enabled]]
    /\ UNCHANGED <<durable, ignored, lease, sending, manual, extended>>

\* Replies are no threads of their own in a private dialog.
ThreadOf(i) == IF peer = "private" THEN 0 ELSE Home[i]

\* The fields activate writes for every event, new or not.
Touched(r, i, selected) ==
    [r EXCEPT !.library = selected, !.quarantined = FALSE, !.latest = Larger(@, i)]

\* Faulty: a lease is enough to count a message as seen.
CountedForeground(r, i, foreground) ==
    IF foreground
      THEN [r EXCEPT !.unread = 0, !.seen = Larger(@, i), !.left = Lifetime]
      ELSE [r EXCEPT !.unread = @ + 1, !.opened = FALSE, !.left = 0,
                     !.closed = FALSE]

\* Faulty: a new message leaves the countdown of an open row running.
CountedInWindow(r, i, foreground) ==
    IF foreground /\ r.opened /\ ~r.closed /\ r.left > 0
      THEN [r EXCEPT !.unread = 0, !.seen = Larger(@, i), !.left = Lifetime]
      ELSE [r EXCEPT !.unread = @ + 1, !.closed = FALSE]

\* A message the owner is not looking at makes the row pending without a
\* countdown; one that arrives in the foreground is seen at once and restarts
\* the countdown.
Counted(r, i, foreground) ==
    IF foreground /\ r.opened /\ ~r.closed /\ r.left > 0
      THEN [r EXCEPT !.unread = 0, !.seen = Larger(@, i), !.left = Lifetime]
      ELSE [r EXCEPT !.unread = @ + 1, !.opened = FALSE, !.left = 0,
                     !.closed = FALSE]

\* Faulty: a replay brings back a row that was deleted.
ActivateRevives(o) ==
    LET i == observed[o].id
        selected == observed[o].selected
        t == IF selected THEN 0 ELSE ThreadOf(i)
        new == i \notin DOMAIN note
        old == IF Exists(t) THEN row[t] ELSE NewRow
        touched == Touched(old, i, selected)
    IN /\ observed[o] # Idle
       /\ observed' = [observed EXCEPT ![o] = Idle]
       /\ IF ignored THEN UNCHANGED <<row, note>>
          ELSE /\ note' = [j \in DOMAIN note \cup {i} |->
                             IF j = i /\ new THEN t ELSE note[j]]
               /\ row' = [row EXCEPT ![t] =
                            IF new /\ i > old.seen
                              THEN Counted(touched, i, lease[t] > 0)
                              ELSE touched]
       /\ UNCHANGED <<peer, enabled, access, ignored, lease, sending, manual,
                      extended>>

\* activate: the tombstone decides whether the event is new, and a replay of a
\* message whose row is gone does not bring the row back.  A source that was
\* selected has one peer-wide projection.
Activate(o) ==
    LET i == observed[o].id
        selected == observed[o].selected
        t == IF selected THEN 0 ELSE ThreadOf(i)
        new == i \notin DOMAIN note
        old == IF Exists(t) THEN row[t] ELSE NewRow
        touched == Touched(old, i, selected)
    IN /\ observed[o] # Idle
       /\ observed' = [observed EXCEPT ![o] = Idle]
       /\ IF ignored \/ (~Exists(t) /\ ~new) THEN UNCHANGED <<row, note>>
          ELSE /\ note' = [j \in DOMAIN note \cup {i} |->
                             IF j = i /\ new THEN t ELSE note[j]]
               /\ row' = [row EXCEPT ![t] =
                            IF new /\ i > old.seen
                              THEN Counted(touched, i, lease[t] > 0)
                              ELSE touched]
       /\ UNCHANGED <<peer, enabled, access, ignored, lease, sending, manual,
                      extended>>

------------------------------------------------------------------------------
\* The owner.

\* What store.open does to an active row.
Opened(r) ==
    [r EXCEPT !.left = IF r.opened THEN @ ELSE Lifetime,
              !.opened = TRUE, !.seen = r.latest, !.unread = 0]

\* POST /open.
Open(t) ==
    /\ sending = NoThread
    /\ Active(t)
    /\ row' = [row EXCEPT ![t] = Opened(@)]
    /\ extended' = extended \ {t}
    /\ UNCHANGED <<peer, note, enabled, access, ignored, memory>>

\* open_library: opens the active projections of the source, then
\* mark_library_seen clears every one of them that is not quarantined.
OpenLibrary ==
    LET marked == {t \in Threads : Exists(t) /\ row[t].library
                                             /\ ~row[t].quarantined}
    IN /\ sending = NoThread
       /\ enabled
       /\ row' = [t \in Threads |->
                    IF t \notin marked THEN row[t]
                    ELSE IF Active(t) THEN Opened(row[t])
                    ELSE [row[t] EXCEPT !.seen = Larger(@, row[t].latest),
                                        !.unread = 0]]
       /\ extended' = extended \ marked
       /\ UNCHANGED <<peer, note, enabled, access, ignored, memory>>

\* close: hides the row and ends the manual access to the peer.
Close(t) ==
    /\ sending = NoThread
    /\ Active(t)
    /\ row' = [row EXCEPT ![t].closed = TRUE]
    /\ lease' = [lease EXCEPT ![t] = 0]
    /\ access' = IF t = 0 THEN 0 ELSE access
    /\ UNCHANGED <<peer, note, enabled, ignored, observed, sending, manual,
                   extended>>

\* The browser's lease on the conversation it shows.
RefreshLease(t) ==
    /\ Active(t)
    /\ lease' = [lease EXCEPT ![t] = ViewLease]
    /\ UNCHANGED <<durable, ignored, observed, sending, manual, extended>>

ReleaseLease(t) ==
    /\ lease' = [lease EXCEPT ![t] = 0]
    /\ UNCHANGED <<durable, ignored, observed, sending, manual, extended>>

\* consume_manual_open, at the end of open_manual_write: the peer-wide row is
\* made, or made visible again, and opened.  A new row starts at the newest
\* message of the chat.  (The quota of the day leaves rows alone: whether it
\* allows one more is left open.)
ManualOpen(newest) ==
    /\ sending = NoThread
    /\ access' = Lifetime
    /\ row' = [row EXCEPT ![0] =
                 IF @ = NoRow
                   THEN [NewRow EXCEPT !.opened = TRUE, !.left = Lifetime,
                                       !.latest = newest, !.seen = newest]
                   ELSE [row[0] EXCEPT !.opened = TRUE, !.left = Lifetime,
                                       !.closed = FALSE, !.quarantined = FALSE,
                                       !.seen = Larger(row[0].seen, row[0].latest),
                                       !.unread = 0]]
    /\ extended' = extended \ {0}
    /\ UNCHANGED <<peer, note, enabled, ignored, memory>>

------------------------------------------------------------------------------
\* A send from a conversation (service.send), as far as it touches the rows.

\* The checks under action_lock.  Manual access is enough, from the row or from
\* the library page; without it the row must be active and not of a selected
\* source.
SendStart(t) ==
    LET byAccess == access > 0 /\ t = 0 IN
    /\ sending = NoThread
    /\ byAccess \/ (Active(t) /\ ~row[t].library /\ ~enabled)
    /\ sending' = t
    /\ manual' = byAccess
    /\ UNCHANGED <<durable, ignored, lease, observed, extended>>

\* store.extend starts the countdown of a row that was never opened;
\* extend_manual_write leaves such a row pending.
SendDone ==
    LET t == sending
        open == Exists(t) /\ ~row[t].closed /\ ~row[t].quarantined
    IN /\ sending # NoThread
       /\ IF manual
            THEN /\ access' = Lifetime
                 /\ row' = IF open THEN [row EXCEPT ![0].left = Lifetime] ELSE row
                 /\ UNCHANGED extended
            ELSE /\ row' = IF open /\ ~ignored
                             THEN [row EXCEPT ![t].opened = TRUE,
                                              ![t].left = Lifetime]
                             ELSE row
                 /\ extended' = IF open /\ ~ignored /\ ~row[t].opened
                                  THEN extended \cup {t} ELSE extended
                 /\ UNCHANGED access
       /\ sending' = NoThread
       /\ manual' = FALSE
       /\ UNCHANGED <<peer, note, enabled, ignored, lease, observed>>

\* quarantine, when Telegram says twice that the peer is gone.
Quarantine(t) ==
    row' = IF Exists(t)
             THEN [row EXCEPT ![t].quarantined = TRUE, ![t].closed = TRUE]
             ELSE row

SendFails ==
    /\ sending # NoThread
    /\ Quarantine(sending) \/ UNCHANGED row
    /\ sending' = NoThread
    /\ manual' = FALSE
    /\ UNCHANGED <<peer, note, enabled, access, ignored, lease, observed,
                   extended>>

\* history, search, pins and media check the row, then await Telegram without
\* action_lock: however long ago the row was active, the peer may turn out to be
\* gone now.
ReadFails(t) ==
    /\ Exists(t)
    /\ Quarantine(t)
    /\ UNCHANGED <<peer, note, enabled, access, ignored, memory, extended>>

------------------------------------------------------------------------------
\* The library (update_library_source, upsert_library_source).

\* Any change of an enabled source associates its rows again: the peer-wide row
\* stays, the rows of its topics are closed.
Associated(rows) ==
    [t \in Threads |->
       IF rows[t] = NoRow THEN NoRow
       ELSE [rows[t] EXCEPT !.library = TRUE, !.closed = @ \/ t # 0]]

Select ==
    /\ sending = NoThread
    /\ enabled' = TRUE
    /\ row' = Associated(row)
    /\ UNCHANGED <<peer, note, access, ignored, memory, extended>>

CloseLibraryRows ==
    row' = [t \in Threads |->
              IF Exists(t) /\ row[t].library THEN [row[t] EXCEPT !.closed = TRUE]
              ELSE row[t]]

\* By the owner, or without action_lock by a digest that finds the source gone.
Deselect ==
    /\ sending = NoThread
    /\ enabled' = FALSE
    /\ CloseLibraryRows
    /\ UNCHANGED <<peer, note, access, ignored, memory, extended>>

DropDeadSource ==
    /\ enabled
    /\ enabled' = FALSE
    /\ CloseLibraryRows
    /\ UNCHANGED <<peer, note, access, ignored, memory, extended>>

------------------------------------------------------------------------------
\* A start (init_db, then the constructor of the service).

Pending(r) == ~r.opened /\ ~r.closed
Running(r) == r.opened /\ ~r.closed

\* _merge_inbox_duplicates: what the rows of a group, with the messages noted for
\* them, come to as long as one is visible.
Waiting(rows, ids) ==
    LET latest == Max({r.latest : r \in rows})
        seen == Min({latest, Max({r.seen : r \in rows})})
        unseen == {i \in ids : i > seen}
    IN [opened |-> FALSE, left |-> 0, closed |-> FALSE,
        quarantined |-> \A r \in rows : r.quarantined,
        unread |-> IF latest <= seen THEN 0
                   ELSE IF unseen # {} THEN Cardinality(unseen)
                   ELSE Max({1} \cup {r.unread : r \in rows}),
        latest |-> latest, seen |-> seen,
        library |-> \E r \in rows : r.library]

CountingDown(rows, ids) ==
    [Waiting(rows, ids) EXCEPT !.opened = TRUE,
                               !.left = Max({r.left : r \in {q \in rows : Running(q)}})]

\* Rows that were all closed stay so, and all their messages become seen.
AllClosed(rows, ids) ==
    [Waiting(rows, ids) EXCEPT !.opened = \E r \in rows : r.opened,
                               !.left = Max({r.left : r \in rows}),
                               !.closed = TRUE, !.unread = 0,
                               !.seen = Max({r.latest : r \in rows})]

\* Faulty: a row that counts down wins over one nobody opened.
MergedRunningFirst(rows, ids) ==
    IF \E r \in rows : Running(r) THEN CountingDown(rows, ids)
    ELSE IF \E r \in rows : Pending(r) THEN Waiting(rows, ids)
    ELSE AllClosed(rows, ids)

\* A row nobody opened wins over one that counts down, that one over closed ones.
Merged(rows, ids) ==
    IF \E r \in rows : Pending(r) THEN Waiting(rows, ids)
    ELSE IF \E r \in rows : Running(r) THEN CountingDown(rows, ids)
    ELSE AllClosed(rows, ids)

\* The threads whose rows become the row of t.
Group(t) ==
    IF peer # "legacy" THEN {t} ELSE IF t = 0 THEN Threads ELSE {}

Rebased(t) ==
    LET rows == {row[m] : m \in Group(t)} \ {NoRow}
    IN IF rows = {} THEN NoRow
       ELSE Merged(rows, {i \in DOMAIN note : note[i] \in Group(t)})

\* init_db, in one transaction, leaves these rows.
Rebase(rows) ==
    /\ UNCHANGED <<enabled, access, ignored>>
    /\ peer' = IF peer = "legacy" THEN "private" ELSE peer
    /\ note' = [i \in DOMAIN note |-> IF peer = "legacy" THEN 0 ELSE note[i]]
    /\ extended' = {t \in Threads : rows[t] # NoRow /\ rows[t].unread > 0
                        /\ \/ rows[t].opened
                           \/ \A i \in DOMAIN note :
                                note[i] \in Group(t) => i <= rows[t].seen}

\* The service starts again: leases and whatever was in flight are forgotten, and
\* a source the library file lists is associated again if it is enabled.
Restart(listed) ==
    /\ lease' = [t \in Threads |-> 0]
    /\ observed' = [o \in Observers |-> Idle]
    /\ sending' = NoThread /\ manual' = FALSE
    /\ LET rows == [t \in Threads |-> Rebased(t)]
       IN /\ Rebase(rows)
          /\ row' = IF listed /\ enabled THEN Associated(rows) ELSE rows

\* A command opens the database beside the service (digest_now, check_birthdays,
\* cleanup, cancel_unsafe_digests, cancel_legacy_alerts).
Command ==
    /\ UNCHANGED memory
    /\ LET rows == [t \in Threads |-> Rebased(t)]
       IN Rebase(rows) /\ row' = rows

------------------------------------------------------------------------------
\* The environment.

EditIgnored ==
    /\ ignored' = ~ignored
    /\ UNCHANGED <<durable, memory, extended>>

\* store.cleanup deletes the rows of an ignored peer; its tombstones stay.
Cleanup ==
    /\ ignored
    /\ row' = [t \in Threads |-> NoRow]
    /\ note' = [i \in DOMAIN note |-> NoThread]
    /\ extended' = {}
    /\ UNCHANGED <<peer, enabled, access, ignored, memory>>

Tick ==
    /\ row' = [t \in Threads |->
                 IF Exists(t) THEN [row[t] EXCEPT !.left = Larger(@ - 1, 0)]
                 ELSE NoRow]
    /\ lease' = [t \in Threads |-> Larger(lease[t] - 1, 0)]
    /\ access' = Larger(access - 1, 0)
    /\ UNCHANGED <<peer, note, enabled, ignored, observed, sending, manual,
                   extended>>

------------------------------------------------------------------------------
Serve ==
    \/ \E o \in Observers : (\E i \in Ids : Observe(o, i)) \/ Activate(o)
    \/ \E t \in Threads :
         \/ Open(t) \/ Close(t) \/ RefreshLease(t) \/ ReleaseLease(t)
         \/ SendStart(t) \/ ReadFails(t)
    \/ OpenLibrary \/ (\E i \in 0..LastId : ManualOpen(i))
    \/ SendDone \/ SendFails
    \/ Select \/ Deselect \/ DropDeadSource
    \/ Cleanup

Next ==
    \/ peer # "legacy" /\ (Serve \/ EditIgnored \/ Tick)
    \/ Command
    \/ \E listed \in BOOLEAN : Restart(listed)

Spec == Init /\ [][Next]_vars

------------------------------------------------------------------------------
\* Properties.

\* The badge and the sidebar tell the truth: the unread counter of a row is the
\* number of its noted messages after the last one seen, however events and
\* replays are ordered and whatever hid, showed or merged the row meanwhile.
\* (The exceptions are a row that a send extended before it was opened and one
\* that a start gave an unread message which was never noted for it.)
UnreadIsExact ==
    \A t \in Threads : Exists(t) /\ t \notin extended =>
        row[t].unread = Cardinality({i \in DOMAIN note :
                                       note[i] = t /\ i > row[t].seen})

\* A row with unread messages has no countdown, so that it cannot expire before
\* the owner opened it, except for the same reasons and after the merge of a row
\* that counts down with a closed one that has unread messages.
UnreadDoesNotExpire ==
    \A t \in Threads : Exists(t) /\ row[t].unread > 0 /\ t \notin extended =>
        ~row[t].opened

\* An update delivered again shows, counts, extends and hides nothing.
ReplayChangesNothing ==
    [][\A o \in Observers :
         Activate(o) /\ observed[o].id \in DOMAIN note =>
           \A t \in Threads :
             /\ Exists(t) <=> Exists(t)'
             /\ Exists(t) =>
                  /\ row'[t].unread = row[t].unread
                  /\ row'[t].seen = row[t].seen
                  /\ row'[t].opened = row[t].opened
                  /\ row'[t].left = row[t].left
                  /\ row'[t].closed = row[t].closed]_vars

\* Whenever the service starts or a command opens the database beside it, the
\* merge shows what was visible and nothing else: the row it leaves is hidden
\* exactly if all of its rows are; it has a countdown only if none of the visible
\* ones was waiting to be opened; and a row that is alone keeps its counter as
\* long as it is visible.
Visible(r) == ~r.closed /\ ~r.quarantined /\ (r.opened => r.left > 0)

StartKeepsAttention ==
    \A t \in Threads :
        LET rows == {row[m] : m \in Group(t)} \ {NoRow}
            visible == {r \in rows : Visible(r)}
        IN rows # {} =>
             LET left == Rebased(t)
             IN /\ Visible(left) <=> visible # {}
                /\ visible # {} => (left.opened <=> \A r \in visible : r.opened)
                /\ rows = visible /\ Cardinality(rows) = 1 /\ t \notin extended =>
                     \A r \in rows : left.unread >= r.unread
=============================================================================
