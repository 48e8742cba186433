---------------------------- MODULE DigestHistory ----------------------------
(***************************************************************************)
(* What the morning digest reads of Telegram (service.digest_rows): a task *)
(* pages back through each dialog from the end of the window to its start, *)
(* and one looks after each library source that no dialog showed.  The     *)
(* tasks of a pass run together.  The first that is refused fails the pass *)
(* and leaves the others running; a peer that is gone is dropped, and its  *)
(* library source is switched off.                                         *)
(*                                                                         *)
(* A peer has a message for each tick since 0; its id is its date.         *)
(***************************************************************************)
EXTENDS Integers, FiniteSets

CONSTANTS
    Dialogs,    \* group chats, channels and bots of the account, none ignored
    Unlisted,   \* library sources that are no dialog of the account
    PageSize,   \* DIGEST_PAGE_SIZE
    MaxFaults   \* bound on what Telegram refuses, takes away and gives back

Peers == Dialogs \cup Unlisted

ASSUME HistoryAssumption ==
    /\ Dialogs \cap Unlisted = {}
    /\ PageSize \in Nat \ {0} /\ MaxFaults \in Nat

VARIABLES
    served,     \* peers Telegram answers for
    selected,   \* peers that are an enabled library source
    blocked,    \* telegram_blocked_until is not over
    task,       \* what the task of a peer does in this pass
    below,      \* the page a dialog is at ends before this message (offset_id)
    rows,       \* rows of this pass: <<peer, date>>
    orphans,    \* peers with a task that outlived its pass
    lost,       \* history: peers that were not served during the pass
    faults

history == <<served, selected, blocked, task, below, rows, orphans, lost, faults>>

Tasks == {"none", "running", "done", "gone", "refused"}

HistoryTypeOK ==
    /\ served \subseteq Peers /\ selected \subseteq Peers /\ orphans \subseteq Peers
    /\ lost \subseteq Peers
    /\ blocked \in BOOLEAN
    /\ task \in [Peers -> Tasks]
    /\ below \in [Dialogs -> Int]
    /\ rows \subseteq Dialogs \X Nat
    /\ faults \in 0..MaxFaults

HistoryInit ==
    /\ served = Peers /\ selected = Peers
    /\ blocked = FALSE
    /\ task = [p \in Peers |-> "none"] /\ below = [p \in Dialogs |-> 0]
    /\ rows = {} /\ orphans = {} /\ lost = {}
    /\ faults = 0

Fault == faults < MaxFaults /\ faults' = faults + 1

Running == {p \in Peers : task[p] = "running"}

------------------------------------------------------------------------------
\* One pass.

\* iter_dialogs answered.  Some of the dialogs that are not served are marked so
\* (deactivated, or left); the first page of the others ends with the second
\* of the cut-off.
ListDialogs(end) ==
    \E marked \in SUBSET (Dialogs \ served) :
        /\ task' = [p \in Peers |-> IF p \in marked THEN "gone"
                                    ELSE IF p \in Dialogs \cup selected THEN "running"
                                    ELSE "none"]
        /\ below' = [p \in Dialogs |-> end + 1]
        /\ selected' = selected \ marked
        /\ rows' = {}
        /\ lost' = Peers \ served
        /\ UNCHANGED <<served, blocked, orphans, faults>>

Page(p) == {i \in 0..(below[p] - 1) : i >= below[p] - PageSize}

\* A page of a dialog (_digest_source_rows): the last one is short, or reaches back
\* to the start of the window.
FetchPage(p, start, end) ==
    /\ p \in Dialogs \cap served /\ task[p] = "running" /\ ~blocked
    /\ rows' = rows \cup {<<p, i>> : i \in {m \in Page(p) : start < m /\ m <= end}}
    /\ IF Cardinality(Page(p)) < PageSize \/ \E i \in Page(p) : i <= start
         THEN task' = [task EXCEPT ![p] = "done"] /\ UNCHANGED below
         ELSE /\ below' = [below EXCEPT ![p] = below[p] - PageSize]
              /\ UNCHANGED task
    /\ UNCHANGED <<served, selected, blocked, orphans, lost, faults>>

\* reconcile_missing: an enabled source outside the dialogs still answers.
Probe(p) ==
    /\ p \in Unlisted \cap served /\ task[p] = "running" /\ ~blocked
    /\ task' = [task EXCEPT ![p] = "done"]
    /\ UNCHANGED <<served, selected, blocked, below, rows, orphans, lost, faults>>

\* Status 410: the peer is refused, looked up again and refused again.  The rows of
\* the pages before stay.
PeerGone(p) ==
    /\ p \notin served /\ task[p] = "running" /\ ~blocked
    /\ task' = [task EXCEPT ![p] = "gone"]
    /\ selected' = selected \ {p}
    /\ UNCHANGED <<served, blocked, below, rows, orphans, lost, faults>>

\* Statuses 429 and 503, or any other error, of a task: gather raises it and cancels
\* nothing.  A flood wait holds up every later call, which then fails at once.
Refuse ==
    \/ Fault /\ blocked' \in {TRUE, blocked}
    \/ blocked /\ UNCHANGED <<blocked, faults>>

\* Faulty: a task that is refused is taken for one whose peer is gone.
CallFailsQuietly(p) ==
    /\ task[p] = "running"
    /\ Refuse
    /\ task' = [task EXCEPT ![p] = "gone"]
    /\ UNCHANGED <<served, selected, below, rows, orphans, lost>>

CallFails(p) ==
    /\ task[p] = "running"
    /\ Refuse
    /\ task' = [task EXCEPT ![p] = "refused"]
    /\ UNCHANGED <<served, selected, below, rows, orphans, lost>>

Forget ==
    /\ task' = [p \in Peers |-> "none"] /\ below' = [p \in Dialogs |-> 0]
    /\ rows' = {} /\ lost' = {}

\* The pass raises what the refused task did.
PassFails ==
    /\ \E p \in Peers : task[p] = "refused"
    /\ Forget
    /\ orphans' = orphans \cup Running
    /\ UNCHANGED <<served, selected, blocked, faults>>

\* Every task has ended well.
Gathered == \A p \in Peers : task[p] \in {"none", "done", "gone"}

\* iter_dialogs is refused.
ListFails ==
    /\ Fault /\ blocked' \in {TRUE, blocked}
    /\ UNCHANGED <<served, selected, task, below, rows, orphans, lost>>

\* What is left of a task whose pass failed: its answers go nowhere, but a source
\* that is gone is still switched off, and a flood wait still holds up the others.
OrphanEnds(p) ==
    /\ p \in orphans
    /\ orphans' = orphans \ {p}
    /\ \/ p \in served /\ UNCHANGED <<selected, blocked, faults>>
       \/ p \notin served /\ selected' = selected \ {p} /\ UNCHANGED <<blocked, faults>>
       \/ Refuse /\ UNCHANGED selected
    /\ UNCHANGED <<served, task, below, rows, lost>>

------------------------------------------------------------------------------
\* Telegram.

Lose(p) ==
    /\ p \in served /\ Fault
    /\ served' = served \ {p}
    /\ lost' = lost \cup {p}
    /\ UNCHANGED <<selected, blocked, task, below, rows, orphans>>

Regain(p) ==
    /\ p \notin served /\ Fault
    /\ served' = served \cup {p}
    /\ UNCHANGED <<selected, blocked, task, below, rows, orphans, lost>>

Unblock ==
    /\ blocked /\ blocked' = FALSE
    /\ UNCHANGED <<served, selected, task, below, rows, orphans, lost, faults>>
=============================================================================
