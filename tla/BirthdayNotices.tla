-------------------------- MODULE BirthdayNotices --------------------------
(***************************************************************************)
(* Birthday reminders (birthdays/service.py and the birthday part of       *)
(* db/repository.py): contacts from Telegram and from a JSON file, merged  *)
(* into people, and one e-mail a day about whoever has a birthday.         *)
(*                                                                         *)
(* The daily job runs in a thread of the scheduler, the poll on the event  *)
(* loop, check_birthdays in a process of its own: every commit and every   *)
(* query is a step.  A run works for the day at which it was started.      *)
(***************************************************************************)
EXTENDS Integers, FiniteSets

CONSTANTS
    Humans,     \* people with a birthday tomorrow on day 1, today on day 2
    TgKey,      \* the person_key of each human's Telegram contact
    FileKey,    \* the person_key of each human's record in birthdays.json
    Service,    \* the runs of the service process: the daily job and the poll
    Commands,   \* runs of check_birthdays, each a process
    Poll,       \* the run that looks at today's birthdays only
    Cached,     \* the contacts that earlier days may have left in the cache
    InFile,     \* the humans in birthdays.json on day 1
    Edited,     \* humans whom the owner adds to the file or removes
    InTelegram, \* humans whose birthday Telegram may come to know
    StaleAfter, \* ticks after which a claim without an attempt is released
    MaxLag,     \* ticks a run may spend with Telegram before it claims
    MaxIncidents, \* crashes and edits of the file
    NoNotice

Keys == {TgKey[h] : h \in Humans} \cup {FileKey[h] : h \in Humans}
Slots == {"tomorrow", "today"}
Runs == Service \cup Commands

ASSUME ConstantsAssumption ==
    /\ Service \cap Commands = {}
    /\ StaleAfter \in Nat /\ MaxLag \in Nat /\ MaxIncidents \in Nat
    /\ InFile \subseteq Humans /\ Edited \subseteq Humans /\ InTelegram \subseteq Humans
    /\ Cached \subseteq Keys
    /\ \A g, h \in Humans : /\ TgKey[g] # FileKey[h]
                            /\ g # h => TgKey[g] # TgKey[h] /\ FileKey[g] # FileKey[h]

VARIABLES
    day,      \* 1 and 2, then 3 when the birthdays are over
    contacts, \* birthday_contacts
    file,     \* the humans in birthdays.json
    known,    \* the humans whose birthday Telegram tells
    notice,   \* birthday_notifications by key and slot: [age, attempted, sent]
    pc,       \* where each run is
    at,       \* the day for which each run was started
    lag,      \* how long ago that was
    people,   \* keys the run read from Telegram, the file or birthday_contacts
    due,      \* the (human, key, slot) it found due and has yet to claim or mark
    claimed,  \* those it claimed
    mailed,   \* history: e-mails about a human, at most two counted
    incidents

run == <<pc, at, lag, people, due, claimed>>
table == <<contacts, notice>>
vars == <<day, contacts, file, known, notice, run, mailed, incidents>>

Oldest == StaleAfter + MaxLag  \* ages are counted up to this

Steps == {"idle", "telegram", "contacts", "file", "manual", "prune", "release", "read",
          "check", "claim", "attempt", "send", "sent"}
Notices == [age : 0..Oldest, attempted : BOOLEAN, sent : BOOLEAN]
Items == Humans \X Keys \X Slots

ASSUME NoNoticeAssumption == NoNotice \notin Notices

TypeOK ==
    /\ day \in 1..3
    /\ contacts \subseteq Keys /\ file \subseteq Humans /\ known \subseteq Humans
    /\ notice \in [Keys \X Slots -> Notices \cup {NoNotice}]
    /\ pc \in [Runs -> Steps]
    /\ at \in [Runs -> 1..3] /\ lag \in [Runs -> 0..MaxLag]
    /\ people \in [Runs -> SUBSET Keys]
    /\ due \in [Runs -> SUBSET Items] /\ claimed \in [Runs -> SUBSET Items]
    /\ mailed \in [Humans \X Slots -> 0..2]
    /\ incidents \in 0..MaxIncidents

Init ==
    /\ day = 1
    /\ contacts \in {Cached, {}} /\ file = InFile /\ known \in SUBSET InTelegram
    /\ notice = [n \in Keys \X Slots |-> NoNotice]
    /\ pc = [r \in Runs |-> "idle"]
    /\ at = [r \in Runs |-> 1] /\ lag = [r \in Runs |-> 0]
    /\ people = [r \in Runs |-> {}]
    /\ due = [r \in Runs |-> {}] /\ claimed = [r \in Runs |-> {}]
    /\ mailed = [m \in Humans \X Slots |-> 0]
    /\ incidents = 0

Smaller(a, b) == IF a < b THEN a ELSE b

Goto(r, step) == pc' = [pc EXCEPT ![r] = step]

\* The runs in dead are over, and their local variables with them.
End(dead) ==
    /\ pc' = [r \in Runs |-> IF r \in dead THEN "idle" ELSE pc[r]]
    /\ at' = [r \in Runs |-> IF r \in dead THEN 1 ELSE at[r]]
    /\ lag' = [r \in Runs |-> IF r \in dead THEN 0 ELSE lag[r]]
    /\ people' = [r \in Runs |-> IF r \in dead THEN {} ELSE people[r]]
    /\ due' = [r \in Runs |-> IF r \in dead THEN {} ELSE due[r]]
    /\ claimed' = [r \in Runs |-> IF r \in dead THEN {} ELSE claimed[r]]

------------------------------------------------------------------------------
\* A run starts; the daily job does not ask Telegram.
Start(r) ==
    /\ pc[r] = "idle" /\ day <= 2
    /\ Goto(r, IF r = Poll \/ r \in Commands THEN "telegram" ELSE "file")
    /\ at' = [at EXCEPT ![r] = day]
    /\ UNCHANGED <<day, table, file, known, lag, people, due, claimed, mailed, incidents>>

\* The answer of contacts.getBirthdays; the content of birthdays.json.
Load(r) ==
    /\ \/ /\ pc[r] = "telegram"
          /\ people' = [people EXCEPT ![r] = {TgKey[h] : h \in known}]
          /\ Goto(r, "contacts")
       \/ /\ pc[r] = "file"
          /\ people' = [people EXCEPT ![r] = {FileKey[h] : h \in file}]
          /\ Goto(r, "manual")
    /\ UNCHANGED <<day, table, file, known, at, lag, due, claimed, mailed, incidents>>

\* _store_records commits one contact after the other.  Those that Telegram
\* does not name any more stay.
Store(r) ==
    /\ pc[r] \in {"contacts", "manual"}
    /\ \/ \E k \in people[r] \ contacts :
            contacts' = contacts \cup {k} /\ UNCHANGED pc
       \/ /\ people[r] \subseteq contacts
          /\ Goto(r, IF pc[r] = "contacts" THEN "file" ELSE "prune")
          /\ UNCHANGED contacts
    /\ UNCHANGED <<day, file, known, notice, at, lag, people, due, claimed,
                   mailed, incidents>>

\* Telegram does not answer, the file is invalid, or another run inserts the
\* same contact first.
Fail(r) ==
    /\ pc[r] \in {"telegram", "contacts", "file", "manual"}
    /\ End({r})
    /\ UNCHANGED <<day, table, file, known, mailed, incidents>>

\* The manual contacts that the file did not hold are deleted.  The poll goes
\* no further before the time of the reminder.
Prune(r) ==
    /\ pc[r] = "prune"
    /\ contacts' = {k \in contacts : k \in people[r]
                                    \/ \A h \in Humans : k # FileKey[h]}
    /\ \/ /\ Goto(r, "release")
          /\ UNCHANGED <<at, lag, people, due, claimed>>
       \/ r = Poll /\ End({r})
    /\ UNCHANGED <<day, file, known, notice, mailed, incidents>>

\* Only a claim that never led to an attempt is taken back.  Its age is counted
\* up to the time the run takes for now: its own start.
Releasable(n, now) ==
    n # NoNotice /\ ~n.sent /\ ~n.attempted /\ n.age - now >= StaleAfter

\* release_stale_birthday_notification_claims.
Release(r) ==
    /\ pc[r] = "release"
    /\ notice' = [n \in Keys \X Slots |->
                    IF Releasable(notice[n], lag[r]) THEN NoNotice ELSE notice[n]]
    /\ Goto(r, "read")
    /\ UNCHANGED <<day, contacts, file, known, at, lag, people, due, claimed,
                   mailed, incidents>>

\* The contacts a run read of a human, and the key under which it notifies him.
Aliases(h, rows) == {TgKey[h], FileKey[h]} \cap rows
KeyOf(h, rows) == IF TgKey[h] \in rows THEN TgKey[h] ELSE FileKey[h]

\* Birthdays are tomorrow on day 1 and today on day 2.
Slot(d) == IF d = 1 THEN "tomorrow" ELSE "today"

\* merged_birthday_people; the poll looks at today's birthdays only.
ReadPeople(r) ==
    /\ pc[r] = "read"
    /\ people' = [people EXCEPT ![r] =
                     IF r = Poll /\ Slot(at[r]) = "tomorrow" THEN {} ELSE contacts]
    /\ Goto(r, "check")
    /\ UNCHANGED <<day, table, file, known, at, lag, due, claimed, mailed, incidents>>

\* has_birthday_notification, under any alias.
Notified(h, rows, slot) == \E k \in Aliases(h, rows) : notice[<<k, slot>>] # NoNotice

\* One query for every human the run knows: a human is due unless somebody was
\* or is being notified of him.
Check(r) ==
    LET slot == Slot(at[r])
        left == {h \in Humans : Aliases(h, people[r]) # {}}
    IN /\ pc[r] = "check"
       /\ IF left = {}
            THEN /\ Goto(r, "claim")
                 /\ UNCHANGED <<people, due>>
            ELSE \E h \in left :
                   /\ people' = [people EXCEPT ![r] = @ \ {TgKey[h], FileKey[h]}]
                   /\ due' = [due EXCEPT ![r] =
                                IF Notified(h, people[r], slot) THEN @
                                ELSE @ \cup {<<h, KeyOf(h, people[r]), slot>>}]
                   /\ UNCHANGED pc
       /\ UNCHANGED <<day, table, file, known, at, lag, claimed, mailed,
                      incidents>>

\* Faulty: the table has no unique key.
AlwaysFree(n) == TRUE

\* Whether the insert of a notice is accepted: the key of the table is unique.
Free(n) == notice[n] = NoNotice

\* A claim is as old as the run.
NewClaim(r) == [age |-> lag[r], attempted |-> FALSE, sent |-> FALSE]

\* claim_birthday_notification, one insert for each; a run with no claim of its
\* own is over.
Claim(r) ==
    /\ pc[r] = "claim"
    /\ \/ \E i \in due[r] :
            LET n == <<i[2], i[3]>> IN
            /\ due' = [due EXCEPT ![r] = @ \ {i}]
            /\ IF Free(n)
                 THEN /\ notice' = [notice EXCEPT ![n] = NewClaim(r)]
                      /\ claimed' = [claimed EXCEPT ![r] = @ \cup {i}]
                 ELSE UNCHANGED <<notice, claimed>>
            /\ UNCHANGED <<pc, at, lag, people>>
       \/ /\ due[r] = {} /\ claimed[r] # {}
          /\ Goto(r, "attempt")
          /\ due' = [due EXCEPT ![r] = claimed[r]]
          /\ UNCHANGED <<notice, at, lag, people, claimed>>
       \/ /\ due[r] = {} /\ claimed[r] = {}
          /\ End({r})
          /\ UNCHANGED notice
    /\ UNCHANGED <<day, contacts, file, known, mailed, incidents>>

Row(i) == <<i[2], i[3]>>

\* The notice of i is updated to n; its row may be gone.
Mark(r, i, n) ==
    /\ due' = [due EXCEPT ![r] = @ \ {i}]
    /\ notice' = IF notice[Row(i)] = NoNotice THEN notice
                 ELSE [notice EXCEPT ![Row(i)] = n]

Attempted(n) == [age |-> n.age, attempted |-> TRUE, sent |-> n.sent]

\* Both updates write the rows that still are there.
Attempt(r) ==
    /\ pc[r] = "attempt"
    /\ \/ (\E i \in due[r] : Mark(r, i, Attempted(notice[Row(i)]))) /\ UNCHANGED pc
       \/ due[r] = {} /\ Goto(r, "send") /\ UNCHANGED <<due, notice>>
    /\ UNCHANGED <<day, contacts, file, known, at, lag, people, claimed, mailed, incidents>>

Mail(r) ==
    mailed' = [m \in Humans \X Slots |->
                 IF \E i \in claimed[r] : <<i[1], i[3]>> = m
                   THEN Smaller(mailed[m] + 1, 2) ELSE mailed[m]]

\* One e-mail about all of them.  When the transport raises, the mail may or may
\* not be out, the run ends and the notices stay attempted.
Send(r) ==
    /\ pc[r] = "send"
    /\ \/ /\ Mail(r)
          /\ Goto(r, "sent")
          /\ due' = [due EXCEPT ![r] = claimed[r]]
          /\ UNCHANGED <<at, lag, people, claimed>>
       \/ /\ Mail(r) \/ UNCHANGED mailed
          /\ End({r})
    /\ UNCHANGED <<day, table, file, known, incidents>>

Delivered(n) == [age |-> n.age, attempted |-> n.attempted, sent |-> TRUE]

MarkSent(r) ==
    /\ pc[r] = "sent"
    /\ \/ /\ \E i \in due[r] : Mark(r, i, Delivered(notice[Row(i)]))
          /\ UNCHANGED <<pc, at, lag, people, claimed>>
       \/ due[r] = {} /\ End({r}) /\ UNCHANGED notice
    /\ UNCHANGED <<day, contacts, file, known, mailed, incidents>>

------------------------------------------------------------------------------
\* The owner adds or removes the record of somebody whose contact Telegram told
\* of before, and Telegram learns of a birthday.
EditFile ==
    /\ incidents < MaxIncidents
    /\ incidents' = incidents + 1
    /\ \E h \in Edited :
         /\ TgKey[h] \in contacts
         /\ file' = IF h \in file THEN file \ {h} ELSE file \cup {h}
    /\ UNCHANGED <<day, table, known, run, mailed>>

Learn ==
    /\ \E h \in InTelegram \ known : known' = known \cup {h}
    /\ UNCHANGED <<day, table, file, run, mailed, incidents>>

\* A process dies, and its runs with it.
Crash(dead) ==
    /\ incidents < MaxIncidents
    /\ incidents' = incidents + 1
    /\ \E r \in dead : pc[r] # "idle"
    /\ End(dead)
    /\ UNCHANGED <<day, table, file, known, mailed>>

\* From the first claim to the attempt a run does not wait, and before that only
\* for Telegram.
Tick ==
    /\ \A r \in Runs : /\ pc[r] \notin {"claim", "attempt"}
                       /\ pc[r] \notin {"idle", "send", "sent"} => lag[r] < MaxLag
    /\ notice' = [n \in Keys \X Slots |->
                    IF notice[n] = NoNotice THEN NoNotice
                    ELSE [notice[n] EXCEPT !.age = Smaller(@ + 1, Oldest)]]
    /\ lag' = [r \in Runs |-> IF pc[r] \in {"idle", "send", "sent"} THEN lag[r]
                              ELSE lag[r] + 1]
    /\ UNCHANGED <<day, contacts, file, known, pc, at, people, due, claimed, mailed,
                   incidents>>

Midnight ==
    /\ day < 3
    /\ day' = day + 1
    /\ UNCHANGED <<table, file, known, run, mailed, incidents>>

------------------------------------------------------------------------------
Step(r) ==
    \/ Start(r) \/ Load(r) \/ Store(r) \/ Fail(r) \/ Prune(r) \/ Release(r)
    \/ ReadPeople(r) \/ Check(r) \/ Claim(r) \/ Attempt(r) \/ Send(r) \/ MarkSent(r)

Next ==
    \/ \E r \in Runs : Step(r)
    \/ \E dead \in {Service} \cup {{c} : c \in Commands} : Crash(dead)
    \/ EditFile \/ Learn \/ Tick \/ Midnight

Spec == Init /\ [][Next]_vars

------------------------------------------------------------------------------
\* Properties.

\* One e-mail about a birthday and its eve, however the daily job, the poll and
\* the command overlap, crash and are started again.
OneMail == \A m \in Humans \X Slots : mailed[m] <= 1
=============================================================================
