---------------------------- MODULE NoticeProofs ----------------------------
(***************************************************************************)
(* Two small senders that tell the owner something once: the birthday      *)
(* reminders (BirthdayNotices) and the banners of the notifier on the Mac  *)
(* (MacNotifier).  Neither knows of the other; the theorems about each     *)
(* speak of its own specification.                                         *)
(*                                                                         *)
(* Each keeps the promise by a row that is written before anything is      *)
(* sent: the notice of a person and slot, which is unique and stays once   *)
(* an attempt is marked, and the saved cursor, behind which no row of the  *)
(* feed is looked at again.                                                *)
(***************************************************************************)
EXTENDS BirthdayNotices, MacNotifier, TLAPS

------------------------------------------------------------------------------
\* Types of the birthday reminders.

LEMMA KeyTypes ==
    ASSUME NEW h \in Humans
    PROVE  TgKey[h] \in Keys /\ FileKey[h] \in Keys
BY DEF Keys

LEMMA SlotType == ASSUME NEW d PROVE Slot(d) \in Slots
BY DEF Slot, Slots

LEMMA ItemType ==
    ASSUME NEW i \in Items
    PROVE  /\ i[1] \in Humans /\ i[2] \in Keys /\ i[3] \in Slots
           /\ Row(i) \in Keys \X Slots /\ <<i[1], i[3]>> \in Humans \X Slots
           /\ i = <<i[1], i[2], i[3]>>
BY DEF Items, Row

\* What a run's end leaves are its initial local variables.
LEMMA EndType ==
    ASSUME TypeOK, NEW dead, End(dead)
    PROVE  /\ pc' \in [Runs -> Steps] /\ at' \in [Runs -> 1..3]
           /\ lag' \in [Runs -> 0..MaxLag] /\ people' \in [Runs -> SUBSET Keys]
           /\ due' \in [Runs -> SUBSET Items] /\ claimed' \in [Runs -> SUBSET Items]
<1>1. MaxLag \in Nat /\ "idle" \in Steps
  BY ConstantsAssumption DEF Steps
<1> QED
  BY <1>1 DEF End, TypeOK

LEMMA GotoType ==
    ASSUME TypeOK, NEW r \in Runs, NEW step \in Steps, Goto(r, step)
    PROVE  pc' \in [Runs -> Steps]
BY DEF Goto, TypeOK

\* What an update writes is a notice.
LEMMA NoticeTypes ==
    /\ \A n \in Notices : Attempted(n) \in Notices /\ Delivered(n) \in Notices
    /\ \A r \in Runs : TypeOK => NewClaim(r) \in Notices
<1>1. StaleAfter \in Nat /\ MaxLag \in Nat
  BY ConstantsAssumption
<1>2. \A r \in Runs : TypeOK => lag[r] \in 0..Oldest
  BY <1>1 DEF TypeOK, Oldest
<1>3. \A n \in Notices : Attempted(n) \in Notices /\ Delivered(n) \in Notices
  BY DEF Attempted, Delivered, Notices
<1> QED
  BY <1>2, <1>3 DEF NewClaim, Notices

LEMMA MarkType ==
    ASSUME TypeOK, NEW r \in Runs, NEW i \in due[r], NEW n,
           notice[Row(i)] # NoNotice => n \in Notices, Mark(r, i, n)
    PROVE  /\ notice' \in [Keys \X Slots -> Notices \cup {NoNotice}]
           /\ due' \in [Runs -> SUBSET Items]
<1>1. i \in Items
  BY DEF TypeOK
<1>2. notice' \in [Keys \X Slots -> Notices \cup {NoNotice}]
  BY <1>1, ItemType DEF Mark, TypeOK
<1>3. due' \in [Runs -> SUBSET Items]
  BY DEF Mark, TypeOK
<1> QED
  BY <1>2, <1>3

LEMMA MailType ==
    ASSUME TypeOK, NEW r \in Runs, Mail(r)
    PROVE  mailed' \in [Humans \X Slots -> 0..2]
BY DEF Mail, TypeOK, Smaller

LEMMA TypeStep == TypeOK /\ [Next]_vars => TypeOK'
<1> SUFFICES ASSUME TypeOK, [Next]_vars PROVE TypeOK'
  OBVIOUS
<1>0. /\ MaxLag \in Nat /\ StaleAfter \in Nat /\ MaxIncidents \in Nat /\ Oldest \in Nat
      /\ \A s \in {"idle", "telegram", "contacts", "file", "manual", "prune", "release",
                   "read", "check", "claim", "attempt", "send", "sent"} : s \in Steps
  BY ConstantsAssumption DEF Oldest, Steps
<1>1. ASSUME NEW r \in Runs, Start(r) PROVE TypeOK'
  <2>1. at' \in [Runs -> 1..3]
    BY <1>1 DEF Start, TypeOK
  <2>2. pc' \in [Runs -> Steps]
    BY <1>0, <1>1, GotoType DEF Start
  <2> QED
    BY <1>1, <2>1, <2>2 DEF Start, TypeOK, table
<1>2. ASSUME NEW r \in Runs, Load(r) PROVE TypeOK'
  <2>1. /\ {TgKey[h] : h \in known} \in SUBSET Keys
        /\ {FileKey[h] : h \in file} \in SUBSET Keys
    BY KeyTypes DEF TypeOK
  <2>2. people' \in [Runs -> SUBSET Keys]
    BY <1>2, <2>1 DEF Load, TypeOK
  <2>3. pc' \in [Runs -> Steps]
    BY <1>0, <1>2, GotoType DEF Load
  <2> QED
    BY <1>2, <2>2, <2>3 DEF Load, TypeOK, table
<1>3. ASSUME NEW r \in Runs, Store(r) PROVE TypeOK'
  <2>1. contacts' \subseteq Keys
    BY <1>3 DEF Store, TypeOK
  <2>2. pc' \in [Runs -> Steps]
    BY <1>0, <1>3, GotoType DEF Store, TypeOK
  <2> QED
    BY <1>3, <2>1, <2>2 DEF Store, TypeOK
<1>4. ASSUME NEW r \in Runs, Fail(r) PROVE TypeOK'
  BY <1>4, EndType DEF Fail, TypeOK, table
<1>5. ASSUME NEW r \in Runs, Prune(r) PROVE TypeOK'
  <2>1. contacts' \subseteq Keys
    BY <1>5 DEF Prune, TypeOK
  <2>2. CASE Goto(r, "release") /\ UNCHANGED <<at, lag, people, due, claimed>>
    <3>1. pc' \in [Runs -> Steps]
      BY <1>0, <2>2, GotoType
    <3> QED
      BY <1>5, <2>1, <2>2, <3>1 DEF Prune, TypeOK
  <2>3. CASE End({r})
    BY <1>5, <2>1, <2>3, EndType DEF Prune, TypeOK
  <2> QED
    BY <1>5, <2>2, <2>3 DEF Prune
<1>6. ASSUME NEW r \in Runs, Release(r) PROVE TypeOK'
  <2>1. pc' \in [Runs -> Steps]
    BY <1>0, <1>6, GotoType DEF Release
  <2>2. notice' \in [Keys \X Slots -> Notices \cup {NoNotice}]
    BY <1>6 DEF Release, TypeOK
  <2> QED
    BY <1>6, <2>1, <2>2 DEF Release, TypeOK
<1>7. ASSUME NEW r \in Runs, ReadPeople(r) PROVE TypeOK'
  <2>1. pc' \in [Runs -> Steps]
    BY <1>0, <1>7, GotoType DEF ReadPeople
  <2>2. people' \in [Runs -> SUBSET Keys]
    BY <1>7 DEF ReadPeople, TypeOK
  <2> QED
    BY <1>7, <2>1, <2>2 DEF ReadPeople, TypeOK, table
<1>8. ASSUME NEW r \in Runs, Check(r) PROVE TypeOK'
  <2>1. CASE Goto(r, "claim") /\ UNCHANGED <<people, due>>
    <3>1. pc' \in [Runs -> Steps]
      BY <1>0, <2>1, GotoType
    <3> QED
      BY <1>8, <2>1, <3>1 DEF Check, TypeOK, table
  <2>2. ASSUME NEW h \in Humans,
               people' = [people EXCEPT ![r] = @ \ {TgKey[h], FileKey[h]}],
               due' = [due EXCEPT ![r] =
                         IF Notified(h, people[r], Slot(at[r])) THEN @
                         ELSE @ \cup {<<h, KeyOf(h, people[r]), Slot(at[r])>>}],
               UNCHANGED pc
        PROVE  TypeOK'
    <3>1. <<h, KeyOf(h, people[r]), Slot(at[r])>> \in Items
      BY KeyTypes, SlotType DEF KeyOf, Items
    <3>2. people' \in [Runs -> SUBSET Keys] /\ due' \in [Runs -> SUBSET Items]
      BY <2>2, <3>1 DEF TypeOK
    <3> QED
      BY <1>8, <2>2, <3>2 DEF Check, TypeOK, table
  <2> QED
    BY <1>8, <2>1, <2>2 DEF Check
<1>9. ASSUME NEW r \in Runs, Claim(r) PROVE TypeOK'
  <2>1. ASSUME NEW i \in due[r], due' = [due EXCEPT ![r] = @ \ {i}],
               IF Free(<<i[2], i[3]>>)
                 THEN /\ notice' = [notice EXCEPT ![<<i[2], i[3]>>] = NewClaim(r)]
                      /\ claimed' = [claimed EXCEPT ![r] = @ \cup {i}]
                 ELSE UNCHANGED <<notice, claimed>>,
               UNCHANGED <<pc, at, lag, people>>
        PROVE  TypeOK'
    <3>1. i \in Items
      BY DEF TypeOK
    <3>2. /\ notice' \in [Keys \X Slots -> Notices \cup {NoNotice}]
          /\ claimed' \in [Runs -> SUBSET Items] /\ due' \in [Runs -> SUBSET Items]
      BY <2>1, <3>1, NoticeTypes DEF TypeOK
    <3> QED
      BY <1>9, <2>1, <3>2 DEF Claim, TypeOK
  <2>2. CASE /\ Goto(r, "attempt") /\ due' = [due EXCEPT ![r] = claimed[r]]
             /\ UNCHANGED <<notice, at, lag, people, claimed>>
    <3>1. pc' \in [Runs -> Steps] /\ due' \in [Runs -> SUBSET Items]
      BY <1>0, <2>2, GotoType DEF TypeOK
    <3> QED
      BY <1>9, <2>2, <3>1 DEF Claim, TypeOK
  <2>3. CASE End({r}) /\ UNCHANGED notice
    BY <1>9, <2>3, EndType DEF Claim, TypeOK
  <2> QED
    BY <1>9, <2>1, <2>2, <2>3 DEF Claim
<1>10. ASSUME NEW r \in Runs, Attempt(r) PROVE TypeOK'
  <2>1. ASSUME NEW i \in due[r], Mark(r, i, Attempted(notice[Row(i)])), UNCHANGED pc
        PROVE  TypeOK'
    <3>1. notice[Row(i)] # NoNotice => Attempted(notice[Row(i)]) \in Notices
      BY ItemType, NoticeTypes DEF TypeOK
    <3> QED
      BY <1>10, <2>1, <3>1, MarkType DEF Attempt, TypeOK
  <2>2. CASE Goto(r, "send") /\ UNCHANGED <<due, notice>>
    <3>1. pc' \in [Runs -> Steps]
      BY <1>0, <2>2, GotoType
    <3> QED
      BY <1>10, <2>2, <3>1 DEF Attempt, TypeOK
  <2> QED
    BY <1>10, <2>1, <2>2 DEF Attempt
<1>11. ASSUME NEW r \in Runs, Send(r) PROVE TypeOK'
  <2>1. mailed' \in [Humans \X Slots -> 0..2]
    BY <1>11, MailType DEF Send, TypeOK
  <2>2. CASE /\ Goto(r, "sent") /\ due' = [due EXCEPT ![r] = claimed[r]]
             /\ UNCHANGED <<at, lag, people, claimed>>
    <3>1. pc' \in [Runs -> Steps] /\ due' \in [Runs -> SUBSET Items]
      BY <1>0, <2>2, GotoType DEF TypeOK
    <3> QED
      BY <1>11, <2>1, <2>2, <3>1 DEF Send, TypeOK, table
  <2>3. CASE End({r})
    BY <1>11, <2>1, <2>3, EndType DEF Send, TypeOK, table
  <2> QED
    BY <1>11, <2>2, <2>3 DEF Send
<1>12. ASSUME NEW r \in Runs, MarkSent(r) PROVE TypeOK'
  <2>1. ASSUME NEW i \in due[r], Mark(r, i, Delivered(notice[Row(i)])),
               UNCHANGED <<pc, at, lag, people, claimed>>
        PROVE  TypeOK'
    <3>1. notice[Row(i)] # NoNotice => Delivered(notice[Row(i)]) \in Notices
      BY ItemType, NoticeTypes DEF TypeOK
    <3> QED
      BY <1>12, <2>1, <3>1, MarkType DEF MarkSent, TypeOK
  <2>2. CASE End({r}) /\ UNCHANGED notice
    BY <1>12, <2>2, EndType DEF MarkSent, TypeOK
  <2> QED
    BY <1>12, <2>1, <2>2 DEF MarkSent
<1>13. ASSUME NEW dead, Crash(dead) PROVE TypeOK'
  <2>1. incidents' \in 0..MaxIncidents
    BY <1>0, <1>13 DEF Crash, TypeOK
  <2> QED
    BY <1>13, <2>1, EndType DEF Crash, TypeOK, table
<1>14. CASE EditFile
  <2>1. incidents' \in 0..MaxIncidents
    BY <1>0, <1>14 DEF EditFile, TypeOK
  <2>2. file' \subseteq Humans
    BY <1>14, ConstantsAssumption DEF EditFile, TypeOK
  <2> QED
    BY <1>14, <2>1, <2>2 DEF EditFile, TypeOK, table, run
<1>15. CASE Learn
  <2>1. known' \subseteq Humans
    BY <1>15, ConstantsAssumption DEF Learn, TypeOK
  <2> QED
    BY <1>15, <2>1 DEF Learn, TypeOK, table, run
<1>16. CASE Tick
  <2>1. notice' \in [Keys \X Slots -> Notices \cup {NoNotice}]
    <3>1. \A n \in Notices : [n EXCEPT !.age = Smaller(@ + 1, Oldest)] \in Notices
      BY <1>0 DEF Notices, Smaller
    <3> QED
      BY <1>16, <3>1 DEF Tick, TypeOK
  <2>2. lag' \in [Runs -> 0..MaxLag]
    BY <1>0, <1>16 DEF Tick, TypeOK
  <2> QED
    BY <1>16, <2>1, <2>2 DEF Tick, TypeOK
<1>17. CASE Midnight
  BY <1>17 DEF Midnight, TypeOK, table, run
<1>18. CASE UNCHANGED vars
  BY <1>18 DEF vars, TypeOK, table, run
<1> QED
  BY <1>1, <1>2, <1>3, <1>4, <1>5, <1>6, <1>7, <1>8, <1>9, <1>10, <1>11, <1>12, <1>13,
     <1>14, <1>15, <1>16, <1>17, <1>18 DEF Next, Step

\* The tables, the contacts and the local variables of the runs keep their types
\* (birthdays/service.py).
THEOREM TypeCorrect == Spec => []TypeOK
<1>1. Init => TypeOK
  <2> SUFFICES ASSUME Init PROVE TypeOK
    OBVIOUS
  <2>1. MaxLag \in Nat /\ MaxIncidents \in Nat /\ "idle" \in Steps
    BY ConstantsAssumption DEF Steps
  <2>2. contacts \subseteq Keys /\ file \subseteq Humans /\ known \subseteq Humans
    BY ConstantsAssumption DEF Init
  <2> QED
    BY <2>1, <2>2 DEF Init, TypeOK
<1> QED
  BY <1>1, TypeStep, PTL DEF Spec

------------------------------------------------------------------------------
\* Nobody whom the file names from the start is in Telegram too.
NobodyChangesKey == InFile \cap InTelegram = {}

\* The key under which a person is notified.  Of a person whom the file names from the
\* start, Telegram knows nothing but what it told before.
TheKey(h) == IF h \notin InFile \/ TgKey[h] \in contacts THEN TgKey[h] ELSE FileKey[h]

\* A person the file names later has a contact from Telegram by then, and a manual contact
\* without it is gone before a run reads the table.
NamedLater(h) ==
    /\ h \in file => TgKey[h] \in contacts
    /\ \A r \in Runs :
         /\ pc[r] # "check" /\ FileKey[h] \in people[r] => TgKey[h] \in contacts
         /\ pc[r] \in {"release", "read"} /\ FileKey[h] \in contacts => TgKey[h] \in contacts
         /\ pc[r] = "check" /\ FileKey[h] \in people[r] => TgKey[h] \in people[r]

\* Of the others no contact from Telegram is added, and a run that looks for notices has
\* read the one there is.
NamedAtFirst(h) ==
    /\ h \notin known
    /\ \A r \in Runs :
         /\ TgKey[h] \in people[r] => TgKey[h] \in contacts
         /\ pc[r] = "check" /\ FileKey[h] \in people[r] /\ TgKey[h] \in contacts
              => TgKey[h] \in people[r]

KeysOf(h) == IF h \in InFile THEN NamedAtFirst(h) ELSE NamedLater(h)

KeysInv == \A h \in Humans : KeysOf(h)

\* The keys of two people, and the two keys of one, differ.
LEMMA KeysDiffer ==
    /\ \A g, h \in Humans : TgKey[g] # FileKey[h]
    /\ \A g, h \in Humans : TgKey[g] = TgKey[h] \/ FileKey[g] = FileKey[h] => g = h
BY ConstantsAssumption

\* The contacts stay, the file and what Telegram knows stay or shrink; a run reads nothing
\* new, and does not get past Prune.
Stays(r) ==
    \/ people'[r] = {} /\ pc'[r] = "idle"
    \/ /\ people'[r] = people[r]
       /\ pc'[r] = "check" <=> pc[r] = "check"
       /\ pc'[r] \in {"release", "read"} => pc[r] \in {"release", "read"}

LEMMA KeysStay ==
    ASSUME NEW h \in Humans, KeysOf(h), file' \subseteq file, known' \subseteq known,
           contacts' = contacts, \A r \in Runs : Stays(r)
    PROVE  KeysOf(h)'
<1>1. CASE h \in InFile
  BY <1>1 DEF KeysOf, NamedAtFirst, Stays
<1>2. CASE h \notin InFile
  BY <1>2 DEF KeysOf, NamedLater, Stays
<1> QED
  BY <1>1, <1>2

\* So it is at the end of a run.
LEMMA EndKeepsKeys ==
    ASSUME NEW h \in Humans, KeysOf(h), UNCHANGED <<file, known, contacts>>,
           NEW dead, End(dead)
    PROVE  KeysOf(h)'
<1>1. \A r \in Runs : Stays(r)
  BY DEF End, Stays
<1> QED
  BY <1>1, KeysStay

LEMMA GotoOthers ==
    ASSUME TypeOK, NEW r \in Runs, NEW step, Goto(r, step)
    PROVE  pc'[r] = step /\ \A s \in Runs \ {r} : pc'[s] = pc[s]
BY DEF Goto, TypeOK

LEMMA KeysStep ==
    ASSUME NobodyChangesKey, TypeOK, KeysInv, [Next]_vars
    PROVE  KeysInv'
<1> SUFFICES ASSUME NEW h \in Humans PROVE KeysOf(h)'
  BY DEF KeysInv
<1>0. KeysOf(h)
  BY DEF KeysInv
<1> DEFINE Calm == UNCHANGED <<file, known, contacts>> /\ \A r \in Runs : Stays(r)
<1>1. ASSUME Calm PROVE KeysOf(h)'
  BY <1>0, <1>1, KeysStay
<1>2. ASSUME NEW r \in Runs, Start(r) PROVE KeysOf(h)'
  <2>1. Calm
    BY <1>2, GotoOthers DEF Start, table, Stays
  <2> QED
    BY <1>1, <2>1
<1>3. ASSUME NEW r \in Runs, Load(r) PROVE KeysOf(h)'
  <2>1. /\ UNCHANGED <<file, known, contacts>>
        /\ pc'[r] \notin {"release", "read", "check"}
        /\ \A s \in Runs \ {r} : pc'[s] = pc[s] /\ people'[s] = people[s]
        /\ people'[r] \in {{TgKey[g] : g \in known}, {FileKey[g] : g \in file}}
    BY <1>3, GotoOthers DEF Load, TypeOK, table
  <2>2. known \subseteq Humans /\ file \subseteq Humans
    BY DEF TypeOK
  <2>3. /\ FileKey[h] \in people'[r] => h \in file
        /\ TgKey[h] \in people'[r] => h \in known
    BY <2>1, <2>2, KeysDiffer
  <2>4. CASE h \in InFile
    BY <1>0, <2>1, <2>3, <2>4 DEF KeysOf, NamedAtFirst
  <2>5. CASE h \notin InFile
    BY <1>0, <2>1, <2>3, <2>5 DEF KeysOf, NamedLater
  <2> QED
    BY <2>4, <2>5
<1>4. ASSUME NEW r \in Runs, Store(r) PROVE KeysOf(h)'
  <2>1. /\ UNCHANGED <<file, known, people>>
        /\ pc[r] # "check" /\ pc'[r] \notin {"release", "read", "check"}
        /\ \A s \in Runs \ {r} : pc'[s] = pc[s]
    BY <1>4, GotoOthers DEF Store
  <2>2. contacts \subseteq contacts' /\ contacts' \subseteq contacts \cup people[r]
    BY <1>4 DEF Store
  <2>3. CASE h \in InFile
    BY <1>0, <2>1, <2>2, <2>3 DEF KeysOf, NamedAtFirst
  <2>4. CASE h \notin InFile
    BY <1>0, <2>1, <2>2, <2>4 DEF KeysOf, NamedLater
  <2> QED
    BY <2>3, <2>4
<1>5. ASSUME NEW r \in Runs, Prune(r) PROVE KeysOf(h)'
  <2>1. /\ UNCHANGED <<file, known>> /\ contacts' \subseteq contacts
        /\ (TgKey[h] \in contacts => TgKey[h] \in contacts')
        /\ (FileKey[h] \in contacts' => FileKey[h] \in people[r])
        /\ pc[r] = "prune"
    BY <1>5, KeysDiffer DEF Prune
  <2>2. /\ \A s \in Runs \ {r} : Stays(s)
        /\ Stays(r) \/ (people'[r] = people[r] /\ pc'[r] = "release")
    <3>1. CASE Goto(r, "release") /\ UNCHANGED people
      BY <1>5, <3>1, GotoOthers DEF Prune, Stays
    <3>2. CASE End({r})
      BY <3>2 DEF End, Stays
    <3> QED
      BY <1>5, <3>1, <3>2 DEF Prune
  <2>3. CASE h \in InFile
    BY <1>0, <2>1, <2>2, <2>3 DEF KeysOf, NamedAtFirst, Stays
  <2>4. CASE h \notin InFile
    BY <1>0, <2>1, <2>2, <2>4 DEF KeysOf, NamedLater, Stays
  <2> QED
    BY <2>3, <2>4
<1>6. ASSUME NEW r \in Runs, Release(r) PROVE KeysOf(h)'
  <2>1. Calm
    BY <1>6, GotoOthers DEF Release, Stays
  <2> QED
    BY <1>1, <2>1
<1>7. ASSUME NEW r \in Runs, ReadPeople(r) PROVE KeysOf(h)'
  <2>1. /\ UNCHANGED <<file, known, contacts>> /\ pc[r] = "read" /\ pc'[r] = "check"
        /\ \A s \in Runs \ {r} : pc'[s] = pc[s] /\ people'[s] = people[s]
        /\ people'[r] \in {{}, contacts}
    BY <1>7, GotoOthers DEF ReadPeople, TypeOK, table
  <2>2. CASE h \in InFile
    BY <1>0, <2>1, <2>2 DEF KeysOf, NamedAtFirst
  <2>3. CASE h \notin InFile
    BY <1>0, <2>1, <2>3 DEF KeysOf, NamedLater
  <2> QED
    BY <2>2, <2>3
<1>8. ASSUME NEW r \in Runs, Check(r) PROVE KeysOf(h)'
  <2>1. UNCHANGED <<file, known, contacts>> /\ pc[r] = "check"
    BY <1>8 DEF Check, table
  <2>2. ASSUME Goto(r, "claim"), UNCHANGED people,
               {g \in Humans : Aliases(g, people[r]) # {}} = {}
        PROVE  KeysOf(h)'
    <3>1. TgKey[h] \notin people[r] /\ FileKey[h] \notin people[r]
      BY <2>2 DEF Aliases
    <3>2. pc'[r] = "claim" /\ \A s \in Runs \ {r} : pc'[s] = pc[s]
      BY <2>2, GotoOthers
    <3>3. CASE h \in InFile
      BY <1>0, <2>1, <2>2, <3>1, <3>2, <3>3 DEF KeysOf, NamedAtFirst
    <3>4. CASE h \notin InFile
      BY <1>0, <2>1, <2>2, <3>1, <3>2, <3>4 DEF KeysOf, NamedLater
    <3> QED
      BY <3>3, <3>4
  <2>3. ASSUME NEW g \in Humans, UNCHANGED pc,
               people' = [people EXCEPT ![r] = @ \ {TgKey[g], FileKey[g]}]
        PROVE  KeysOf(h)'
    <3>1. /\ people'[r] = people[r] \ {TgKey[g], FileKey[g]}
          /\ \A s \in Runs \ {r} : people'[s] = people[s]
      BY <2>3 DEF TypeOK
    <3>2. FileKey[h] \in people'[r] /\ TgKey[h] \in people[r] => TgKey[h] \in people'[r]
      BY <3>1, KeysDiffer
    <3>3. CASE h \in InFile
      BY <1>0, <2>1, <2>3, <3>1, <3>2, <3>3 DEF KeysOf, NamedAtFirst
    <3>4. CASE h \notin InFile
      BY <1>0, <2>1, <2>3, <3>1, <3>2, <3>4 DEF KeysOf, NamedLater
    <3> QED
      BY <3>3, <3>4
  <2> QED
    BY <1>8, <2>2, <2>3 DEF Check
<1>9. ASSUME NEW r \in Runs, Fail(r) \/ Claim(r) \/ Attempt(r) \/ Send(r) \/ MarkSent(r)
      PROVE  KeysOf(h)'
  <2>1. UNCHANGED <<file, known, contacts>>
    BY <1>9 DEF Fail, Claim, Attempt, Send, MarkSent, table
  <2>2. CASE End({r})
    BY <1>0, <2>1, <2>2, EndKeepsKeys
  <2>3. CASE ~End({r})
    <3>1. /\ people' = people
          /\ \/ pc' = pc
             \/ pc[r] # "check" /\ (Goto(r, "attempt") \/ Goto(r, "send") \/ Goto(r, "sent"))
      BY <1>9, <2>3 DEF Fail, Claim, Attempt, Send, MarkSent
    <3>2. Calm
      BY <2>1, <3>1, GotoOthers DEF Stays
    <3> QED
      BY <1>1, <3>2
  <2> QED
    BY <2>2, <2>3
<1>10. ASSUME NEW dead, Crash(dead) PROVE KeysOf(h)'
  BY <1>0, <1>10, EndKeepsKeys DEF Crash, table
<1>11. CASE EditFile
  <2>1. /\ UNCHANGED <<known, contacts, people, pc>>
        /\ h \in file' => h \in file \/ TgKey[h] \in contacts
    BY <1>11 DEF EditFile, table, run
  <2>2. CASE h \in InFile
    BY <1>0, <2>1, <2>2 DEF KeysOf, NamedAtFirst
  <2>3. CASE h \notin InFile
    BY <1>0, <2>1, <2>3 DEF KeysOf, NamedLater
  <2> QED
    BY <2>2, <2>3
<1>12. CASE Learn
  <2>1. /\ UNCHANGED <<file, contacts, people, pc>>
        /\ h \in known' => h \in known \/ h \in InTelegram
    BY <1>12 DEF Learn, table, run
  <2>2. CASE h \in InFile
    BY <1>0, <2>1, <2>2 DEF KeysOf, NamedAtFirst, NobodyChangesKey
  <2>3. CASE h \notin InFile
    BY <1>0, <2>1, <2>3 DEF KeysOf, NamedLater
  <2> QED
    BY <2>2, <2>3
<1>13. CASE Tick \/ Midnight \/ UNCHANGED vars
  <2>1. Calm
    BY <1>13 DEF Tick, Midnight, vars, table, run, Stays
  <2> QED
    BY <1>1, <2>1
<1> QED
  BY <1>2, <1>3, <1>4, <1>5, <1>6, <1>7, <1>8, <1>9, <1>10, <1>11, <1>12, <1>13
  DEF Next, Step

LEMMA KeysAlways ==
    ASSUME NobodyChangesKey PROVE Spec => []KeysInv
<1>1. Init => KeysInv
  <2> SUFFICES ASSUME Init, NEW h \in Humans PROVE KeysOf(h)
    BY DEF KeysInv
  <2>1. \A r \in Runs : people[r] = {} /\ pc[r] = "idle"
    BY DEF Init
  <2> QED
    BY <2>1 DEF Init, KeysOf, NamedAtFirst, NamedLater, NobodyChangesKey
<1> QED
  BY <1>1, KeysStep, TypeCorrect, PTL DEF Spec

\* Nobody comes to be notified under another key.
SameKeys == \A h : TheKey(h)' = TheKey(h)

LEMMA KeysAreSame ==
    ASSUME TypeOK, KeysInv, [Next]_vars
    PROVE  SameKeys
<1> SUFFICES ASSUME NEW h \in InFile PROVE TgKey[h] \in contacts' <=> TgKey[h] \in contacts
  BY DEF SameKeys, TheKey
<1>0. h \in Humans /\ NamedAtFirst(h)
  BY ConstantsAssumption DEF KeysInv, KeysOf
<1>1. ASSUME NEW r \in Runs, Store(r) PROVE TgKey[h] \in contacts' <=> TgKey[h] \in contacts
  BY <1>0, <1>1 DEF Store, NamedAtFirst
<1>2. ASSUME NEW r \in Runs, Prune(r) PROVE TgKey[h] \in contacts' <=> TgKey[h] \in contacts
  BY <1>0, <1>2, KeysDiffer DEF Prune
<1>3. ASSUME NEW r \in Runs, Step(r), ~Store(r), ~Prune(r) PROVE contacts' = contacts
  BY <1>3 DEF Step, Start, Load, Fail, Release, ReadPeople, Check, Claim, Attempt, Send,
              MarkSent, table
<1>4. ASSUME NEW dead, Crash(dead) PROVE contacts' = contacts
  BY <1>4 DEF Crash, table
<1>5. CASE EditFile \/ Learn \/ Tick \/ Midnight \/ UNCHANGED vars
  BY <1>5 DEF EditFile, Learn, Tick, Midnight, vars, table
<1> QED
  BY <1>1, <1>2, <1>3, <1>4, <1>5 DEF Next

------------------------------------------------------------------------------
\* What a run has to claim or to mark is under the keys of the people; what it has
\* claimed it marks before it mails.
ItemsOf(r) ==
    /\ \A i \in due[r] \cup claimed[r] : i[2] = TheKey(i[1])
    /\ pc[r] \notin {"claim", "attempt", "send", "sent"} => claimed[r] = {}
    /\ pc[r] = "attempt" => due[r] \subseteq claimed[r]

ItemsInv == \A r \in Runs : ItemsOf(r)

\* The run is between its claim and its mail; it has not marked the attempt yet.
Holds(r, i) == pc[r] \in {"claim", "attempt", "send"} /\ i \in claimed[r]
Attempts(r, i) == pc[r] = "claim" \/ (pc[r] = "attempt" /\ i \in due[r])

Subject(i) == <<i[1], i[3]>>

\* A notice that is never released.
Kept(n) == n # NoNotice /\ n.attempted

\* One run at most holds a notice, nobody was mailed about it, and it cannot be released
\* while it is held; whoever was mailed about has a notice that stays.
Held(r, i) ==
    /\ mailed[Subject(i)] = 0
    /\ notice[Row(i)] # NoNotice
    /\ IF Attempts(r, i) THEN notice[Row(i)].age <= MaxLag ELSE notice[Row(i)].attempted

Apart(r, s) ==
    \A i \in claimed[r], j \in claimed[s] : Holds(r, i) /\ Holds(s, j) => Row(i) # Row(j)

MailedOnce(m) == mailed[m] <= 1 /\ (mailed[m] > 0 => Kept(notice[<<TheKey(m[1]), m[2]>>]))

ClaimsInv ==
    /\ \A r \in Runs : \A i \in claimed[r] : Holds(r, i) => Held(r, i)
    /\ \A r, s \in Runs : r # s => Apart(r, s)
    /\ \A m \in Humans \X Slots : MailedOnce(m)

MailInv == ItemsInv /\ ClaimsInv

\* The row of an item is where MailedOnce looks for it.
LEMMA RowOfSubject ==
    ASSUME TypeOK, ItemsInv, NEW r \in Runs, NEW i \in due[r] \cup claimed[r]
    PROVE  /\ Subject(i) \in Humans \X Slots /\ Row(i) \in Keys \X Slots
           /\ Row(i) = <<TheKey(Subject(i)[1]), Subject(i)[2]>>
<1>1. i \in Items
  BY DEF TypeOK
<1> QED
  BY <1>1, ItemType DEF ItemsInv, ItemsOf, Subject, Row

\* Steps that claim nothing, mail nothing and release no notice that is held or stays.
Lets(r) ==
    /\ due'[r] \subseteq due[r]
    /\ \/ claimed'[r] = {} /\ pc'[r] # "attempt"
       \/ claimed'[r] = claimed[r] /\ pc'[r] = pc[r]

LEMMA QuietStep ==
    ASSUME TypeOK, SameKeys, MailInv, mailed' = mailed,
           \A r \in Runs : Lets(r),
           \A n \in Keys \X Slots : Kept(notice[n]) => Kept(notice'[n]),
           \A r \in Runs : \A i \in claimed[r] :
             Holds(r, i) /\ Attempts(r, i) /\ claimed'[r] = claimed[r] /\ pc'[r] = pc[r] =>
               /\ notice'[Row(i)] # NoNotice /\ notice'[Row(i)].age <= MaxLag
               /\ ~Attempts(r, i)' => notice'[Row(i)].attempted
    PROVE  MailInv'
<1>1. ItemsInv'
  <2> SUFFICES ASSUME NEW r \in Runs PROVE ItemsOf(r)'
    BY DEF ItemsInv
  <2>1. ItemsOf(r) /\ Lets(r)
    BY DEF MailInv, ItemsInv
  <2> QED
    BY <2>1 DEF ItemsOf, Lets, SameKeys
<1>2. ASSUME NEW r \in Runs, NEW i \in claimed'[r], Holds(r, i)'
      PROVE  claimed'[r] = claimed[r] /\ pc'[r] = pc[r] /\ Holds(r, i)
  BY <1>2 DEF Lets, Holds
<1>3. ASSUME NEW r \in Runs, NEW i \in claimed'[r], Holds(r, i)' PROVE Held(r, i)'
  <2>1. claimed'[r] = claimed[r] /\ pc'[r] = pc[r] /\ Holds(r, i) /\ Held(r, i)
    BY <1>2, <1>3 DEF MailInv, ClaimsInv
  <2>2. CASE Attempts(r, i)
    BY <2>1, <2>2 DEF Held
  <2>3. CASE ~Attempts(r, i)
    <3>1. Kept(notice[Row(i)]) /\ Row(i) \in Keys \X Slots
      BY <2>1, <2>3, RowOfSubject DEF Held, Kept, MailInv
    <3>2. ~Attempts(r, i)'
      BY <2>1, <2>3 DEF Attempts, Lets
    <3> QED
      BY <2>1, <3>1, <3>2 DEF Held, Kept
  <2> QED
    BY <2>2, <2>3
<1>4. ASSUME NEW r \in Runs, NEW s \in Runs, r # s PROVE Apart(r, s)'
  <2>1. Apart(r, s)
    BY <1>4 DEF MailInv, ClaimsInv
  <2> QED
    BY <1>2, <2>1 DEF Apart, Row
<1>5. ASSUME NEW m \in Humans \X Slots PROVE MailedOnce(m)'
  <2>1. <<TheKey(m[1]), m[2]>> \in Keys \X Slots
    BY KeyTypes DEF TheKey
  <2> QED
    BY <2>1 DEF MailInv, ClaimsInv, MailedOnce, SameKeys
<1> QED
  BY <1>1, <1>3, <1>4, <1>5 DEF MailInv, ClaimsInv

\* A step that touches no notice, and marks nothing.
LEMMA IdleStep ==
    ASSUME TypeOK, SameKeys, MailInv, UNCHANGED <<notice, mailed>>,
           \A r \in Runs : Lets(r) /\ (pc'[r] = "attempt" => due'[r] = due[r])
    PROVE  MailInv'
<1>1. ASSUME NEW r \in Runs, NEW i \in claimed[r], Holds(r, i), Attempts(r, i),
             claimed'[r] = claimed[r], pc'[r] = pc[r]
      PROVE  /\ notice'[Row(i)] # NoNotice /\ notice'[Row(i)].age <= MaxLag
             /\ Attempts(r, i)'
  BY <1>1 DEF MailInv, ClaimsInv, Held, Attempts
<1> QED
  BY <1>1, QuietStep

\* The end of runs is such a step.
LEMMA EndLets ==
    ASSUME NEW dead, End(dead), NEW r \in Runs
    PROVE  Lets(r) /\ (pc'[r] = "attempt" => due'[r] = due[r])
BY DEF End, Lets

\* So is any move of a run that holds nothing.
LEMMA MoveLets ==
    ASSUME TypeOK, MailInv, NEW r \in Runs, NEW step, Goto(r, step), step # "attempt",
           pc[r] \notin {"claim", "attempt", "send", "sent"}, UNCHANGED <<due, claimed>>
    PROVE  \A s \in Runs : Lets(s) /\ (pc'[s] = "attempt" => due'[s] = due[s])
BY GotoOthers DEF Lets, MailInv, ItemsInv, ItemsOf

\* Steps after which the same is held of the same notices.
LEMMA SameClaims ==
    ASSUME SameKeys, ClaimsInv, UNCHANGED <<notice, mailed, claimed>>,
           \A s \in Runs : \A i \in claimed[s] :
             /\ Holds(s, i)' <=> Holds(s, i)
             /\ Holds(s, i) => (Attempts(s, i)' <=> Attempts(s, i))
    PROVE  ClaimsInv'
<1>1. ASSUME NEW s \in Runs, NEW i \in claimed'[s], Holds(s, i)' PROVE Held(s, i)'
  <2>1. Held(s, i) /\ (Attempts(s, i)' <=> Attempts(s, i))
    BY <1>1 DEF ClaimsInv
  <2> QED
    BY <2>1 DEF Held, Row, Subject
<1>2. ASSUME NEW r \in Runs, NEW s \in Runs, r # s PROVE Apart(r, s)'
  BY <1>2 DEF ClaimsInv, Apart, Row
<1>3. ASSUME NEW m \in Humans \X Slots PROVE MailedOnce(m)'
  BY DEF ClaimsInv, MailedOnce, SameKeys
<1> QED
  BY <1>1, <1>2, <1>3 DEF ClaimsInv

\* A run that reads the table finds each person under one key, and notes that key.
LEMMA CheckStep ==
    ASSUME TypeOK, SameKeys, KeysInv, MailInv, NEW r \in Runs, Check(r)
    PROVE  MailInv'
<1>1. pc[r] = "check" /\ UNCHANGED <<notice, mailed, claimed>>
  BY DEF Check, table
<1>2. CASE Goto(r, "claim") /\ UNCHANGED <<people, due>>
  BY <1>1, <1>2, MoveLets, IdleStep
<1>3. ASSUME NEW h \in Humans, Aliases(h, people[r]) # {}, UNCHANGED pc,
             due' = [due EXCEPT ![r] =
                       IF Notified(h, people[r], Slot(at[r])) THEN @
                       ELSE @ \cup {<<h, KeyOf(h, people[r]), Slot(at[r])>>}]
      PROVE  MailInv'
  <2>1. KeyOf(h, people[r]) = TheKey(h)
    <3>1. IF h \in InFile THEN NamedAtFirst(h) ELSE NamedLater(h)
      BY DEF KeysInv, KeysOf
    <3>2. TgKey[h] \in people[r] \/ FileKey[h] \in people[r]
      BY <1>3 DEF Aliases
    <3>3. CASE h \in InFile
      BY <1>1, <3>1, <3>2, <3>3 DEF NamedAtFirst, KeyOf, TheKey
    <3>4. CASE h \notin InFile
      BY <1>1, <3>1, <3>2, <3>4 DEF NamedLater, KeyOf, TheKey
    <3> QED
      BY <3>3, <3>4
  <2>2. /\ \A i \in due'[r] \ due[r] : i[2] = TheKey(i[1])
        /\ \A s \in Runs \ {r} : due'[s] = due[s]
    BY <1>3, <2>1 DEF TypeOK
  <2>3. ItemsInv'
    BY <1>1, <1>3, <2>2 DEF MailInv, ItemsInv, ItemsOf, SameKeys
  <2>4. ASSUME NEW s \in Runs, NEW i \in claimed[s]
        PROVE  /\ Holds(s, i)' <=> Holds(s, i)
               /\ Holds(s, i) => (Attempts(s, i)' <=> Attempts(s, i))
    BY <1>1, <1>3, <2>2 DEF Holds, Attempts
  <2> QED
    BY <1>1, <2>3, <2>4, SameClaims DEF MailInv
<1> QED
  BY <1>2, <1>3 DEF Check

\* A claim is of a row that was free: nobody holds it, and nobody was mailed about.
LEMMA InsertStep ==
    ASSUME TypeOK, SameKeys, MailInv, NEW r \in Runs, pc[r] = "claim", NEW i \in due[r],
           Free(Row(i)), due' = [due EXCEPT ![r] = @ \ {i}],
           notice' = [notice EXCEPT ![Row(i)] = NewClaim(r)],
           claimed' = [claimed EXCEPT ![r] = @ \cup {i}],
           UNCHANGED <<pc, mailed>>
    PROVE  MailInv'
<1>1. /\ i \in Items /\ Row(i) \in Keys \X Slots /\ Subject(i) \in Humans \X Slots
      /\ Row(i) = <<TheKey(Subject(i)[1]), Subject(i)[2]>>
  BY RowOfSubject DEF TypeOK, MailInv
<1>2. /\ notice'[Row(i)] = NewClaim(r) /\ NewClaim(r) # NoNotice /\ lag[r] \in 0..MaxLag
      /\ \A n \in (Keys \X Slots) \ {Row(i)} : notice'[n] = notice[n]
      /\ notice[Row(i)] = NoNotice
  BY <1>1, NoticeTypes, NoNoticeAssumption DEF TypeOK, Free
<1>3. /\ due'[r] = due[r] \ {i} /\ claimed'[r] = claimed[r] \cup {i}
      /\ \A s \in Runs \ {r} : due'[s] = due[s] /\ claimed'[s] = claimed[s]
  BY DEF TypeOK
<1>4. ItemsInv'
  BY <1>3 DEF MailInv, ItemsInv, ItemsOf, SameKeys
<1>5. ASSUME NEW s \in Runs, NEW j \in claimed[s], Holds(s, j)
      PROVE  Held(s, j) /\ Row(j) # Row(i) /\ Row(j) \in Keys \X Slots
  BY <1>2, <1>5, RowOfSubject DEF MailInv, ClaimsInv, Held
<1>6. mailed[Subject(i)] = 0
  <2>1. MailedOnce(Subject(i)) /\ mailed[Subject(i)] \in 0..2
    BY <1>1 DEF MailInv, ClaimsInv, TypeOK
  <2> QED
    BY <1>1, <1>2, <2>1 DEF MailedOnce, Kept
<1>7. ASSUME NEW s \in Runs, NEW j \in claimed'[s], Holds(s, j)' PROVE Held(s, j)'
  <2>1. CASE s = r /\ j = i
    <3>1. Attempts(r, i)' /\ notice'[Row(i)].age <= MaxLag
      BY <1>2 DEF Attempts, NewClaim
    <3> QED
      BY <1>2, <1>6, <2>1, <3>1 DEF Held, Subject, Row
  <2>2. CASE ~(s = r /\ j = i)
    <3>1. j \in claimed[s] /\ Holds(s, j)
      BY <1>3, <1>7, <2>2 DEF Holds
    <3>2. Held(s, j) /\ notice'[Row(j)] = notice[Row(j)]
      BY <1>2, <1>5, <3>1
    <3>3. Attempts(s, j)' <=> Attempts(s, j)
      BY <1>3 DEF Attempts
    <3> QED
      BY <3>2, <3>3 DEF Held, Subject, Row
  <2> QED
    BY <2>1, <2>2
<1>8. ASSUME NEW s \in Runs, NEW t \in Runs, s # t PROVE Apart(s, t)'
  <2>1. Apart(s, t)
    BY <1>8 DEF MailInv, ClaimsInv
  <2>2. \A u \in Runs : \A j \in claimed'[u] : Holds(u, j)' =>
           (u = r /\ j = i) \/ (j \in claimed[u] /\ Holds(u, j) /\ Row(j) # Row(i))
    BY <1>3, <1>5 DEF Holds
  <2> QED
    BY <1>8, <2>1, <2>2 DEF Apart, Row
<1>9. ASSUME NEW m \in Humans \X Slots PROVE MailedOnce(m)'
  <2>1. MailedOnce(m) /\ <<TheKey(m[1]), m[2]>> \in Keys \X Slots
    BY KeyTypes DEF TheKey, MailInv, ClaimsInv
  <2>2. CASE mailed[m] > 0
    <3>1. <<TheKey(m[1]), m[2]>> # Row(i)
      BY <1>2, <2>1, <2>2 DEF MailedOnce, Kept
    <3> QED
      BY <1>2, <2>1, <3>1 DEF MailedOnce, SameKeys
  <2> QED
    BY <2>1, <2>2 DEF MailedOnce
<1> QED
  BY <1>4, <1>7, <1>8, <1>9 DEF MailInv, ClaimsInv

LEMMA ClaimStep ==
    ASSUME TypeOK, SameKeys, MailInv, NEW r \in Runs, Claim(r)
    PROVE  MailInv'
<1>1. pc[r] = "claim" /\ mailed' = mailed
  BY DEF Claim
<1>2. ASSUME NEW i \in due[r], due' = [due EXCEPT ![r] = @ \ {i}],
             IF Free(<<i[2], i[3]>>)
               THEN /\ notice' = [notice EXCEPT ![<<i[2], i[3]>>] = NewClaim(r)]
                    /\ claimed' = [claimed EXCEPT ![r] = @ \cup {i}]
               ELSE UNCHANGED <<notice, claimed>>,
             UNCHANGED pc
      PROVE  MailInv'
  <2>1. CASE Free(Row(i))
    BY <1>1, <1>2, <2>1, InsertStep DEF Row
  <2>2. CASE ~Free(Row(i))
    <3>1. \A s \in Runs : Lets(s) /\ (pc'[s] = "attempt" => due'[s] = due[s])
      BY <1>1, <1>2, <2>2 DEF TypeOK, Lets, Row
    <3> QED
      BY <1>1, <1>2, <2>2, <3>1, IdleStep DEF Row
  <2> QED
    BY <2>1, <2>2
<1>3. CASE /\ Goto(r, "attempt") /\ due' = [due EXCEPT ![r] = claimed[r]]
           /\ UNCHANGED <<notice, claimed>>
  <2>1. /\ pc'[r] = "attempt" /\ due'[r] = claimed[r]
        /\ \A s \in Runs \ {r} : pc'[s] = pc[s] /\ due'[s] = due[s]
    BY <1>3, GotoOthers DEF TypeOK
  <2>2. ItemsInv'
    BY <1>1, <1>3, <2>1 DEF MailInv, ItemsInv, ItemsOf, SameKeys
  <2>3. ASSUME NEW s \in Runs, NEW i \in claimed[s]
        PROVE  /\ Holds(s, i)' <=> Holds(s, i)
               /\ Holds(s, i) => (Attempts(s, i)' <=> Attempts(s, i))
    BY <1>1, <1>3, <2>1 DEF Holds, Attempts
  <2> QED
    BY <1>1, <1>3, <2>2, <2>3, SameClaims DEF MailInv
<1>4. CASE End({r}) /\ UNCHANGED notice
  BY <1>1, <1>4, EndLets, IdleStep
<1> QED
  BY <1>2, <1>3, <1>4 DEF Claim

\* An update keeps the age of a notice, and what it has marked.
LEMMA MarkKeeps ==
    ASSUME TypeOK, NEW r \in Runs, NEW i \in due[r], NEW op \in {"attempted", "delivered"},
           Mark(r, i, IF op = "attempted" THEN Attempted(notice[Row(i)])
                      ELSE Delivered(notice[Row(i)])),
           NEW n \in Keys \X Slots, notice[n] # NoNotice
    PROVE  /\ notice'[n] # NoNotice /\ notice'[n].age = notice[n].age
           /\ notice[n].attempted => notice'[n].attempted
           /\ n = Row(i) /\ op = "attempted" => notice'[n].attempted
<1>1. Row(i) \in Keys \X Slots /\ notice[n] \in Notices
  BY ItemType DEF TypeOK
<1>2. CASE n = Row(i)
  <2>1. notice'[n] = IF op = "attempted" THEN Attempted(notice[n]) ELSE Delivered(notice[n])
    BY <1>1, <1>2 DEF Mark, TypeOK
  <2>2. notice'[n] \in Notices
    BY <1>1, <2>1, NoticeTypes
  <2>3. notice'[n] # NoNotice
    BY <2>2, NoNoticeAssumption
  <2>4. CASE op = "attempted"
    BY <2>1, <2>3, <2>4 DEF Attempted
  <2>5. CASE op = "delivered"
    BY <2>1, <2>3, <2>5 DEF Delivered
  <2> QED
    BY <2>4, <2>5
<1>3. CASE n # Row(i)
  <2>1. notice'[n] = notice[n]
    BY <1>1, <1>3 DEF Mark, TypeOK
  <2> QED
    BY <1>3, <2>1
<1> QED
  BY <1>2, <1>3

LEMMA AttemptStep ==
    ASSUME TypeOK, SameKeys, MailInv, NEW r \in Runs, Attempt(r)
    PROVE  MailInv'
<1>1. pc[r] = "attempt" /\ UNCHANGED <<mailed, claimed>>
  BY DEF Attempt
<1>2. ASSUME NEW i \in due[r], Mark(r, i, Attempted(notice[Row(i)])), UNCHANGED pc
      PROVE  MailInv'
  <2>1. /\ due'[r] = due[r] \ {i}
        /\ \A s \in Runs \ {r} : due'[s] = due[s]
    BY <1>2 DEF Mark, TypeOK
  <2>2. \A n \in Keys \X Slots : notice[n] # NoNotice =>
          /\ notice'[n] # NoNotice /\ notice'[n].age = notice[n].age
          /\ notice[n].attempted => notice'[n].attempted
          /\ n = Row(i) => notice'[n].attempted
    BY <1>2, MarkKeeps
  <2>3. \A s \in Runs : Lets(s)
    BY <1>1, <1>2, <2>1 DEF Lets
  <2>4. \A n \in Keys \X Slots : Kept(notice[n]) => Kept(notice'[n])
    BY <2>2 DEF Kept
  <2>5. ASSUME NEW s \in Runs, NEW j \in claimed[s], Holds(s, j), Attempts(s, j)
        PROVE  /\ notice'[Row(j)] # NoNotice /\ notice'[Row(j)].age <= MaxLag
               /\ ~Attempts(s, j)' => notice'[Row(j)].attempted
    <3>1. Row(j) \in Keys \X Slots /\ notice[Row(j)] # NoNotice /\ notice[Row(j)].age <= MaxLag
      BY <2>5, RowOfSubject DEF MailInv, ClaimsInv, Held
    <3>2. ~Attempts(s, j)' => j = i
      BY <1>2, <2>1, <2>5 DEF Attempts
    <3> QED
      BY <2>2, <3>1, <3>2
  <2> QED
    BY <1>1, <2>3, <2>4, <2>5, QuietStep
<1>3. CASE due[r] = {} /\ Goto(r, "send") /\ UNCHANGED <<due, notice>>
  <2>1. pc'[r] = "send" /\ \A s \in Runs \ {r} : pc'[s] = pc[s]
    BY <1>3, GotoOthers
  <2>2. ItemsInv'
    BY <1>1, <1>3, <2>1 DEF MailInv, ItemsInv, ItemsOf, SameKeys
  <2>3. ASSUME NEW s \in Runs, NEW i \in claimed[s]
        PROVE  /\ Holds(s, i)' <=> Holds(s, i)
               /\ Holds(s, i) => (Attempts(s, i)' <=> Attempts(s, i))
    BY <1>1, <1>3, <2>1 DEF Holds, Attempts
  <2> QED
    BY <1>1, <1>3, <2>2, <2>3, SameClaims DEF MailInv
<1> QED
  BY <1>2, <1>3 DEF Attempt

\* Nobody whom the mail is about was mailed about before, and nobody else is about to
\* mail about them.
LEMMA SendStep ==
    ASSUME TypeOK, SameKeys, MailInv, NEW r \in Runs, Send(r)
    PROVE  MailInv'
<1>1. pc[r] = "send" /\ UNCHANGED notice
  BY DEF Send, table
<1>2. /\ pc'[r] \notin {"claim", "attempt", "send"}
      /\ \A s \in Runs \ {r} :
           pc'[s] = pc[s] /\ due'[s] = due[s] /\ claimed'[s] = claimed[s]
      /\ \/ pc'[r] = "sent" /\ claimed'[r] = claimed[r] /\ due'[r] = claimed[r]
         \/ claimed'[r] = {} /\ due'[r] = {}
  <2>1. CASE Goto(r, "sent") /\ due' = [due EXCEPT ![r] = claimed[r]] /\ UNCHANGED claimed
    BY <2>1, GotoOthers DEF TypeOK
  <2>2. CASE End({r})
    BY <2>2 DEF End
  <2> QED
    BY <2>1, <2>2 DEF Send
<1>3. ItemsInv'
  <2> SUFFICES ASSUME NEW s \in Runs PROVE ItemsOf(s)'
    BY DEF ItemsInv
  <2>1. ItemsOf(s)
    BY DEF MailInv, ItemsInv
  <2> QED
    BY <1>1, <1>2, <2>1 DEF ItemsOf, SameKeys
<1>4. CASE UNCHANGED mailed
  <2>1. \A s \in Runs : \A i \in claimed'[s] : Holds(s, i)' =>
           i \in claimed[s] /\ Holds(s, i) /\ (Attempts(s, i)' <=> Attempts(s, i))
    BY <1>2 DEF Holds, Attempts
  <2>2. ASSUME NEW s \in Runs, NEW i \in claimed'[s], Holds(s, i)' PROVE Held(s, i)'
    <3>1. Held(s, i) /\ (Attempts(s, i)' <=> Attempts(s, i))
      BY <2>1, <2>2 DEF MailInv, ClaimsInv
    <3> QED
      BY <1>1, <1>4, <3>1 DEF Held, Row, Subject
  <2>3. ASSUME NEW s \in Runs, NEW t \in Runs, s # t PROVE Apart(s, t)'
    BY <2>1, <2>3 DEF MailInv, ClaimsInv, Apart, Row
  <2>4. ASSUME NEW m \in Humans \X Slots PROVE MailedOnce(m)'
    BY <1>1, <1>4 DEF MailInv, ClaimsInv, MailedOnce, SameKeys
  <2> QED
    BY <1>3, <2>2, <2>3, <2>4 DEF MailInv, ClaimsInv
<1>5. CASE Mail(r)
  <2> DEFINE about == {Subject(i) : i \in claimed[r]}
  <2>1. \A m \in Humans \X Slots :
           mailed'[m] = IF m \in about THEN Smaller(mailed[m] + 1, 2) ELSE mailed[m]
    BY <1>5 DEF Mail, Subject
  <2>2. \A i \in claimed[r] : Holds(r, i) /\ Held(r, i) /\ Kept(notice[Row(i)])
    BY <1>1 DEF Holds, Held, Attempts, Kept, MailInv, ClaimsInv
  <2>3. \A s \in Runs : \A i \in claimed'[s] : Holds(s, i)' =>
           s # r /\ i \in claimed[s] /\ Holds(s, i) /\ (Attempts(s, i)' <=> Attempts(s, i))
    BY <1>2 DEF Holds, Attempts
  <2>4. ASSUME NEW s \in Runs, NEW i \in claimed'[s], Holds(s, i)' PROVE Held(s, i)'
    <3>1. s # r /\ i \in claimed[s] /\ Holds(s, i) /\ Held(s, i)
          /\ (Attempts(s, i)' <=> Attempts(s, i))
      BY <2>3, <2>4 DEF MailInv, ClaimsInv
    <3>2. Subject(i) \notin about
      <4> SUFFICES ASSUME NEW j \in claimed[r], Subject(i) = Subject(j) PROVE FALSE
        OBVIOUS
      <4>1. Row(i) = Row(j)
        BY <3>1, RowOfSubject DEF MailInv
      <4> QED
        BY <2>2, <3>1, <4>1 DEF MailInv, ClaimsInv, Apart
    <3>3. mailed'[Subject(i)] = mailed[Subject(i)]
      BY <2>1, <3>1, <3>2, RowOfSubject DEF MailInv
    <3> QED
      BY <1>1, <3>1, <3>3 DEF Held, Row, Subject
  <2>5. ASSUME NEW s \in Runs, NEW t \in Runs, s # t PROVE Apart(s, t)'
    BY <2>3, <2>5 DEF MailInv, ClaimsInv, Apart, Row
  <2>6. ASSUME NEW m \in Humans \X Slots PROVE MailedOnce(m)'
    <3>1. MailedOnce(m)
      BY DEF MailInv, ClaimsInv
    <3>2. CASE m \in about
      <4>1. PICK i \in claimed[r] : m = Subject(i)
        BY <3>2
      <4>2. mailed[m] = 0 /\ Kept(notice[<<TheKey(m[1]), m[2]>>])
        BY <2>2, <4>1, RowOfSubject DEF Held, MailInv
      <4>3. mailed'[m] = 1
        BY <2>1, <3>2, <4>2 DEF Smaller
      <4> QED
        BY <1>1, <4>2, <4>3 DEF MailedOnce, SameKeys
    <3>3. CASE m \notin about
      BY <1>1, <2>1, <3>1, <3>3 DEF MailedOnce, SameKeys
    <3> QED
      BY <3>2, <3>3
  <2> QED
    BY <1>3, <2>4, <2>5, <2>6 DEF MailInv, ClaimsInv
<1> QED
  BY <1>4, <1>5 DEF Send

LEMMA MarkSentStep ==
    ASSUME TypeOK, SameKeys, MailInv, NEW r \in Runs, MarkSent(r)
    PROVE  MailInv'
<1>1. pc[r] = "sent" /\ UNCHANGED mailed
  BY DEF MarkSent
<1>2. ASSUME NEW i \in due[r], Mark(r, i, Delivered(notice[Row(i)])),
             UNCHANGED <<pc, claimed>>
      PROVE  MailInv'
  <2>1. /\ due'[r] = due[r] \ {i}
        /\ \A s \in Runs \ {r} : due'[s] = due[s]
    BY <1>2 DEF Mark, TypeOK
  <2>2. \A n \in Keys \X Slots : notice[n] # NoNotice =>
          /\ notice'[n] # NoNotice /\ notice'[n].age = notice[n].age
          /\ notice[n].attempted => notice'[n].attempted
    BY <1>2, MarkKeeps
  <2>3. \A s \in Runs : Lets(s)
    BY <1>1, <1>2, <2>1 DEF Lets
  <2>4. \A n \in Keys \X Slots : Kept(notice[n]) => Kept(notice'[n])
    BY <2>2 DEF Kept
  <2>5. ASSUME NEW s \in Runs, NEW j \in claimed[s], Holds(s, j), Attempts(s, j)
        PROVE  /\ notice'[Row(j)] # NoNotice /\ notice'[Row(j)].age <= MaxLag
               /\ Attempts(s, j)'
    <3>1. Row(j) \in Keys \X Slots /\ notice[Row(j)] # NoNotice /\ notice[Row(j)].age <= MaxLag
      BY <2>5, RowOfSubject DEF MailInv, ClaimsInv, Held
    <3>2. Attempts(s, j)'
      BY <1>1, <1>2, <2>1, <2>5 DEF Attempts
    <3> QED
      BY <2>2, <3>1, <3>2
  <2> QED
    BY <1>1, <2>3, <2>4, <2>5, QuietStep
<1>3. CASE End({r}) /\ UNCHANGED notice
  BY <1>1, <1>3, EndLets, IdleStep
<1> QED
  BY <1>2, <1>3 DEF MarkSent

\* What is held and not marked yet is younger than the claims that are released.
LEMMA ReleaseStep ==
    ASSUME MaxLag < StaleAfter, TypeOK, SameKeys, MailInv, NEW r \in Runs, Release(r)
    PROVE  MailInv'
<1>1. Goto(r, "read") /\ pc[r] = "release" /\ UNCHANGED <<due, claimed, mailed>>
  BY DEF Release
<1>2. \A s \in Runs : Lets(s)
  BY <1>1, MoveLets
<1>3. /\ lag[r] \in 0..MaxLag /\ MaxLag \in Nat /\ StaleAfter \in Nat
      /\ \A n \in Keys \X Slots : notice[n] # NoNotice =>
           notice[n].age \in Int /\ notice[n].attempted \in BOOLEAN
  BY ConstantsAssumption DEF TypeOK, Notices, Oldest
<1>4. \A n \in Keys \X Slots :
         notice'[n] = IF Releasable(notice[n], lag[r]) THEN NoNotice ELSE notice[n]
  BY DEF Release
<1>5. \A n \in Keys \X Slots :
         Kept(notice[n]) \/ (notice[n] # NoNotice /\ notice[n].age <= MaxLag) =>
         notice'[n] = notice[n]
  BY <1>3, <1>4 DEF Kept, Releasable
<1>6. ASSUME NEW s \in Runs, NEW j \in claimed[s], Holds(s, j), Attempts(s, j),
             pc'[s] = pc[s]
      PROVE  /\ notice'[Row(j)] # NoNotice /\ notice'[Row(j)].age <= MaxLag
             /\ Attempts(s, j)'
  <2>1. Row(j) \in Keys \X Slots /\ notice[Row(j)] # NoNotice /\ notice[Row(j)].age <= MaxLag
    BY <1>6, RowOfSubject DEF MailInv, ClaimsInv, Held
  <2> QED
    BY <1>1, <1>5, <1>6, <2>1 DEF Attempts
<1>7. \A n \in Keys \X Slots : Kept(notice[n]) => Kept(notice'[n])
  BY <1>5
<1> QED
  BY <1>1, <1>2, <1>6, <1>7, QuietStep

\* Nobody who holds what is not marked lets time pass.
LEMMA TickStep ==
    ASSUME TypeOK, SameKeys, MailInv, Tick
    PROVE  MailInv'
<1>1. /\ UNCHANGED <<pc, due, claimed, mailed>>
      /\ \A s \in Runs : pc[s] \notin {"claim", "attempt"}
  BY DEF Tick
<1>2. \A n \in Keys \X Slots : Kept(notice[n]) => Kept(notice'[n])
  <2> SUFFICES ASSUME NEW n \in Keys \X Slots, Kept(notice[n]) PROVE Kept(notice'[n])
    OBVIOUS
  <2>1. notice[n] \in Notices
    BY DEF Kept, TypeOK
  <2>2. notice'[n] = [notice[n] EXCEPT !.age = Smaller(@ + 1, Oldest)]
    BY DEF Tick, Kept
  <2>3. notice'[n] \in Notices /\ notice'[n].attempted
    <3>1. Oldest \in Nat
      BY ConstantsAssumption DEF Oldest
    <3> QED
      BY <2>1, <2>2, <3>1 DEF Notices, Smaller, Kept
  <2> QED
    BY <2>3, NoNoticeAssumption DEF Kept
<1>3. \A s \in Runs : Lets(s)
  BY <1>1 DEF Lets
<1>4. \A s \in Runs : \A j \in claimed[s] : ~Attempts(s, j)
  BY <1>1 DEF Attempts
<1> QED
  BY <1>1, <1>2, <1>3, <1>4, QuietStep

LEMMA MailStep ==
    ASSUME MaxLag < StaleAfter, TypeOK, SameKeys, KeysInv, MailInv, [Next]_vars
    PROVE  MailInv'
<1>1. ASSUME NEW r \in Runs,
             Start(r) \/ Load(r) \/ Store(r) \/ Fail(r) \/ Prune(r) \/ ReadPeople(r)
      PROVE  MailInv'
  <2>1. UNCHANGED <<notice, mailed>>
    BY <1>1 DEF Start, Load, Store, Fail, Prune, ReadPeople, table
  <2>2. CASE End({r})
    BY <2>1, <2>2, EndLets, IdleStep
  <2>3. CASE ~End({r})
    <3>1. /\ UNCHANGED <<due, claimed>>
          /\ \/ UNCHANGED pc
             \/ /\ pc[r] \notin {"claim", "attempt", "send", "sent"}
                /\ \E step \in Steps \ {"attempt"} : Goto(r, step)
      BY <1>1, <2>3 DEF Start, Load, Store, Fail, Prune, ReadPeople, Steps
    <3>2. \A s \in Runs : Lets(s) /\ (pc'[s] = "attempt" => due'[s] = due[s])
      <4>1. CASE UNCHANGED pc
        BY <3>1, <4>1 DEF Lets
      <4>2. CASE ~UNCHANGED pc
        BY <3>1, <4>2, MoveLets
      <4> QED
        BY <4>1, <4>2
    <3> QED
      BY <2>1, <3>2, IdleStep
  <2> QED
    BY <2>2, <2>3
<1>2. ASSUME NEW r \in Runs,
             Release(r) \/ Check(r) \/ Claim(r) \/ Attempt(r) \/ Send(r) \/ MarkSent(r)
      PROVE  MailInv'
  BY <1>2, ReleaseStep, CheckStep, ClaimStep, AttemptStep, SendStep, MarkSentStep
<1>3. ASSUME NEW dead, Crash(dead) PROVE MailInv'
  BY <1>3, EndLets, IdleStep DEF Crash, table
<1>4. CASE Tick
  BY <1>4, TickStep
<1>5. CASE EditFile \/ Learn \/ Midnight \/ UNCHANGED vars
  <2>1. UNCHANGED <<notice, mailed, pc, due, claimed>>
    BY <1>5 DEF EditFile, Learn, Midnight, vars, table, run
  <2>2. \A s \in Runs : Lets(s)
    BY <2>1 DEF Lets
  <2> QED
    BY <2>1, <2>2, IdleStep
<1> QED
  BY <1>1, <1>2, <1>3, <1>4, <1>5 DEF Next, Step

\* One e-mail about a birthday and its eve, however the daily job, the poll and any number
\* of commands overlap, fail, die and are started again: the claim is one insert under
\* the key of the person (claim_birthday_notification), and what was attempted is never
\* released (release_stale_birthday_notification_claims).  Nobody
\* is both in the file from the start and in Telegram, and a run waits for Telegram less
\* long than a claim is valid.
THEOREM OneMailEach ==
    ASSUME NobodyChangesKey, MaxLag < StaleAfter
    PROVE  Spec => []OneMail
<1>1. Init => MailInv
  <2> SUFFICES ASSUME Init PROVE MailInv
    OBVIOUS
  <2>1. \A r \in Runs : due[r] = {} /\ claimed[r] = {}
    BY DEF Init
  <2>2. \A m \in Humans \X Slots : mailed[m] = 0
    BY DEF Init
  <2> QED
    BY <2>1, <2>2 DEF MailInv, ItemsInv, ItemsOf, ClaimsInv, Apart, MailedOnce
<1>2. TypeOK /\ KeysInv /\ MailInv /\ [Next]_vars => MailInv'
  BY MailStep, KeysAreSame
<1>3. MailInv => OneMail
  BY DEF MailInv, ClaimsInv, MailedOnce, OneMail
<1> QED
  BY <1>1, <1>2, <1>3, TypeCorrect, KeysAlways, PTL DEF Spec

------------------------------------------------------------------------------

\* A page holds rows of the feed and leads to one of its positions.
LEMMA FeedType ==
    ASSUME NotifierTypeOK, NEW after \in Cursors
    PROVE  /\ Feed(after) \in Pages
           /\ Feed(after).cursor <= raised
           /\ after = None => Feed(after).cursor = raised
           /\ after # None /\ after <= raised => after <= Feed(after).cursor
           /\ Feed(after).rows \subseteq 1..raised
<1>1. raised \in 0..MaxEvents /\ MaxEvents \in Nat /\ PageSize \in Nat \ {0}
  BY NotifierAssumption DEF NotifierTypeOK
<1>2. CASE after = None \/ after > raised
  <2>1. Feed(after) = [rows |-> {}, cursor |-> raised]
    BY <1>2 DEF Feed
  <2> QED
    BY <1>1, <1>2, <2>1 DEF Pages
<1>3. CASE ~(after = None \/ after > raised)
  <2> DEFINE last == Lesser(after + PageSize, raised)
  <2>1. Feed(after) =
          [rows |-> {e \in (after + 1)..last : Visible(e)}, cursor |-> last]
    BY <1>3 DEF Feed
  <2>2. after \in 0..MaxEvents /\ after <= raised
    BY <1>1, <1>3 DEF Cursors
  <2>3. last \in 0..MaxEvents /\ after <= last /\ last <= raised
    BY <1>1, <2>2 DEF Lesser
  <2> HIDE DEF last
  <2>4. {e \in (after + 1)..last : Visible(e)} \subseteq 1..raised
    BY <1>1, <2>2, <2>3
  <2>5. {e \in (after + 1)..last : Visible(e)} \subseteq Events
    BY <1>1, <2>4 DEF Events
  <2> QED
    BY <1>3, <2>1, <2>2, <2>3, <2>4, <2>5 DEF Pages
<1> QED
  BY <1>2, <1>3

LEMMA StatesType ==
    /\ \A s \in States : /\ s.enabled \in BOOLEAN /\ s.bootstrap \in BOOLEAN
                         /\ s.cursor \in Cursors /\ s.mute \in Nat \cup {None}
    /\ \A s \in States, c \in 0..MaxEvents : Advanced(s, c) \in States
BY DEF States, Advanced, Cursors

LEMMA FlightType ==
    ASSUME NotifierTypeOK, flight # None
    PROVE  /\ flight.after \in Cursors /\ flight.valid \in BOOLEAN
           /\ flight.page \in Pages \cup {None}
           /\ flight.page # None => flight.page.rows \subseteq Events
                                    /\ flight.page.cursor \in 0..MaxEvents
BY DEF NotifierTypeOK, Flights, Pages

LEMMA ConsumedType ==
    ASSUME NEW page
    PROVE  Consumed(page) \subseteq News(page) /\ News(page) \subseteq page.rows
BY DEF Consumed, News

\* What a step of the bridge saves is a state.
LEMMA SetType ==
    ASSUME NotifierTypeOK, NEW s \in States, Set(s)
    PROVE  /\ state' \in States /\ disk' \in States
           /\ flight' \in Flights \cup {None}
           /\ toggles' \in 0..MaxToggles
           /\ UNCHANGED <<now, feed, queue, shown, silent>>
<1>1. state' \in States /\ disk' \in States
      /\ UNCHANGED <<now, feed, queue, shown, silent>>
  BY DEF Set
<1>2. flight' \in Flights \cup {None}
  BY DEF Set, NotifierTypeOK, Flights
<1>3. toggles' \in 0..MaxToggles
  BY NotifierAssumption DEF Set, NotifierTypeOK
<1> QED
  BY <1>1, <1>2, <1>3

\* A step of the switch saves, or tries to save, one of these.
LEMMA SwitchStates ==
    ASSUME NotifierTypeOK
    PROVE  /\ On \in States /\ Off \in States
           /\ \A d \in Snoozes : Snoozed(d) \in States
<1>1. /\ state.enabled \in BOOLEAN /\ state.bootstrap \in BOOLEAN
      /\ state.cursor \in Cursors /\ state.mute \in Nat \cup {None}
      /\ now \in Nat
  BY StatesType, NotifierAssumption DEF NotifierTypeOK, Times
<1>2. \A d \in Snoozes : now + d \in Nat
  BY <1>1, NotifierAssumption
<1> QED
  BY <1>1, <1>2 DEF On, Off, Snoozed, States

LEMMA SetFailsType ==
    ASSUME NotifierTypeOK, NEW s \in States, SetFails(s)
    PROVE  NotifierTypeOK'
<1>1. toggles' \in 0..MaxToggles
  BY NotifierAssumption DEF SetFails, NotifierTypeOK
<1>2. disk' \in States
  BY DEF SetFails, NotifierTypeOK
<1> QED
  BY <1>1, <1>2 DEF SetFails, NotifierTypeOK, feed

LEMMA BannerTypeStep ==
    ASSUME NotifierTypeOK, [NotifierNext]_notifierVars
    PROVE  NotifierTypeOK'
<1>0. /\ MaxEvents \in Nat /\ MaxTime \in Nat /\ MaxToggles \in Nat /\ Skew \in Nat
      /\ ConversationOf \in [Events -> Conversations]
  BY NotifierAssumption
<1>1. CASE Raise
  <2>1. raised + 1 \in Events
    BY <1>0, <1>1 DEF Raise, Events, NotifierTypeOK
  <2>2. created' \in [Events -> 0..MaxTime + Skew]
    BY <1>0, <1>1, <2>1 DEF Raise, NotifierTypeOK, Times
  <2>3. seen' \in [Conversations -> 0..MaxEvents]
    BY <1>0, <1>1, <2>1 DEF Raise, NotifierTypeOK, Events
  <2>4. suppressed' \subseteq Events /\ silent' \subseteq Events
    BY <1>1, <2>1 DEF Raise, NotifierTypeOK
  <2>5. raised' \in 0..MaxEvents
    BY <2>1, <1>0, <1>1 DEF Raise, NotifierTypeOK, Events
  <2>6. closed' \subseteq Conversations
    BY <1>1 DEF Raise, NotifierTypeOK
  <2> QED
    BY <1>1, <2>2, <2>3, <2>4, <2>5, <2>6 DEF Raise, NotifierTypeOK, app
<1>2. ASSUME NEW c \in Conversations, Open(c) PROVE NotifierTypeOK'
  BY <1>0, <1>2 DEF Open, Rows, NotifierTypeOK, app, past
<1>3. ASSUME NEW c \in Conversations, Close(c) PROVE NotifierTypeOK'
  BY <1>3 DEF Close, NotifierTypeOK, app, past
<1>4. ASSUME NEW c \in Conversations, Told(c) PROVE NotifierTypeOK'
  BY <1>4 DEF Told, NotifierTypeOK, NoBanner, feed
<1>5. CASE PollFeed
  BY <1>5, StatesType DEF PollFeed, NotifierTypeOK, feed, past, Flights, Cursors
<1>6. CASE Answer
  <2>1. flight' \in Flights
    BY <1>6, FeedType, FlightType DEF Answer, Flights
  <2> QED
    BY <1>6, <2>1 DEF Answer, NotifierTypeOK, feed, past
<1>7. CASE Lose \/ Discard
  BY <1>7 DEF Lose, Discard, NotifierTypeOK, feed, past
<1>8. CASE Consume
  <2>1. queue' \subseteq Events /\ state' \in States
    BY <1>8, FlightType, StatesType, ConsumedType DEF Consume, Arrived, NotifierTypeOK
  <2> QED
    BY <1>8, <2>1 DEF Consume, NotifierTypeOK, feed, past
<1>9. CASE ConsumeFails
  <2>1. disk' \in States
    BY <1>9, FlightType, StatesType DEF ConsumeFails, Arrived, NotifierTypeOK
  <2> QED
    BY <1>9, <2>1 DEF ConsumeFails, NotifierTypeOK, feed, past
<1>10. ASSUME NEW e \in Events, Submit(e) PROVE NotifierTypeOK'
  <2>1. /\ banner' \in [Conversations -> Events \cup {None}]
        /\ shown' \in [Events -> 0..2]
    BY <1>0, <1>10 DEF Submit, NotifierTypeOK
  <2> QED
    BY <1>10, <2>1 DEF Submit, NotifierTypeOK, feed
<1>11. CASE Enable
  <2>1. CASE Set(On) /\ UNCHANGED banner
    BY <2>1, SwitchStates, SetType DEF NotifierTypeOK, feed
  <2>2. CASE SetFails(On)
    BY <2>2, SwitchStates, SetFailsType
  <2> QED
    BY <1>11, <2>1, <2>2 DEF Enable
<1>12. CASE Disable
  <2>1. CASE Set(Off) /\ banner' = NoBanner
    BY <2>1, SwitchStates, SetType DEF NoBanner, NotifierTypeOK, feed
  <2>2. CASE SetFails(Off)
    BY <2>2, SwitchStates, SetFailsType
  <2> QED
    BY <1>12, <2>1, <2>2 DEF Disable
<1>13. CASE Snooze
  <2>1. PICK d \in Snoozes : (Set(Snoozed(d)) /\ UNCHANGED banner) \/ SetFails(Snoozed(d))
    BY <1>13 DEF Snooze
  <2>2. CASE Set(Snoozed(d)) /\ UNCHANGED banner
    BY <2>2, SwitchStates, SetType DEF NotifierTypeOK, feed
  <2>3. CASE SetFails(Snoozed(d))
    BY <2>3, SwitchStates, SetFailsType
  <2> QED
    BY <2>1, <2>2, <2>3
<1>14. CASE Restart
  BY <1>14 DEF Restart, NotifierTypeOK, feed, past
<1>15. CASE ClockTick
  BY <1>0, <1>15 DEF ClockTick, NotifierTypeOK, Times, feed, app, past
<1>16. CASE UNCHANGED notifierVars
  BY <1>16 DEF notifierVars, NotifierTypeOK, feed, app, past
<1> QED
  BY <1>1, <1>2, <1>3, <1>4, <1>5, <1>6, <1>7, <1>8, <1>9, <1>10, <1>11, <1>12, <1>13,
     <1>14, <1>15, <1>16 DEF NotifierNext

\* The state in memory, its file, the page on its way and the feed keep their types
\* (tools/macos/notifier, store.notifications).
THEOREM BannerTypeCorrect == NotifierSpec => []NotifierTypeOK
<1>1. NotifierInit => NotifierTypeOK
  BY NotifierAssumption
     DEF NotifierInit, NotifierTypeOK, Times, Fresh0, States, Cursors, NoBanner
<1>2. NotifierTypeOK /\ [NotifierNext]_notifierVars => NotifierTypeOK'
  BY BannerTypeStep
<1> QED
  BY <1>1, <1>2, PTL DEF NotifierSpec

------------------------------------------------------------------------------
\* The row is behind the cursor.
Behind(s, e) == s.cursor # None /\ e <= s.cursor

\* A cursor is a position of the feed.
Positions ==
    \A s \in {state, disk} : IF s.cursor = None THEN s.bootstrap ELSE s.cursor <= raised

\* A row that is shown or to be submitted is behind the cursor, in memory and on disk,
\* and is submitted once.
NeverAgain ==
    \A e \in Events :
      /\ shown[e] > 0 \/ e \in queue => Behind(state, e) /\ Behind(disk, e)
      /\ shown[e] <= 1
      /\ e \in queue => shown[e] = 0

\* The page on its way was asked for at the cursor of now, and does not lead back.
PageIsAhead ==
    flight # None =>
      /\ queue = {}
      /\ flight.valid =>
           /\ flight.after = IF state.bootstrap THEN None ELSE state.cursor
           /\ flight.page # None =>
                /\ flight.page.cursor <= raised
                /\ state.cursor # None => state.cursor <= flight.page.cursor

CursorInv == Positions /\ NeverAgain /\ PageIsAhead

\* Steps that leave the notifier and what was shown alone.
LEMMA ElsewhereKeepsCursors ==
    ASSUME NotifierTypeOK, NotifierTypeOK', CursorInv,
           UNCHANGED <<app, shown>>,
           raised' \in {raised, raised + 1}
    PROVE  CursorInv'
<1>1. raised \in Int /\ raised <= raised'
  BY DEF NotifierTypeOK
<1>2. /\ state' = state /\ disk' = disk /\ flight' = flight /\ queue' = queue
      /\ shown' = shown
  BY DEF app
<1>3. \A s \in {state, disk} : s.cursor \in 0..MaxEvents \cup {None}
  BY StatesType DEF NotifierTypeOK, Cursors
<1>4. Positions'
  BY <1>1, <1>2, <1>3, NotifierAssumption DEF CursorInv, Positions
<1>5. NeverAgain'
  BY <1>2 DEF CursorInv, NeverAgain, Behind
<1>6. PageIsAhead'
  BY <1>1, <1>2, FlightType, NotifierAssumption DEF CursorInv, PageIsAhead
<1> QED
  BY <1>4, <1>5, <1>6 DEF CursorInv

\* A step of the switch saves a state with the same cursor.
LEMMA SwitchKeepsCursors ==
    ASSUME NotifierTypeOK, CursorInv, NEW s \in States, Set(s),
           s.cursor = state.cursor, state.bootstrap => s.bootstrap, UNCHANGED feed
    PROVE  CursorInv'
<1>1. state' = s /\ disk' = s /\ queue = {} /\ queue' = {} /\ shown' = shown
      /\ raised' = raised
  BY DEF Set, feed
<1>2. flight' # None =>
        flight # None /\ (flight'.valid => s = state /\ flight' = flight)
  BY DEF Set
<1>3. Positions'
  BY <1>1 DEF CursorInv, Positions
<1>4. NeverAgain'
  BY <1>1 DEF CursorInv, NeverAgain, Behind
<1>5. PageIsAhead'
  BY <1>1, <1>2 DEF CursorInv, PageIsAhead
<1> QED
  BY <1>3, <1>4, <1>5 DEF CursorInv

\* A switch that is not saved leaves the memory, and such a state or the old one in the
\* file; a step that saves the state as it is, too.
LEMMA FailedSwitchKeepsCursors ==
    ASSUME CursorInv, NEW s, disk' \in {disk, s},
           s.cursor = state.cursor, state.bootstrap => s.bootstrap,
           UNCHANGED <<raised, state, flight, queue, shown>>
    PROVE  CursorInv'
<1>1. Positions'
  BY DEF CursorInv, Positions
<1>2. NeverAgain'
  BY DEF CursorInv, NeverAgain, Behind
<1>3. PageIsAhead'
  BY DEF CursorInv, PageIsAhead
<1> QED
  BY <1>1, <1>2, <1>3 DEF CursorInv

\* The page that is consumed leads forward.
LEMMA PageLeadsOn ==
    ASSUME NotifierTypeOK, CursorInv, Arrived
    PROVE  LET s == Advanced(state, flight.page.cursor)
           IN /\ s.cursor = flight.page.cursor /\ s.cursor \in Int /\ s.cursor # None
              /\ s.cursor <= raised
              /\ \A e \in Events : Behind(state, e) => Behind(s, e)
<1>1. flight # None /\ flight.page # None /\ flight.page.cursor \in 0..MaxEvents
  BY FlightType DEF Arrived
<1>2. /\ flight.page.cursor <= raised
      /\ state.cursor # None => state.cursor <= flight.page.cursor
  BY DEF Arrived, CursorInv, PageIsAhead
<1>3. state.cursor \in 0..MaxEvents \cup {None}
  BY StatesType DEF NotifierTypeOK, Cursors
<1> QED
  BY <1>1, <1>2, <1>3, NotifierAssumption DEF Advanced, Behind, Events

LEMMA CursorStep ==
    ASSUME NotifierTypeOK, NotifierTypeOK', CursorInv,
           [NotifierNext]_notifierVars
    PROVE  CursorInv'
<1>1. CASE \/ Raise \/ ClockTick \/ UNCHANGED notifierVars
           \/ \E c \in Conversations : Open(c) \/ Close(c)
  <2>1. UNCHANGED <<app, shown>> /\ raised' \in {raised, raised + 1}
    BY <1>1 DEF Raise, ClockTick, notifierVars, Open, Close, feed, past
  <2> QED
    BY <2>1, ElsewhereKeepsCursors
<1>12. ASSUME NEW c \in Conversations, Told(c) PROVE CursorInv'
  BY <1>12, FailedSwitchKeepsCursors DEF Told, feed
<1>2. CASE PollFeed
  <2>1. /\ queue = {} /\ queue' = {} /\ state' = state /\ disk' = disk /\ shown' = shown
        /\ raised' = raised
        /\ flight'.after = (IF state.bootstrap THEN None ELSE state.cursor)
        /\ flight'.page = None
    BY <1>2 DEF PollFeed, feed, past
  <2> QED
    BY <2>1 DEF CursorInv, Positions, NeverAgain, PageIsAhead, Behind
<1>3. CASE Answer
  <2> DEFINE page == Feed(flight.after)
  <2>1. /\ flight # None /\ flight.page = None
        /\ flight'.after = flight.after /\ flight'.valid = flight.valid
        /\ flight'.page = page
        /\ queue' = queue /\ state' = state /\ disk' = disk /\ shown' = shown
        /\ raised' = raised
    BY <1>3 DEF Answer, feed, past
  <2>2. flight.after \in Cursors
    BY <2>1, FlightType
  <2>3. /\ page.cursor <= raised /\ (flight.after = None => page.cursor = raised)
        /\ flight.after # None /\ flight.after <= raised => flight.after <= page.cursor
    BY <2>2, FeedType
  <2> HIDE DEF page
  <2>4. PageIsAhead'
    BY <2>1, <2>3 DEF CursorInv, Positions, PageIsAhead
  <2> QED
    BY <2>1, <2>4 DEF CursorInv, Positions, NeverAgain, Behind
<1>4. CASE Lose \/ Discard
  <2>1. /\ flight' = None /\ queue' = queue /\ state' = state /\ disk' = disk
        /\ shown' = shown /\ raised' = raised
    BY <1>4 DEF Lose, Discard, feed, past
  <2> QED
    BY <2>1 DEF CursorInv, Positions, NeverAgain, PageIsAhead, Behind
<1>5. CASE Consume
  <2> DEFINE s == Advanced(state, flight.page.cursor)
  <2>1. /\ Arrived /\ flight' = None /\ queue' = Consumed(flight.page)
        /\ state' = s /\ disk' = s /\ shown' = shown /\ raised' = raised
    BY <1>5 DEF Consume, feed, past
  <2>2. /\ s.cursor = flight.page.cursor /\ s.cursor \in Int /\ s.cursor # None
        /\ s.cursor <= raised
        /\ \A e \in Events : Behind(state, e) => Behind(s, e)
    BY <2>1, PageLeadsOn
  <2> HIDE DEF s
  <2>3. \A e \in queue' : /\ Behind(s, e) /\ ~Behind(state, e)
                           /\ state.cursor # None
    <3>1. \A e \in queue' : e > state.cursor /\ e <= flight.page.cursor
                            /\ state.cursor # None /\ e \in Events
      BY <2>1, FlightType DEF Consumed, News, Arrived
    <3>2. state.cursor \in 0..MaxEvents \cup {None}
      BY StatesType DEF NotifierTypeOK, Cursors
    <3> QED
      BY <2>2, <3>1, <3>2 DEF Behind, Events
  <2>4. NeverAgain'
    <3> SUFFICES ASSUME NEW e \in Events
                 PROVE  /\ shown[e] > 0 \/ e \in queue' => Behind(s, e)
                        /\ shown[e] <= 1
                        /\ e \in queue' => shown[e] = 0
      BY <2>1 DEF NeverAgain, Behind
    <3>1. shown[e] \in 0..2
      BY DEF NotifierTypeOK
    <3> QED
      BY <2>2, <2>3, <3>1 DEF CursorInv, NeverAgain
  <2> QED
    BY <2>1, <2>2, <2>4 DEF CursorInv, Positions, PageIsAhead
<1>6. CASE ConsumeFails
  <2> DEFINE s == Advanced(state, flight.page.cursor)
  <2>1. /\ Arrived /\ flight' = None /\ queue' = queue /\ state' = state
        /\ disk' \in {disk, s} /\ shown' = shown /\ raised' = raised
    BY <1>6 DEF ConsumeFails, feed, past
  <2>2. /\ s.cursor # None /\ s.cursor <= raised
        /\ \A e \in Events : Behind(state, e) => Behind(s, e)
    BY <2>1, PageLeadsOn
  <2> HIDE DEF s
  <2>3. NeverAgain'
    BY <2>1, <2>2 DEF CursorInv, NeverAgain, Behind
  <2> QED
    BY <2>1, <2>2, <2>3 DEF CursorInv, Positions, PageIsAhead
<1>7. ASSUME NEW e \in Events, Submit(e) PROVE CursorInv'
  <2>1. /\ e \in queue /\ queue' = queue \ {e}
        /\ shown' = [shown EXCEPT ![e] = IF @ = 0 THEN 1 ELSE 2]
        /\ state' = state /\ disk' = disk /\ flight' = flight /\ raised' = raised
    BY <1>7 DEF Submit, feed
  <2>2. NeverAgain'
    <3> SUFFICES ASSUME NEW f \in Events
                 PROVE  /\ shown'[f] > 0 \/ f \in queue' => Behind(state, f) /\ Behind(disk, f)
                        /\ shown'[f] <= 1
                        /\ f \in queue' => shown'[f] = 0
      BY <2>1 DEF NeverAgain, Behind
    <3>1. shown \in [Events -> 0..2]
      BY DEF NotifierTypeOK
    <3>2. CASE f = e
      BY <2>1, <3>1, <3>2 DEF CursorInv, NeverAgain
    <3>3. CASE f # e
      BY <2>1, <3>1, <3>3 DEF CursorInv, NeverAgain
    <3> QED
      BY <3>2, <3>3
  <2> QED
    BY <2>1, <2>2 DEF CursorInv, Positions, PageIsAhead
<1>8. CASE Enable
  <2>1. On \in States /\ On.cursor = state.cursor
        /\ (state.bootstrap => On.bootstrap)
    BY SwitchStates DEF On
  <2> HIDE DEF On
  <2>2. CASE Set(On) /\ UNCHANGED feed
    BY <2>1, <2>2, SwitchKeepsCursors
  <2>3. CASE SetFails(On)
    BY <2>1, <2>3, FailedSwitchKeepsCursors DEF SetFails, feed
  <2> QED
    BY <1>8, <2>2, <2>3 DEF Enable, Set, feed
<1>9. CASE Disable
  <2>1. Off \in States /\ Off.cursor = state.cursor
        /\ (state.bootstrap => Off.bootstrap)
    BY SwitchStates DEF Off
  <2> HIDE DEF Off
  <2>2. CASE Set(Off) /\ UNCHANGED feed
    BY <2>1, <2>2, SwitchKeepsCursors
  <2>3. CASE SetFails(Off)
    BY <2>1, <2>3, FailedSwitchKeepsCursors DEF SetFails, feed
  <2> QED
    BY <1>9, <2>2, <2>3 DEF Disable, Set, feed
<1>10. CASE Snooze
  <2>1. PICK d \in Snoozes : Set(Snoozed(d)) \/ SetFails(Snoozed(d))
    BY <1>10 DEF Snooze
  <2>2. Snoozed(d) \in States /\ Snoozed(d).cursor = state.cursor
        /\ Snoozed(d).bootstrap = state.bootstrap
    BY SwitchStates DEF Snoozed
  <2> HIDE DEF Snoozed
  <2>3. CASE Set(Snoozed(d)) /\ UNCHANGED feed
    BY <2>2, <2>3, SwitchKeepsCursors
  <2>4. CASE SetFails(Snoozed(d))
    BY <2>2, <2>4, FailedSwitchKeepsCursors DEF SetFails, feed
  <2> QED
    BY <2>1, <2>3, <2>4 DEF Set, feed
<1>11. CASE Restart
  <2>1. /\ state' = disk /\ disk' = disk /\ flight' = None /\ queue' = {}
        /\ shown' = shown /\ raised' = raised
    BY <1>11 DEF Restart, feed, past
  <2> QED
    BY <2>1 DEF CursorInv, Positions, NeverAgain, PageIsAhead, Behind
<1> QED
  BY <1>1, <1>2, <1>3, <1>4, <1>5, <1>6, <1>7, <1>8, <1>9, <1>10, <1>11, <1>12
     DEF NotifierNext

LEMMA CursorAlways ==
    NotifierSpec => [](NotifierTypeOK /\ CursorInv)
<1>1. NotifierInit => CursorInv
  BY DEF NotifierInit, Fresh0, CursorInv, Positions, NeverAgain, PageIsAhead
<1>2. NotifierTypeOK /\ NotifierTypeOK' /\ CursorInv /\ [NotifierNext]_notifierVars
        => CursorInv'
  BY CursorStep
<1> QED
  BY <1>1, <1>2, BannerTypeCorrect, PTL DEF NotifierSpec

\* No row becomes a banner twice: the cursor is saved before a banner is submitted, and
\* what the file may hold ahead of the memory only skips rows (NotifierState.consume).
THEOREM BannerOnce == NotifierSpec => []AtMostOnce
<1>1. NotifierTypeOK /\ CursorInv => AtMostOnce
  BY DEF CursorInv, NeverAgain, AtMostOnce
<1> QED
  BY <1>1, CursorAlways, PTL

------------------------------------------------------------------------------
\* The checks of consume spare a row of that age: the notifier is off, begins with what
\* comes, cuts off at a later time, or is past it.
BySwitch(s, age) == ~s.enabled \/ (s.mute # None /\ age <= s.mute)

Spared(s, e, age) == BySwitch(s, age) \/ s.bootstrap \/ Behind(s, e)

PageArrives == flight # None /\ flight.valid /\ flight.page # None

\* A row that was raised in silence is spared now, after a restart from the file, and
\* once the page on its way is consumed.
StaysSilent(e) ==
    /\ shown[e] = 0 /\ e \notin queue
    /\ Spared(state, e, created[e]) /\ Spared(disk, e, created[e])
    /\ PageArrives => Spared(Advanced(state, flight.page.cursor), e, created[e])

SilenceInv ==
    /\ \A e \in 1..raised : created[e] <= now
    /\ silent \subseteq 1..raised
    /\ \A e \in silent : StaysSilent(e)

\* Advancing the cursor leaves the switch alone.
LEMMA AdvancedSwitch ==
    ASSUME NEW s, NEW c
    PROVE  /\ Advanced(s, c).enabled = s.enabled /\ Advanced(s, c).mute = s.mute
           /\ Advanced(s, c).cursor = c /\ Advanced(s, c).bootstrap = FALSE
BY DEF Advanced

\* The switch of a state may be all that matters.
LEMMA SameSwitchSpares ==
    ASSUME NEW s, NEW t, s.enabled = t.enabled, s.mute = t.mute,
           NEW e, NEW age, BySwitch(s, age)
    PROVE  Spared(t, e, age)
<1>1. CASE ~s.enabled
  <2>1. ~t.enabled
    BY <1>1, Zenon
  <2> QED
    BY <2>1, Zenon DEF Spared, BySwitch
<1>2. CASE s.mute # None /\ age <= s.mute
  <2>1. t.mute # None /\ age <= t.mute
    BY <1>2
  <2> QED
    BY <2>1, Zenon DEF Spared, BySwitch
<1> QED
  BY <1>1, <1>2, Zenon DEF BySwitch

LEMMA SwitchKeepsSilence ==
    ASSUME NotifierTypeOK, SilenceInv, NEW s \in States, Set(s), UNCHANGED feed,
           \A e \in silent : Spared(s, e, created[e])
    PROVE  SilenceInv'
<1>1. /\ state' = s /\ disk' = s /\ queue' = queue /\ shown' = shown
      /\ raised' = raised /\ created' = created /\ now' = now /\ silent' = silent
  BY DEF Set, feed
<1>2. PageArrives' => PageArrives /\ flight' = flight /\ state' = state
  BY DEF Set, PageArrives
<1>3. \A e \in silent : StaysSilent(e)'
  BY <1>1, <1>2 DEF SilenceInv, StaysSilent, Spared, BySwitch, Behind
<1> QED
  BY <1>1, <1>3 DEF SilenceInv

\* A switch that is not saved leaves such a state in the file, or the old one.
LEMMA FailedSwitchKeepsSilence ==
    ASSUME SilenceInv, NEW s, disk' \in {disk, s},
           \A e \in silent : Spared(s, e, created[e]),
           UNCHANGED <<feed, state, flight, queue, shown, silent, now>>
    PROVE  SilenceInv'
<1>1. \A e \in silent : StaysSilent(e)'
  BY DEF SilenceInv, StaysSilent, Spared, BySwitch, Behind, PageArrives, feed
<1> QED
  BY <1>1 DEF SilenceInv, feed

LEMMA SilenceStep ==
    ASSUME Skew = 0, NotifierTypeOK, NotifierTypeOK', CursorInv, SilenceInv,
           [NotifierNext]_notifierVars
    PROVE  SilenceInv'
<1>a. created \in [Events -> 0..MaxTime]
  <2>1. 0..MaxTime + Skew = 0..MaxTime
    BY NotifierAssumption
  <2> QED
    BY <2>1 DEF NotifierTypeOK
<1>0. /\ raised \in Nat /\ now \in Nat /\ created \in [Events -> 0..MaxTime]
      /\ MaxTime \in Nat /\ MaxEvents \in Nat
      /\ state.mute \in Nat \cup {None} /\ state.cursor \in 0..MaxEvents \cup {None}
      /\ 1..raised \subseteq Events
  <2>1. state.mute \in Nat \cup {None} /\ state.cursor \in 0..MaxEvents \cup {None}
    BY StatesType DEF NotifierTypeOK, Cursors
  <2>2. now \in Nat /\ MaxTime \in Nat /\ MaxEvents \in Nat
    BY NotifierAssumption DEF NotifierTypeOK, Times
  <2>3. raised \in Nat /\ 1..raised \subseteq Events
    BY <2>2 DEF NotifierTypeOK, Events
  <2> QED
    BY <1>a, <2>1, <2>2, <2>3
<1>1. CASE Raise
  <2>0. PICK new \in Events : new = raised + 1
    BY <1>0, <1>1 DEF Raise, Events, NotifierTypeOK
  <2>1. /\ raised' = new /\ created' = [created EXCEPT ![new] = now]
        /\ silent' = (IF Silenced THEN silent \cup {new} ELSE silent)
        /\ now' = now /\ shown' = shown
        /\ state' = state /\ disk' = disk /\ queue' = queue /\ flight' = flight
    BY <1>0, <2>0, <1>1 DEF Raise, app
  <2>2. /\ created'[new] = now
        /\ \A e \in 1..raised : created'[e] = created[e]
    BY <1>0, <2>0, <2>1
  <2>3. \A e \in silent : StaysSilent(e)'
    <3> SUFFICES ASSUME NEW e \in silent PROVE StaysSilent(e)'
      OBVIOUS
    <3>1. created'[e] = created[e] /\ StaysSilent(e)
      BY <2>2 DEF SilenceInv
    <3> QED
      BY <2>1, <3>1 DEF StaysSilent, Spared, BySwitch, Behind, PageArrives
  <2>4. Silenced => StaysSilent(new)'
    <3> SUFFICES ASSUME Silenced PROVE StaysSilent(new)'
      OBVIOUS
    <3>1. BySwitch(state, now)
      BY <1>0 DEF Silenced, Effective, BySwitch
    <3>2. BySwitch(disk, now) \/ disk.bootstrap
      <4>1. disk.mute \in Nat \cup {None}
        BY StatesType DEF NotifierTypeOK
      <4> QED
        BY <1>0, <4>1 DEF Silenced, Effective, BySwitch
    <3>3. /\ Spared(state, new, now) /\ Spared(disk, new, now)
          /\ Spared(Advanced(state, flight.page.cursor), new, now)
      BY <3>1, <3>2, AdvancedSwitch, SameSwitchSpares DEF Spared
    <3>4. ~Behind(state, new)
      BY <1>0, <2>0 DEF Behind, CursorInv, Positions
    <3>5. shown[new] = 0 /\ new \notin queue
      BY <2>1, <3>4 DEF CursorInv, NeverAgain, NotifierTypeOK
    <3> QED
      BY <2>1, <2>2, <3>3, <3>5 DEF StaysSilent
  <2>5. \A e \in 1..new : created'[e] <= now
    BY <1>0, <2>0, <2>2 DEF SilenceInv
  <2> QED
    BY <1>0, <2>0, <2>1, <2>3, <2>4, <2>5 DEF SilenceInv
<1>2. CASE \/ UNCHANGED notifierVars
           \/ \E c \in Conversations : Open(c) \/ Close(c)
  <2>1. UNCHANGED <<app, shown, raised, created, silent, now>>
    BY <1>2 DEF notifierVars, Open, Close, feed, past
  <2> QED
    BY <2>1
       DEF SilenceInv, StaysSilent, Spared, BySwitch, Behind, PageArrives,
           app
<1>3. CASE ClockTick
  <2>1. UNCHANGED <<app, shown, raised, created, silent>> /\ now <= now'
    BY <1>0, <1>3 DEF ClockTick, feed, past
  <2>2. \A e \in 1..raised' : created'[e] <= now'
    BY <1>0, <1>3, <2>1 DEF SilenceInv, ClockTick
  <2>3. \A e \in silent' : StaysSilent(e)'
    BY <2>1 DEF SilenceInv, StaysSilent, Spared, BySwitch, Behind, PageArrives, app
  <2> QED
    BY <2>1, <2>2, <2>3 DEF SilenceInv, app
<1>4. CASE PollFeed \/ Lose \/ Discard
  <2>1. /\ UNCHANGED <<feed, queue, state, disk, shown, silent, now>>
        /\ ~PageArrives'
    BY <1>4 DEF PollFeed, Lose, Discard, PageArrives, past
  <2> QED
    BY <2>1 DEF SilenceInv, StaysSilent, Spared, BySwitch, Behind, feed
<1>5. CASE Answer
  <2> DEFINE page == Feed(flight.after)
  <2>1. /\ flight # None /\ flight'.valid = flight.valid /\ flight'.page = page
        /\ UNCHANGED <<feed, queue, state, disk, shown, silent, now>>
    BY <1>5 DEF Answer, past
  <2>2. flight.after \in Cursors
    BY <2>1, FlightType
  <2>3. /\ page.cursor \in 0..MaxEvents
        /\ flight.after = None => page.cursor = raised
        /\ flight.after # None /\ flight.after <= raised => flight.after <= page.cursor
    BY <2>2, FeedType DEF Pages
  <2> HIDE DEF page
  <2>4. ASSUME flight.valid, NEW e \in silent
        PROVE  Spared(Advanced(state, page.cursor), e, created[e])
    <3>1. Spared(state, e, created[e]) /\ e \in 1..raised
      BY DEF SilenceInv, StaysSilent
    <3>2. CASE BySwitch(state, created[e])
      <4>1. LET s == Advanced(state, page.cursor)
            IN s.enabled = state.enabled /\ s.mute = state.mute
        BY DEF Advanced
      <4> QED
        BY <3>2, <4>1, SameSwitchSpares
    <3>3. CASE state.bootstrap \/ Behind(state, e)
      <4>1. e <= page.cursor
        <5>1. CASE state.bootstrap
          BY <2>1, <2>3, <2>4, <3>1, <5>1 DEF CursorInv, PageIsAhead
        <5>2. CASE ~state.bootstrap
          <6>1. flight.after = state.cursor /\ state.cursor # None
                /\ state.cursor <= raised /\ e <= state.cursor
            BY <2>1, <2>4, <3>3, <5>2 DEF CursorInv, PageIsAhead, Positions, Behind
          <6> QED
            BY <1>0, <2>3, <3>1, <6>1
        <5> QED
          BY <5>1, <5>2
      <4>2. page.cursor # None
        BY <2>3, NotifierAssumption
      <4> QED
        BY <4>1, <4>2, AdvancedSwitch DEF Spared, BySwitch, Behind
    <3> QED
      BY <3>1, <3>2, <3>3 DEF Spared
  <2>5. \A e \in silent : StaysSilent(e)'
    <3> SUFFICES ASSUME NEW e \in silent PROVE StaysSilent(e)'
      OBVIOUS
    <3>1. PageArrives' => Spared(Advanced(state, flight.page.cursor), e, created[e])'
      BY <2>1, <2>4 DEF PageArrives, Spared, BySwitch, Behind, Advanced, feed
    <3> QED
      BY <2>1, <3>1 DEF SilenceInv, StaysSilent, Spared, BySwitch, Behind, feed
  <2> QED
    BY <2>1, <2>5 DEF SilenceInv, feed
<1>6. CASE Consume
  <2> DEFINE s == Advanced(state, flight.page.cursor)
  <2>1. /\ PageArrives /\ flight' = None /\ queue' = Consumed(flight.page)
        /\ state' = s /\ disk' = s
        /\ UNCHANGED <<feed, shown, silent, now>>
    BY <1>6 DEF Consume, Arrived, PageArrives, past
  <2> HIDE DEF s
  <2>2. ASSUME NEW e \in silent PROVE StaysSilent(e)'
    <3>1. /\ Spared(s, e, created[e]) /\ Spared(state, e, created[e])
          /\ shown[e] = 0 /\ e \in 1..raised
      BY <2>1 DEF SilenceInv, StaysSilent, s
    <3>2. e \notin Consumed(flight.page)
      <4> SUFFICES ASSUME e \in Consumed(flight.page) PROVE FALSE
        OBVIOUS
      <4>1. /\ Effective(state) /\ ~state.bootstrap /\ state.cursor # None
            /\ e > state.cursor
            /\ state.mute = None \/ created[e] > state.mute
        BY DEF Consumed, News
      <4>2. created[e] \in Int /\ e \in Int
        BY <1>0, <3>1
      <4> QED
        BY <1>0, <3>1, <4>1, <4>2 DEF Spared, BySwitch, Behind, Effective
    <3> QED
      BY <2>1, <3>1, <3>2 DEF StaysSilent, Spared, BySwitch, Behind, PageArrives, feed
  <2> QED
    BY <2>1, <2>2 DEF SilenceInv, feed
<1>7. CASE ConsumeFails
  <2> DEFINE s == Advanced(state, flight.page.cursor)
  <2>1. /\ PageArrives /\ flight' = None /\ disk' \in {disk, s}
        /\ UNCHANGED <<feed, queue, state, shown, silent, now>>
    BY <1>7 DEF ConsumeFails, Arrived, PageArrives, past
  <2>3. \A e \in silent : Spared(s, e, created[e])
    BY <2>1 DEF SilenceInv, StaysSilent
  <2> HIDE DEF s
  <2>4. \A e \in silent : StaysSilent(e)'
    BY <2>1, <2>3
       DEF SilenceInv, StaysSilent, Spared, BySwitch, Behind, PageArrives, feed
  <2> QED
    BY <2>1, <2>4 DEF SilenceInv, feed
<1>8. ASSUME NEW e \in Events, Submit(e) PROVE SilenceInv'
  <2>1. /\ e \in queue /\ queue' = queue \ {e}
        /\ shown' = [shown EXCEPT ![e] = IF @ = 0 THEN 1 ELSE 2]
        /\ UNCHANGED <<feed, state, disk, flight, silent, now>>
    BY <1>8 DEF Submit
  <2>2. \A f \in silent : StaysSilent(f)'
    <3> SUFFICES ASSUME NEW f \in silent PROVE StaysSilent(f)'
      OBVIOUS
    <3>1. StaysSilent(f) /\ f # e
      BY <2>1 DEF SilenceInv, StaysSilent
    <3>2. shown'[f] = 0
      BY <1>0, <2>1, <3>1 DEF StaysSilent, SilenceInv, NotifierTypeOK
    <3> QED
      BY <2>1, <3>1, <3>2 DEF StaysSilent, Spared, BySwitch, Behind, PageArrives, feed
  <2> QED
    BY <2>1, <2>2 DEF SilenceInv, feed
<1>9. CASE Enable
  <2>1. ASSUME NEW e \in silent PROVE Spared(On, e, created[e])
    <3>1. Spared(state, e, created[e]) /\ created[e] <= now
      BY DEF SilenceInv, StaysSilent
    <3>2. now # None /\ created[e] \in Int
      BY <1>0, NotifierAssumption DEF SilenceInv
    <3> QED
      BY <1>0, <3>1, <3>2 DEF On, Spared, BySwitch, Behind
  <2>2. On \in States
    BY SwitchStates
  <2> HIDE DEF On
  <2>3. CASE Set(On)
    BY <1>9, <2>1, <2>2, <2>3, SwitchKeepsSilence DEF Set
  <2>4. CASE SetFails(On)
    BY <2>1, <2>4, FailedSwitchKeepsSilence DEF SetFails
  <2> QED
    BY <1>9, <2>3, <2>4 DEF Enable
<1>10. CASE Disable
  <2>1. ASSUME NEW e \in silent PROVE Spared(Off, e, created[e])
    BY DEF Off, Spared, BySwitch
  <2>2. Off \in States
    BY SwitchStates
  <2> HIDE DEF Off
  <2>3. CASE Set(Off)
    BY <2>1, <2>2, <2>3, SwitchKeepsSilence DEF Set
  <2>4. CASE SetFails(Off)
    BY <2>1, <2>4, FailedSwitchKeepsSilence DEF SetFails
  <2> QED
    BY <1>10, <2>3, <2>4 DEF Disable
<1>11. CASE Snooze
  <2>1. PICK d \in Snoozes : Set(Snoozed(d)) \/ SetFails(Snoozed(d))
    BY <1>11 DEF Snooze
  <2>2. Snoozed(d) \in States
    BY SwitchStates
  <2>3. ASSUME NEW e \in silent PROVE Spared(Snoozed(d), e, created[e])
    <3>1. created[e] <= now + d /\ now + d # None
      BY <1>0, NotifierAssumption DEF SilenceInv
    <3> QED
      BY <3>1 DEF Snoozed, Spared, BySwitch
  <2> HIDE DEF Snoozed
  <2>4. CASE Set(Snoozed(d))
    BY <2>2, <2>3, <2>4, SwitchKeepsSilence DEF Set
  <2>5. CASE SetFails(Snoozed(d))
    BY <2>3, <2>5, FailedSwitchKeepsSilence DEF SetFails
  <2> QED
    BY <2>1, <2>4, <2>5
<1>13. ASSUME NEW c \in Conversations, Told(c) PROVE SilenceInv'
  <2>1. \A e \in silent : Spared(state, e, created[e])
    BY DEF SilenceInv, StaysSilent
  <2> QED
    BY <1>13, <2>1, FailedSwitchKeepsSilence DEF Told
<1>12. CASE Restart
  <2>1. /\ state' = disk /\ flight' = None /\ queue' = {}
        /\ UNCHANGED <<feed, disk, shown, silent, now>>
    BY <1>12 DEF Restart, past
  <2> QED
    BY <2>1
       DEF SilenceInv, StaysSilent, Spared, BySwitch, Behind, PageArrives,
           feed
<1> QED
  BY <1>1, <1>2, <1>3, <1>4, <1>5, <1>6, <1>7, <1>8, <1>9, <1>10, <1>11, <1>12,
     <1>13 DEF NotifierNext

\* What was raised while the notifier was off or snoozed is never shown, not by a page
\* that was on its way nor after a restart, whether or not the switch could be saved: only
\* what was raised after a failed switch had left a file that speaks is not promised
\* (consume, the handlers of the bridge and their catch).  The clocks of the server and the
\* Mac agree.
THEOREM SilenceIsKept ==
    ASSUME Skew = 0 PROVE NotifierSpec => []NoMutedBacklog
<1>1. NotifierInit => SilenceInv
  BY DEF NotifierInit, Fresh0, SilenceInv
<1>2. NotifierTypeOK /\ NotifierTypeOK' /\ CursorInv /\ SilenceInv
      /\ [NotifierNext]_notifierVars => SilenceInv'
  BY SilenceStep
<1>3. SilenceInv => NoMutedBacklog
  BY DEF SilenceInv, StaysSilent, NoMutedBacklog
<1> QED
  BY <1>1, <1>2, <1>3, CursorAlways, PTL DEF NotifierSpec
==============================================================================
