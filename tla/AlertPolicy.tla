------------------------------ MODULE AlertPolicy ------------------------------
(***************************************************************************)
(* Which messages call for an alert (services/p0.py): the rule of the      *)
(* intake, the rule by which the daily digest lists a message among the    *)
(* urgent ones (services/digest.py), and the rule the p0_check command     *)
(* shows.  What a pattern finds in a text is a signal of the message.      *)
(***************************************************************************)
EXTENDS FiniteSets

ChatTypes == {"private", "group", "channel"}

\* "mention" is of a configured user name, "keyword" of the watchlist; "ping" and
\* "ping reply", "time" and "plan" say something only together.
Signals == {"mention", "request", "planning", "question", "urgency", "important",
            "deadline", "ping", "ping reply", "direct request", "time sensitive", "time",
            "plan", "keyword"}

\* Without a text there are no signals.  mine: whether it replies to the owner, if
\* Telegram told; parent: who wrote the message replied to, if it is stored.
Message ==
    {m \in [type : ChatTypes, outgoing : BOOLEAN, text : BOOLEAN, media : BOOLEAN,
            signals : SUBSET Signals, replied : BOOLEAN, mine : {"yes", "no", "unknown"},
            parent : {"mine", "other", "absent"}, watched : BOOLEAN] :
       /\ ~m.text => m.signals = {}
       /\ m.mine # "unknown" => m.replied}

\* p0_classify_private_text, _all_groups, _mentions, _replies and _watchlist_chats.
Settings == [private : BOOLEAN, groups : BOOLEAN, mentions : BOOLEAN, replies : BOOLEAN,
             watchlist : BOOLEAN]

Decisions == [status : {"p0_strict", "p0_candidate", "not_p0"}, confident : BOOLEAN]

Has(m, signals) == m.signals \cap signals # {}
Mentioned(m) == "mention" \in m.signals

------------------------------------------------------------------------------
\* What a message shows.

PrivateDeterministicSignal(m) ==
    \/ {"ping", "ping reply"} \subseteq m.signals
    \/ Has(m, {"direct request", "time sensitive"})
    \/ {"time", "plan"} \subseteq m.signals

HasPrivateSignal(m) ==
    \/ PrivateDeterministicSignal(m)
    \/ Has(m, {"request", "planning", "urgency", "important", "deadline"})

ResponseMayBeExpected(m) == Has(m, {"question", "request", "planning"})

\* What Telegram told counts; otherwise the stored message does.
RepliesToMe(m) ==
    /\ m.replied
    /\ IF m.mine # "unknown" THEN m.mine = "yes" ELSE m.parent = "mine"

WatchlistMatch(m, s) == "keyword" \in m.signals \/ (s.watchlist /\ m.watched)

------------------------------------------------------------------------------
\* The rule of the intake.

GroupStrict(m, s) ==
    \/ s.mentions /\ Mentioned(m)
    \/ s.replies /\ RepliesToMe(m)
    \/ Has(m, {"request", "urgency", "important", "deadline"})
    \/ ResponseMayBeExpected(m)
    \/ s.watchlist /\ WatchlistMatch(m, s)

DeterministicStrict(m, s) ==
    \/ m.type = "private" /\ (HasPrivateSignal(m) \/ (s.mentions /\ Mentioned(m)))
    \/ m.type = "channel" /\ s.mentions /\ Mentioned(m)
    \/ m.type = "group" /\ GroupStrict(m, s)

ShouldClassify(m, s) ==
    /\ ~m.outgoing /\ m.text
    /\ \/ m.type = "private" /\ s.private
       \/ m.type = "channel" /\ DeterministicStrict(m, s)
       \/ m.type = "group" /\ (s.groups \/ DeterministicStrict(m, s))

\* What a decision of the model takes to make a message strict.
QualifiesForStrict(m, s, decision) ==
    \/ DeterministicStrict(m, s)
    \/ /\ m.type = "private"
       /\ HasPrivateSignal(m) \/ (s.mentions /\ Mentioned(m))
       /\ decision.status = "p0_strict" /\ decision.confident

\* own: of the owner; media: without text; quiet: not classified; strict: alerted
\* whatever the model says; open: left to the model.
Kind(m, s) ==
    IF m.outgoing THEN "own"
    ELSE IF m.media /\ ~m.text THEN "media"
    ELSE IF ~ShouldClassify(m, s) THEN "quiet"
    ELSE IF DeterministicStrict(m, s) THEN "strict" ELSE "open"

------------------------------------------------------------------------------
\* The two other rules.

DeterministicEquivalent(m, replyToMe) ==
    \/ Mentioned(m)
    \/ m.type = "private" /\ HasPrivateSignal(m)
    \/ /\ m.type = "group"
       /\ \/ replyToMe
          \/ Has(m, {"request", "urgency", "important", "deadline"})
          \/ ResponseMayBeExpected(m)

\* What makes a row urgent in the digest before it is classified or alerted.
UrgentUnclassified(m) ==
    /\ ~m.outgoing
    /\ \/ Mentioned(m)
       \/ m.type # "channel" /\ (m.mine = "yes" \/ DeterministicEquivalent(m, m.mine = "yes"))

\* is_p0 of debug_p0_check.
DebugIsP0(m, s) ==
    /\ ~m.outgoing
    /\ \/ s.mentions /\ Mentioned(m)
       \/ m.type = "private" /\ HasPrivateSignal(m)
       \/ /\ m.type = "group"
          /\ \/ Has(m, {"request", "urgency", "important", "deadline"})
             \/ ResponseMayBeExpected(m)

Defaults == [private |-> TRUE, groups |-> FALSE, mentions |-> TRUE, replies |-> TRUE,
             watchlist |-> TRUE]
=============================================================================
