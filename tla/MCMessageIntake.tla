--------------------------- MODULE MCMessageIntake ---------------------------
(* The intake of messages for TLC.                                            *)
EXTENDS MessageIntake, TLC

CONSTANT c1

OneChat == [m \in Messages |-> c1]
First == {1}

Text(type, signals) ==
    [type |-> type, outgoing |-> FALSE, text |-> TRUE, media |-> FALSE, signals |-> signals,
     replied |-> FALSE, mine |-> "unknown", parent |-> "absent", watched |-> FALSE]
Request == Text("private", {"direct request"})
Talk == Text("private", {})
Own == [Talk EXCEPT !.outgoing = TRUE]
Photo == [Talk EXCEPT !.text = FALSE, !.media = TRUE]
GroupTalk == Text("group", {})
GroupReply == [GroupTalk EXCEPT !.replied = TRUE, !.mine = "yes"]

Updates(said, code) == [m \in Messages |-> [message |-> said[m], code |-> code]]

\* Strict and open, open and own, media and strict, quiet and strict; and codes.
Pairs ==
    {Updates(said, FALSE) : said \in {<<Request, Talk>>, <<Talk, Own>>, <<Photo, Request>>,
                                     <<GroupTalk, GroupReply>>}}
      \cup {Updates(<<Talk, Talk>>, TRUE)}
Single == {Updates(<<Request>>, FALSE)}
=============================================================================
