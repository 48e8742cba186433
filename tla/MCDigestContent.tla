--------------------------- MODULE MCDigestContent ---------------------------
(* Small instances of DigestContent. *)
EXTENDS DigestContent

Kind(title, size, media, urgent, wanted) ==
    [title |-> title, size |-> size, media |-> media, urgent |-> urgent, wanted |-> wanted]

\* A plain row, media under one title and, long, under another, a long one that is urgent,
\* and one that is outgoing or of an ignored chat.
MCKinds == {Kind(1, 1, FALSE, FALSE, TRUE), Kind(1, 1, TRUE, FALSE, TRUE),
            Kind(2, 2, TRUE, FALSE, TRUE),
            Kind(1, 2, FALSE, TRUE, TRUE), Kind(1, 1, FALSE, FALSE, FALSE)}

\* Nothing tells one chat from another but its rows and its type.
Symmetry == Permutations(Chats)
=============================================================================
