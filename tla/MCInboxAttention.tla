-------------------------- MODULE MCInboxAttention --------------------------
(* A peer for TLC.                                                          *)
EXTENDS InboxAttention

CONSTANT h1  \* a handler

\* A forum: its messages belong to topic 1, unless the forum is selected as a
\* library source, which shows them in the peer-wide row.
Forum == [i \in 1..LastId |-> 1]
=============================================================================
