------------------------------ MODULE MCWebPush ------------------------------
(* Web Push for TLC.                                                          *)
EXTENDS WebPush, TLC

CONSTANTS s1, c1

MCBackoff == <<1, 1, 1>>
OneConversation == [e \in Events |-> c1]
=============================================================================
