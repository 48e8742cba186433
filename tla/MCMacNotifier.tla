---------------------------- MODULE MCMacNotifier ----------------------------
(* The notifier for TLC.                                                      *)
EXTENDS MacNotifier, TLC

CONSTANT c1

OneConversation == [e \in Events |-> c1]
=============================================================================
