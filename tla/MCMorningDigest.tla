--------------------------- MODULE MCMorningDigest ---------------------------
(* The morning digest for TLC.                                                *)
EXTENDS MorningDigest, TLC

CONSTANTS d, u  \* a dialog, and a library source that is none
=============================================================================
