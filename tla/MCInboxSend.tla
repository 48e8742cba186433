----------------------------- MODULE MCInboxSend -----------------------------
(* Sends for TLC: three posts at a time, of one tab or of anyone.            *)
EXTENDS BrowserDraft, TLC

CONSTANTS h1, h2, h3, r1, r2, c1, c2
=============================================================================
