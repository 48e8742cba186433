---------------------------- MODULE MCAlertOutbox ----------------------------
(* Small instances of AlertOutbox. *)
EXTENDS AlertOutbox

\* Two delays keep "try again next minute" apart from "wait longer".
MCBackoff == <<1, 2>>
=============================================================================
