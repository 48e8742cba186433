------------------------- MODULE MCBirthdayNotices -------------------------
(* Birthdays for TLC: humans with a Telegram contact and a manual one.      *)
EXTENDS BirthdayNotices, TLC

CONSTANTS a, b, ta, fa, tb, fb, Daily, Cli

MCTgKey == (a :> ta @@ b :> tb)
MCFileKey == (a :> fa @@ b :> fb)
=============================================================================
