-------------------------------- MODULE Outbox --------------------------------
(***************************************************************************)
(* What every outbox of this program promises, whatever its threads, rows, *)
(* leases and retries: a thing to be sent is tried by one sender at a      *)
(* time, is not tried again once it is over, and is taken a second time    *)
(* by the receiver only if the outcome of a try was never learnt.          *)
(*                                                                         *)
(* AlertOutbox (a message and its attention e-mail), DigestOutbox (a       *)
(* message and its daily digest) and WebPush (a notification and a device) *)
(* implement it; each says how its state maps to these three variables.    *)
(*                                                                         *)
(* Things do not depend on one another.  One step may move several: a      *)
(* digest is one mail for many messages.                                   *)
(***************************************************************************)
EXTENDS Integers

CONSTANT Things

VARIABLES
    stage,  \* open: may be tried; trying: handed to the receiver; taken: the
            \* sender was told so; closed: never to be tried again
    taken,  \* how often the receiver took it, two for more
    doubt   \* things with a try whose outcome its sender did not learn or record

vars == <<stage, taken, doubt>>

Stages == {"open", "trying", "taken", "closed"}

TypeOK ==
    /\ stage \in [Things -> Stages]
    /\ taken \in [Things -> 0..2]
    /\ doubt \subseteq Things

Init ==
    /\ stage \in [Things -> {"open", "closed"}]
    /\ taken = [t \in Things |-> 0]
    /\ doubt = {}

------------------------------------------------------------------------------
\* The steps of one thing, each from one of its stages to another.

Moves(t, from, to) == stage[t] \in from /\ stage'[t] \in to

Counted(t) == taken'[t] = IF taken[t] = 0 THEN 1 ELSE 2
Uncounted(t) == taken'[t] = taken[t]

Sure(t) == t \in doubt' <=> t \in doubt

Try(t) == Moves(t, {"open"}, {"trying"}) /\ Uncounted(t) /\ Sure(t)

\* The receiver takes it and says so; the sender may record it in the same step.
Take(t) == Moves(t, {"trying"}, {"taken", "closed"}) /\ Counted(t) /\ Sure(t)

\* The receiver refuses it: it may be tried again, or is given up.
Refuse(t) == Moves(t, {"trying"}, {"open", "closed"}) /\ Uncounted(t) /\ Sure(t)

\* The sender fails to learn or to record the outcome.
Lose(t) ==
    /\ Moves(t, {"trying", "taken"}, {"open", "closed"})
    /\ t \in doubt'
    /\ Uncounted(t) \/ (stage[t] = "trying" /\ Counted(t))

\* The receiver takes something that was lost on its way.
Surface(t) == t \in doubt /\ t \in doubt' /\ stage'[t] = stage[t] /\ Counted(t)

\* What was taken is recorded, what is open is withdrawn.
Close(t) == Moves(t, {"open", "taken"}, {"closed"}) /\ Uncounted(t) /\ Sure(t)

Rest(t) == stage'[t] = stage[t] /\ Uncounted(t) /\ Sure(t)

Step(t) ==
    Try(t) \/ Take(t) \/ Refuse(t) \/ Lose(t) \/ Surface(t) \/ Close(t)

Next ==
    /\ stage' \in [Things -> Stages] /\ taken' \in [Things -> 0..2]
    /\ doubt' \subseteq Things
    /\ \A t \in Things : Step(t) \/ Rest(t)

Spec == Init /\ [][Next]_vars

------------------------------------------------------------------------------
\* A thing is taken twice only if the outcome of a try was never learnt.
TakenOnce == \A t \in Things : taken[t] > 1 => t \in doubt

\* What is over is over: it is not tried again, and unless it is in doubt the
\* receiver does not take it again.
ClosedIsFinal ==
    [][\A t \in Things : stage[t] = "closed" =>
         /\ stage'[t] = "closed"
         /\ t \notin doubt => taken'[t] = taken[t]]_vars

\* Why TakenOnce holds: what was taken, and is not in doubt, is out of reach.
TakenIsOut ==
    \A t \in Things \ doubt :
        /\ taken[t] <= 1
        /\ stage[t] \in {"open", "trying"} => taken[t] = 0
=============================================================================
