---------------------------- MODULE MCNavigation ----------------------------
(***************************************************************************)
(* Instances of Navigation for TLC.  Goals are asked for under one request *)
(* identifier, so that only their stamps tell them apart; contexts and     *)
(* cancellations come with it and with another one.                        *)
(***************************************************************************)
EXTENDS Navigation, TLC

CONSTANTS a, other      \* the Requests

Symmetric == Permutations(Callers)

AskingSpec == Init /\ [][Next /\ rt'.pending.request # other]_vars
=============================================================================
