----------------------------- MODULE SingleResult -----------------------------
(***************************************************************************)
(* What a model call promises its workflow: at most one result is ever     *)
(* recorded for the call, and whoever is answered is answered with it.     *)
(***************************************************************************)
CONSTANTS Answers, NoAnswer

VARIABLES recorded, given

Init == recorded = NoAnswer /\ given = {}

\* The call succeeds, once.
Record == recorded = NoAnswer /\ recorded' \in Answers /\ UNCHANGED given

\* A request for the call is answered with what was recorded.
Give == recorded # NoAnswer /\ given' = given \cup {recorded} /\ UNCHANGED recorded

Spec == Init /\ [][Record \/ Give]_<<recorded, given>>
=============================================================================
