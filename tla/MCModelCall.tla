---------------------------- MODULE MCModelCall ----------------------------
(***************************************************************************)
(* Two answers that pass the guard and one that does not, and a restart    *)
(* that may bring a new prompt pack.                                       *)
(***************************************************************************)
EXTENDS ModelCall
=============================================================================
