------------------------------ MODULE MCAuthoring ------------------------------
(***************************************************************************)
(* Two sections.  In the full mode each is written by a group of its own.  *)
(***************************************************************************)
EXTENDS Authoring

OneEach == [s \in Sections |-> IF s = 1 THEN "background" ELSE "method"]
DiagramFails == {<<1, "CONTENT">>}
=============================================================================
