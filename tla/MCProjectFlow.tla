---------------------------- MODULE MCProjectFlow -----------------------------
(* Instances of ProjectFlow for TLC.                                       *)
EXTENDS ProjectFlow, TLC

\* A full proposal under a key, a serial authoring without one, and an export under
\* the key of the full proposal.
Ask(type, key, split) == [type |-> type, key |-> key, split |-> split, research |-> FALSE]
Starts == {Ask("intake", NoKey, FALSE), Ask("template", NoKey, FALSE),
           Ask("authoring", "k", TRUE), Ask("authoring", NoKey, FALSE),
           Ask("export", "k", FALSE)}

Interchangeable == Permutations(Sections)

=============================================================================
