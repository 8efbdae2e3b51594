--------------------------- MODULE MCWorkflowEngine ---------------------------
(***************************************************************************)
(* A four-step workflow with every kind of step WORKFLOWS has: a producer  *)
(* without a gate of its own, its critic followed by an approval gate, the *)
(* public search, and a step that is only a gate.                          *)
(***************************************************************************)
EXTENDS WorkflowEngine

StepKinds == <<"PROMPT", "PROMPT", "SEARCH", "GATE">>
KindAt == [s \in 0 .. 3 |-> StepKinds[s + 1]]
StepGates == <<"PROJECT_GAP_RESOLUTION", "OUTBOUND_SECURITY_APPROVAL",
                "PROJECT_GAP_RESOLUTION", "FINAL_EXPORT_APPROVAL">>
GateTypeAt == [s \in 0 .. 3 |-> StepGates[s + 1]]
=============================================================================
