--------------------------- MODULE MCQualityLedger ---------------------------
(***************************************************************************)
(* A section of the proposal: its writer, its critic, the critic of the    *)
(* whole document, a finding of each of the two critics and one that       *)
(* delivery validation reports about the content, whose scope names the    *)
(* heading and not the section.                                            *)
(***************************************************************************)
EXTENDS QualityLedger, QualityRoutes

SectionPrompts == {"P-WRITE-CONTENT", "P-WRITE-CRITIC", Integration}
SectionScopes ==
    [p \in SectionPrompts |-> ScopeKey(p, IF p = Integration THEN "" ELSE "innovation")]
SectionRepairing == SectionPrompts \cap Critics

SectionFindings == {"draft", "whole", "delivery"}
SectionRoutes ==
    "draft" :> PromptRoute("P-WRITE-CRITIC", "ORIGINAL_PRODUCER") @@
    "whole" :> PromptRoute(Integration, "WRITING_AGENT") @@
    "delivery" :> DeliveryRoute([category |-> "CONTENT", inFile |-> FALSE])
SectionCode == "draft" :> "code1" @@ "whole" :> "code2" @@ "delivery" :> "code3"
SectionScope ==
    "draft" :> SectionScopes["P-WRITE-CRITIC"] @@ "whole" :> SectionScopes[Integration] @@
    "delivery" :> DeliveryScope("candidate_sections.Innovation")
SectionFinders ==
    "draft" :> {"P-WRITE-CONTENT", "P-WRITE-CRITIC"} @@ "whole" :> {Integration} @@
    "delivery" :> {Validator}
SectionStages == [f \in SectionFindings |-> SectionRoutes[f].stages \cap SectionPrompts]
SectionReviewer == [f \in SectionFindings |-> SectionRoutes[f].reviewer]

\* A submission that reports what the section's critic reported: repairs that go by the
\* code find both.  No stage runs.
Shared == {"draft", "delivery"}
SharedCode == [f \in Shared |-> "code1"]
SharedScope == [f \in Shared |-> SectionScope[f]]
SharedFinders == "draft" :> {"P-WRITE-CRITIC"} @@ "delivery" :> {Validator}
SharedPrompts == SectionPrompts \ {"P-WRITE-CONTENT"}
SharedStages == [f \in Shared |-> SectionRoutes[f].stages \cap SharedPrompts]
SharedScopes == [p \in SharedPrompts |-> SectionScopes[p]]
SharedReviewer == [f \in Shared |-> SectionReviewer[f]]
=============================================================================
