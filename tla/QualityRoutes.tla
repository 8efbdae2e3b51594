------------------------------ MODULE QualityRoutes ------------------------------
(***************************************************************************)
(* Who is responsible for a quality finding and for which part of the work *)
(* it stands, as src/app/quality.py decides it when the finding is         *)
(* recorded: the constants of QualityLedger for given prompts.             *)
(***************************************************************************)
EXTENDS TLC

CONSTANTS
    NoReviewer    \* in place of a critic

Integration == "P-INTEGRATION-CRITIC"

\* CRITIC_PRODUCER: whose work a critic judges.
CriticProducer ==
    "P-SECURITY-CLASSIFY-CRITIC"      :> "P-SECURITY-CLASSIFY" @@
    "P-SAFE-ONLINE-PACKAGE-CRITIC"    :> "P-SAFE-ONLINE-PACKAGE" @@
    "P-PUBLIC-RESEARCH-CRITIC"        :> "P-PUBLIC-RESEARCH-SYNTHESIS" @@
    "P-SCHEME-CRITIC"                 :> "P-SCHEME-EXTRACT" @@
    "P-PROJECT-DEFINITION-CRITIC"     :> "P-PROJECT-DEFINITION-EXTRACT" @@
    "P-FACT-CRITIC"                   :> "P-FACT-EXTRACT" @@
    "P-TEMPLATE-CRITIC"               :> "P-TEMPLATE-EXTRACT" @@
    "P-ARGUMENT-ARCHITECTURE-CRITIC"  :> "P-ARGUMENT-ARCHITECTURE" @@
    "P-REVISION-PLAN-CRITIC"          :> "P-REVISION-PLAN" @@
    "P-WRITE-BLUEPRINT-CRITIC"        :> "P-WRITE-BLUEPRINT" @@
    "P-WRITE-CRITIC"                  :> "P-WRITE-CONTENT" @@
    "P-EXPRESSION-CRITIC"             :> "P-EXPRESSION-POLISH"
Critics == DOMAIN CriticProducer

\* ROUTE_STAGE_PROMPTS: the stages of whom a finding is sent to.
RouteStages ==
    [PROJECT_KNOWLEDGE_AGENT     |-> {"P-SCHEME-EXTRACT", "P-PROJECT-DEFINITION-EXTRACT",
                                      "P-FACT-EXTRACT", "P-PUBLIC-RESEARCH-SYNTHESIS"},
     ARGUMENT_ARCHITECTURE_AGENT |-> {"P-ARGUMENT-ARCHITECTURE"},
     PLANNING_AGENT              |-> {"P-REVISION-PLAN"},
     WRITING_AGENT               |-> {"P-WRITE-BLUEPRINT", "P-WRITE-CONTENT"},
     EXPRESSION_EDITOR_AGENT     |-> {"P-EXPRESSION-POLISH"},
     SECURITY_REVIEW_AGENT       |-> {"P-SECURITY-CLASSIFY", "P-SAFE-ONLINE-PACKAGE",
                                      "P-FINAL-CONFIDENTIALITY-REVIEW"},
     INTEGRATION_AGENT           |-> {Integration}]

\* _critic_for_producer.
CriticFor(prompt) ==
    IF \E c \in Critics : CriticProducer[c] = prompt
    THEN CHOOSE c \in Critics : CriticProducer[c] = prompt
    ELSE NoReviewer

\* _route_prompt_finding, of a finding that the prompt reports and sends to suggested
\* (ORIGINAL_PRODUCER, USER and BLOCK have no stages of their own).
PromptRoute(prompt, suggested) ==
    [stages   |-> IF suggested \in DOMAIN RouteStages THEN RouteStages[suggested]
                  ELSE {IF prompt \in Critics THEN CriticProducer[prompt] ELSE prompt},
     reviewer |-> IF prompt \in Critics \cup {Integration} THEN prompt ELSE CriticFor(prompt)]

\* route_delivery_finding: a defect of the file is the engineers', and only a validation
\* reviews it; inFile says that its type or code names the file or its rendering.
DeliveryRoute(finding) ==
    IF finding.category \in {"FORMAT", "SYSTEM"} \/ finding.inFile
    THEN [stages |-> {"DELIVERY_VALIDATOR"}, reviewer |-> "DELIVERY_VALIDATOR"]
    ELSE [stages |-> {"P-WRITE-BLUEPRINT", "P-WRITE-CONTENT", "P-EXPRESSION-POLISH"},
          reviewer |-> Integration]

\* A scope is a kind and what it names.
ScopeOf(kind, name) == [kind |-> kind, name |-> name]
WholeDocument == ScopeOf("document", "")
\* The critics named after their producer: the others' names give a stage of their own.
Namesakes == {"P-SECURITY-CLASSIFY-CRITIC", "P-SAFE-ONLINE-PACKAGE-CRITIC",
              "P-ARGUMENT-ARCHITECTURE-CRITIC", "P-REVISION-PLAN-CRITIC",
              "P-WRITE-BLUEPRINT-CRITIC"}
\* _scope_key: the section in work ("" if there is none) comes before the prompt.
ScopeKey(prompt, section) ==
    IF section # "" THEN ScopeOf("section", section)
    ELSE IF prompt = Integration THEN WholeDocument
    ELSE ScopeOf("stage", IF prompt \in Namesakes THEN CriticProducer[prompt] ELSE prompt)
\* _delivery_scope.
DeliveryScope(target) == ScopeOf("delivery", target)

=============================================================================
