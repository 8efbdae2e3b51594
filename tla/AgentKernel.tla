------------------------------ MODULE AgentKernel ------------------------------
(***************************************************************************)
(* The kernel's own audits and how a guard turns findings into a verdict:  *)
(* AgentPromptKernelValidator around ProposalQualityGuard (the service's   *)
(* guard), and FullProposalQualityGuard (the executor's default).          *)
(***************************************************************************)
EXTENDS ProposalQuality

CONSTANTS
    FullSize    \* sections from which a document is a whole proposal (8)

-----------------------------------------------------------------------------
(* Scheme rules, relations, facts.                                          *)

Unauthoritative == {"MODEL_INFERENCE", "REFERENCE_PROPOSAL", "PUBLIC_SOURCE"}
Usable(rule) == {r \in rule.refs : r.real}
AuditScheme(rules, covered, hasCoverage, ambiguous) ==
    Flag("QG_SCHEME_RULE_NOT_COVERED",
         hasCoverage /\ \E x \in rules : x.id \notin covered) \cup
    Flag("QG_SCHEME_RULE_WITHOUT_SOURCE", \E x \in rules : Usable(x) = {}) \cup
    Flag("QG_SCHEME_EXTRAPOLATION_AS_MANDATORY",
         \E x \in rules : /\ x.mandatory
                          /\ \A r \in Usable(x) : r.type \in Unauthoritative) \cup
    Flag("QG_SCHEME_AMBIGUOUS_RULE_MARKED_MANDATORY",
         \E x \in rules : x.mandatory /\ x.id \in ambiguous)

\* Between which items a relation of the type may run.
Signatures == [
    CAUSED_BY         |-> <<{"GAP", "PROBLEM"}, {"ROOT_CAUSE"}>>,
    DECOMPOSES_TO     |-> <<{"OBJECTIVE"}, {"WORK_PACKAGE"}>>,
    HAS_CURRENT_STATE |-> <<{"PROJECT_BASIC", "DEMAND", "SCENARIO"}, {"CURRENT_STATE"}>>,
    HAS_GAP           |-> <<{"CURRENT_STATE", "EXISTING_APPROACH"}, {"GAP"}>>,
    MEASURED_BY       |-> <<{"OBJECTIVE", "DELIVERABLE", "EXPERIMENT"}, {"METRIC"}>>,
    OCCURS_IN         |-> <<{"DEMAND", "PROBLEM", "RISK"}, {"SCENARIO"}>>,
    SCHEDULED_IN      |-> <<{"WORK_PACKAGE"}, {"SCHEDULE_PHASE"}>>,
    VALIDATED_BY      |-> <<{"OBJECTIVE", "METHOD", "INNOVATION"}, {"EXPERIMENT", "METRIC"}>>]
Connected(pd, r) == r.source # r.target /\ Resolved(pd, r)
Misdirected(pd, r) ==
    /\ r.type \in DOMAIN Signatures
    /\ \/ ItemOf(pd, r.source).type \notin Signatures[r.type][1]
       \/ ItemOf(pd, r.target).type \notin Signatures[r.type][2]
AuditRelations(pd) ==
    Flag("QG_PROJECT_RELATION_ID_DUPLICATE",
         Cardinality({r.id : r \in pd.relations}) # Cardinality(pd.relations)) \cup
    Flag("QG_PROJECT_RELATION_ENDPOINT_INVALID",
         \E r \in pd.relations : ~Connected(pd, r)) \cup
    Flag("QG_PROJECT_RELATION_TYPE_MISMATCH",
         \E r \in pd.relations : Connected(pd, r) /\ ~Typed(pd, r)) \cup
    Flag("QG_PROJECT_RELATION_DIRECTION_INVALID",
         \E r \in pd.relations : Connected(pd, r) /\ Misdirected(pd, r))

\* clauses: the sentences of a claim; numeric: it holds numbers; bound: they have unit,
\* object and condition.
AuditAtoms(facts, covered, hasCoverage) ==
    LET Some(P(_)) == \E i \in DOMAIN facts : P(facts[i]) IN
    Flag("QG_FACT_ID_DUPLICATE", Cardinality(ClaimIds(facts)) # Len(facts)) \cup
    Flag("QG_FACT_NOT_ATOMIC", Some(LAMBDA f : f.clauses > 1)) \cup
    Flag("QG_FACT_SUBJECT_MISSING",
         Some(LAMBDA f : f.type # "MODEL_INFERENCE" /\ ~f.subject)) \cup
    Flag("QG_FACT_TEMPORAL_STATUS_UNKNOWN",
         Some(LAMBDA f : f.time = "UNKNOWN"
                         /\ f.type \in {"FACT", "PLAN", "EXPECTED_RESULT"})) \cup
    Flag("QG_FACT_NUMERIC_BINDING_MISSING", Some(LAMBDA f : f.numeric /\ ~f.bound)) \cup
    Flag("QG_FACT_CONFIRMED_WITHOUT_SOURCE",
         Some(LAMBDA f : f.status \in Settled /\ ~f.sourced)) \cup
    Flag("QG_FACT_COVERAGE_INCONSISTENT", hasCoverage /\ ClaimIds(facts) # covered)

-----------------------------------------------------------------------------
(* Critics and repairs.                                                     *)

\* precise: with a path, evidence that occurs in the candidate, and an instruction.
AuditPrecision(reported) ==
    Flag("QG_CRITIC_FINDING_NOT_PRECISE",
         \E f \in reported : f.severity \in {"P0", "P1"} /\ ~f.precise)

\* A path is the sequence of its parts.
AuditRepair(repair) ==
    Flag("QG_REPAIR_PATH_OUTSIDE_ALLOWLIST",
         \E path \in repair.changed : \/ ~Under(path, repair.allowed)
                                      \/ Under(path, repair.protected)) \cup
    Flag("QG_REPAIR_RESOLVED_UNKNOWN_FINDING", ~(repair.resolved \subseteq repair.requested))

-----------------------------------------------------------------------------
(* What the polish must keep in the text, and what a conclusion says.       *)

\* Of tables, formulas and figures the expression captures the marker alone.
Structural == {"TABLE", "FORMULA", "FIGURE"}
Structure(text) == SelectSeq([i \in DOMAIN text |-> Traits[text[i]].kind],
                             LAMBDA kind : kind \in Structural)
NumbersOf(text) == Spread(text, "numbers")
CitesOf(text) == Spread(text, "cites")
Counter(seq) == [x \in Elements(seq) |-> Cardinality({i \in DOMAIN seq : seq[i] = x})]
AuditStructure(original, polished) ==
    LET before == ContentText(original)
        after == ContentText(polished)
    IN  Flag("QG_EXPRESSION_STRUCTURE_BLOCK_CHANGED", Structure(before) # Structure(after)) \cup
        Flag("QG_EXPRESSION_NUMERIC_TOKEN_CHANGED",
             Counter(NumbersOf(before)) # Counter(NumbersOf(after))) \cup
        Flag("QG_EXPRESSION_CITATION_CHANGED",
             Counter(CitesOf(before)) # Counter(CitesOf(after)))

\* rows and claims: of a candidate, or of a blueprint, which has no summary.
AuditConclusion(rows, claims, ctx) ==
    LET advanced == (ClaimsOf(rows) \cup claims) \ {Absent} IN
    Flag("QG_CONCLUSION_QUESTIONS_UNANSWERED", ~(ctx.graph.questions \subseteq advanced)) \cup
    Flag("QG_CONCLUSION_CENTRAL_PROPOSITION_MISSING",
         ctx.graph.central \notin advanced \cup {Absent}) \cup
    Flag("QG_CONCLUSION_INTRODUCES_NEW_CLAIM",
         ~(advanced \subseteq NodeIds(ctx.graph) \cup ctx.contract.claims))
Conclusion(rows, claims, ctx) ==
    IF ctx.profile = "CONCLUSION" THEN AuditConclusion(rows, claims, ctx) ELSE {}

-----------------------------------------------------------------------------
(* The whole document.                                                      *)

PlacementOf(doc, s) == IF s \in DOMAIN doc.placement THEN doc.placement[s] ELSE "MAIN_BODY"
\* Mutant of MainSections: the selection is swapped.
AppendixSections(doc) == {s \in DOMAIN doc.sections : PlacementOf(doc, s) = "APPENDIX"}
MainSections(doc) == {s \in DOMAIN doc.sections : PlacementOf(doc, s) # "APPENDIX"}
Restricted(f, S) == [s \in S |-> f[s]]
RepetitionCodes == {"QG_DOCUMENT_TEMPLATE_REPETITION", "QG_DOCUMENT_DUPLICATE_INFORMATION_KEYS",
                    "QG_DOCUMENT_CLAIM_OVERCONCENTRATION",
                    "QG_DOCUMENT_DOMINATED_BY_AGENT_SYSTEM"}
\* Repetition is counted again without the appendix.  A code that no longer holds is
\* taken out; one that holds only now, by the lower threshold, is not put in.
Unjustified(doc) ==
    RepetitionCodes \ Repetition(Restricted(doc.sections, MainSections(doc)), doc.graph.central)

AuditBoundary(doc) ==
    Flag("QG_MAIN_BODY_CONTAINS_APPENDIX_TOPIC",
         \E s \in DOMAIN doc.sections :
            /\ PlacementOf(doc, s) = "MAIN_BODY"
            /\ \E b \in Elements(ContentText(doc.sections[s])) : Traits[b].appendix)

NodesOf(graph, types) == {n.id : n \in {x \in graph.nodes : x.type \in types}}
EvidenceIn(c) == UNION Column(c.paragraphs, "evidence")
ContractedAs(doc, profile) == {c.section : c \in {x \in doc.contracts : x.profile = profile}}
\* What the sections of certain profiles must bind to.  Without the node types in the
\* graph the finding is the graph's; for metrics there is then none.
AuditBindings(doc) ==
    LET cs == doc.sections
        Used(s) == IF s \in DOMAIN cs THEN EvidenceIn(cs[s]) ELSE {}
        Said(s) == IF s \in DOMAIN cs THEN Used(s) \cup cs[s].claims ELSE {}
        new == NodesOf(doc.graph, {"NOVEL_MECHANISM"})
        prior == NodesOf(doc.graph, {"CLOSEST_PRIOR_WORK"})
        team == NodesOf(doc.graph, {"TEAM_EVIDENCE"})
        metric == NodesOf(doc.graph, {"METRIC_JUSTIFICATION", "EXPERIMENT_DESIGN"})
        innovations == ContractedAs(doc, "INNOVATION")
        foundations == ContractedAs(doc, "RESEARCH_FOUNDATION")
    IN
    Flag("QG_CONCLUSION_DOES_NOT_CLOSE_ARGUMENT",
         \E s \in ContractedAs(doc, "CONCLUSION") :
            ~(({doc.graph.central} \ {Absent}) \cup new \subseteq Said(s))) \cup
    Flag("QG_INNOVATION_GRAPH_EVIDENCE_INCOMPLETE",
         innovations # {} /\ (prior = {} \/ new = {})) \cup
    Flag("QG_INNOVATION_SECTION_LACKS_BASELINE_BINDING",
         /\ prior # {} /\ new # {}
         /\ \E s \in innovations : Said(s) \cap prior = {} \/ Said(s) \cap new = {}) \cup
    Flag("QG_FOUNDATION_GRAPH_EVIDENCE_MISSING", foundations # {} /\ team = {}) \cup
    Flag("QG_FOUNDATION_SECTION_NOT_BOUND_TO_EVIDENCE",
         team # {} /\ \E s \in foundations : Used(s) \cap team = {}) \cup
    Flag("QG_METRIC_SECTION_LACKS_BASELINE_EVIDENCE",
         /\ metric # {}
         /\ \E s \in ContractedAs(doc, "OUTPUTS_AND_METRICS") : Used(s) \cap metric = {})
\* FullIntegrationQualityMixin: what it adds for a whole proposal.
AuditWhole(doc, report) ==
    LET cs == doc.sections
        IdOf(s) == {m.candidate : m \in {x \in doc.map : x.section = s}}
    IN
    IF Cardinality(doc.map) < FullSize THEN {} ELSE
    Flag("QG_INTEGRATION_CANDIDATE_IDENTITY_INVALID",
         \/ \E s \in DOMAIN cs : IdOf(s) # {cs[s].id}
         \/ \E s, t \in DOMAIN cs : s # t /\ cs[s].id = cs[t].id /\ cs[s].id # Absent) \cup
    Flag("QG_ARGUMENT_CHAIN_ID_UNKNOWN",
         ~(report.chained \ {Absent} \subseteq NodeIds(doc.graph))) \cup
    Flag("QG_DOCUMENT_CONTAINS_BLOCKING_UNRESOLVED_ITEMS",
         \E s \in DOMAIN cs : cs[s].unresolved) \cup
    AuditBindings(doc)

-----------------------------------------------------------------------------
(* From codes to the verdict.                                               *)

Fatal == {"QG_INTEGRATION_CANDIDATE_IDENTITY_INVALID", "QG_ARGUMENT_CHAIN_ID_UNKNOWN"}
Advice == {"QG_TEMPLATE_VOLUME_PROXY"}
Finding(code) == [code |-> code, blocking |-> code \notin Advice, precise |-> TRUE,
                  severity |-> CASE code \in Fatal -> "P0" [] code \in Advice -> "P2"
                                 [] OTHER -> "P1"]
\* The verdict of a set of findings; without a blocking one, what it was.
StatusBy(findings, otherwise) ==
    IF \E f \in findings : f.severity = "P0" /\ f.blocking THEN "BLOCK"
    ELSE IF \E f \in findings : f.severity = "P1" /\ f.blocking THEN "REVISE"
    ELSE otherwise

\* out: status and findings.  A code that is reported already is not reported again.
Merged(out, codes) ==
    LET known == {f.code : f \in out.findings} IN
    [status |-> StatusBy({Finding(c) : c \in codes}, out.status),
     findings |-> out.findings \cup {Finding(c) : c \in codes \ known}]

Recalculated(out, original) == [out EXCEPT !.status = StatusBy(out.findings, original)]

\* AgentPromptKernelValidator.apply: the base audit, without the codes that hold for
\* the appendix only, then the kernel's own.
ByKernel(out, base, dropped, own) ==
    LET checked == Merged(out, base)
        kept == [checked EXCEPT !.findings = {f \in @ : f.code \notin dropped}]
    IN  Recalculated(Merged(kept, own), out.status)

=============================================================================
