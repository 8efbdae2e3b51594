---------------------------- MODULE ProposalQuality ----------------------------
(***************************************************************************)
(* ProposalQualityGuard: the deterministic audits of what the prompts      *)
(* produce, as functions from the audited object to the codes of the       *)
(* findings.  Objects keep the fields the audits read; a sentence or an    *)
(* identifier is a member of a small set and a text a sequence of blocks,  *)
(* of which a constant gives the traits the audits look at.                *)
(***************************************************************************)
EXTENDS Naturals, Sequences, FiniteSets, SequencesExt

CONSTANTS
    Traits,   \* of a block: sentences, numbers, cites (sequences), meta (a count), kind, ...
    Frames    \* of a sentence: what is left of it when its names and numbers are replaced

Flag(code, when) == IF when THEN {code} ELSE {}
Elements(seq) == {seq[i] : i \in DOMAIN seq}
Distinct(seq) == Cardinality(Elements(seq)) = Len(seq)
Absent == ""
NoContract == [id |-> Absent, section |-> Absent, keys |-> {}, roles |-> {}, claims |-> {},
               evidence |-> {}, prereqs |-> {}, noRepeat |-> {}, placement |-> "MAIN_BODY",
               profile |-> Absent, words |-> 0]

-----------------------------------------------------------------------------
(* Sources.                                                                 *)

FoundationTypes == {"EVIDENCE_MATERIAL", "TECHNICAL_MATERIAL"}
\* A reference is real when it quotes something and its hash is not a placeholder.
HasRealSource(x) == \E r \in x.refs : r.real
\* Mutant of HasQualifiedSource: any real source proves prior work.
HasAnySource(x) == HasRealSource(x)
\* Only material proves what the applicant has done before.
HasQualifiedSource(x) == \E r \in x.refs : r.real /\ r.type \in FoundationTypes

Settled == {"CONFIRMED", "DOCUMENT_EXTRACTED"}
Foundations == {"ACHIEVEMENT", "CAPABILITY"}
Claimed(pd) == {i \in pd.items : i.type \in Foundations /\ i.status \in Settled}
FoundationIds(pd) == {i.id : i \in {x \in Claimed(pd) : HasQualifiedSource(x)}}

-----------------------------------------------------------------------------
(* Project definition, facts, readiness, template.                          *)

ResearchTypes == {"GAP", "PROBLEM", "OBJECTIVE", "WORK_PACKAGE", "METHOD", "EXPERIMENT",
                  "INNOVATION", "DELIVERABLE", "METRIC", "ACHIEVEMENT", "CAPABILITY"}
ItemTypes(pd) == {i.type : i \in pd.items}
ItemOf(pd, id) == CHOOSE i \in pd.items : i.id = id
ItemIds(pd) == {i.id : i \in pd.items}
Resolved(pd, r) == r.source \in ItemIds(pd) /\ r.target \in ItemIds(pd)
Typed(pd, r) == /\ ItemOf(pd, r.source).type = r.sourceType
                /\ ItemOf(pd, r.target).type = r.targetType

\* systemGoal: the objectives speak of a system to be built.
AuditDefinition(pd) ==
    Flag("QG_PROJECT_GRAPH_INCOMPLETE", ~(ResearchTypes \subseteq ItemTypes(pd))) \cup
    Flag("QG_PROJECT_GRAPH_TOO_SHALLOW", Cardinality(pd.items) < 10) \cup
    Flag("QG_CONFIRMED_ITEM_WITHOUT_EVIDENCE",
         \E i \in pd.items : i.status \in Settled /\ ~HasRealSource(i)) \cup
    Flag("QG_FOUNDATION_STATUS_EXCEEDS_EVIDENCE",
         \E i \in Claimed(pd) : ~HasQualifiedSource(i)) \cup
    Flag("QG_ENGINEERING_OBJECTIVE_MASQUERADES_AS_RESEARCH",
         /\ "OBJECTIVE" \in ItemTypes(pd) /\ pd.systemGoal
         /\ {"PROBLEM", "INNOVATION", "EXPERIMENT"} \cap ItemTypes(pd) = {}) \cup
    Flag("QG_RELATION_MATRIX_DIRECTION_INVALID",
         \E r \in pd.relations : ~Resolved(pd, r) \/ ~Typed(pd, r)) \cup
    Flag("QG_CONFIRMED_RELATION_WITHOUT_EVIDENCE",
         \E r \in pd.relations : /\ Resolved(pd, r) /\ r.status = "CONFIRMED"
                                 /\ ~HasRealSource(r)) \cup
    Flag("QG_METRIC_BASIS_INCOMPLETE",
         \E i \in pd.items : i.type = "METRIC" /\ ~i.basis)

\* A package: the sequence of its claims, and the claims its coverage lists (the
\* critic is given no coverage).
ClaimIds(facts) == {facts[i].id : i \in DOMAIN facts}
AuditFacts(facts, covered, hasCoverage) ==
    Flag("QG_FACT_NOT_ATOMIC", \E i \in DOMAIN facts : facts[i].clauses > 1) \cup
    Flag("QG_FACT_CORE_FIELDS_MISSING",
         \E i \in DOMAIN facts : ~facts[i].subject \/ facts[i].time = "none"
                                 \/ facts[i].status = "none") \cup
    Flag("QG_FACT_SOURCE_COVERAGE_INCOMPLETE",
         hasCoverage /\ ~(ClaimIds(facts) \subseteq covered))

RequiredProfiles == {"BACKGROUND_AND_SIGNIFICANCE", "LITERATURE_REVIEW",
                     "RESEARCH_OBJECTIVE", "RESEARCH_CONTENT", "KEY_ISSUE",
                     "TECHNICAL_ROUTE", "INNOVATION", "OUTPUTS_AND_METRICS",
                     "RESEARCH_FOUNDATION"}
\* The team's own evidence in the argument graph that claims to be established.
TeamClaims(graph) == {n \in graph.nodes : n.type = "TEAM_EVIDENCE"
                                          /\ n.status \in {"SUPPORTED", "CONFIRMED"}}
Unproved(graph) == \E n \in TeamClaims(graph) : ~HasQualifiedSource(n)

\* The report says which stage it assessed, whether that is ready, and which section
\* profiles can be written.
AuditReadiness(pd, graph, stage, report) ==
    AuditDefinition(pd) \cup
    Flag("QG_READINESS_STAGE_MISMATCH", report.stage # stage) \cup
    (IF stage = "READY_FOR_ARGUMENT_ARCHITECTURE"
     THEN Flag("QG_ARGUMENT_ARCHITECTURE_NOT_READY", ~report.readyToArgue)
     ELSE Flag("QG_FOUNDATION_FALSE_READY",
               /\ FoundationIds(pd) = {} \/ Unproved(graph)
               /\ "RESEARCH_FOUNDATION" \in report.writable \/ report.readyToPlan) \cup
          Flag("QG_FALSE_READINESS",
               ~(RequiredProfiles \subseteq report.writable) \/ ~report.readyToPlan))

\* components: their number; patterns: argument or expression patterns were found;
\* volume: the format rules prescribe a volume.
AuditTemplate(t) ==
    Flag("QG_TEMPLATE_ONLY_FORMAT", t.components < 5 \/ ~t.patterns) \cup
    Flag("QG_TEMPLATE_VOLUME_PROXY", t.volume)

-----------------------------------------------------------------------------
(* Argument architecture.                                                   *)

NodeTypes == {"RESEARCH_GAP", "CLOSEST_PRIOR_WORK", "OBJECTIVE", "WORK_PACKAGE",
              "FORMAL_MODEL", "EXPERIMENT_DESIGN", "NOVEL_MECHANISM", "TEAM_EVIDENCE"}
Links == {"gap_ids", "objective_ids", "work_package_ids", "method_ids",
          "evaluation_ids", "innovation_ids", "closest_prior_work_ids"}
Dimensions == {"DOCUMENT_TYPE_FIT", "CENTRAL_THESIS", "ARGUMENT_CHAIN", "EVIDENCE_SUPPORT",
               "METHOD_SUBSTANCE", "INNOVATION_BASELINE", "FEASIBILITY_FOUNDATION",
               "METRIC_JUSTIFICATION", "SECTION_UNIQUENESS", "STYLE_AND_DENSITY",
               "PAGE_BUDGET", "CROSS_SECTION_CONSISTENCY"}
ArgumentDimensions == {"CENTRAL_THESIS", "ARGUMENT_CHAIN", "EVIDENCE_SUPPORT",
                       "METHOD_SUBSTANCE", "INNOVATION_BASELINE",
                       "FEASIBILITY_FOUNDATION", "METRIC_JUSTIFICATION"}
NodeIds(graph) == {n.id : n \in graph.nodes} \cup {graph.central} \cup graph.questions

AuditArchitecture(a) ==
    LET graph == a.graph IN
    Flag("QG_ARGUMENT_NO_TESTABLE_PROPOSITION", ~graph.testable) \cup
    Flag("QG_ARGUMENT_QUESTION_COUNT", Cardinality(graph.questions) \notin 1 .. 4) \cup
    Flag("QG_ARGUMENT_NODE_TYPES_INCOMPLETE",
         ~(NodeTypes \subseteq {n.type : n \in graph.nodes})) \cup
    Flag("QG_ARGUMENT_MATRIX_COVERAGE",
         {row.question : row \in a.matrix} # graph.questions) \cup
    Flag("QG_ARGUMENT_MATRIX_INCOMPLETE",
         \E row \in a.matrix : \E l \in Links :
            row.links[l] = {} \/ ~(row.links[l] \subseteq NodeIds(graph))) \cup
    Flag("QG_ARGUMENT_FOUNDATION_UNSUPPORTED", Unproved(graph)) \cup
    Flag("QG_ARGUMENT_FALSE_READY", a.gaps /\ a.ready)

\* scored: the dimensions the scorecard passes with 3 or more.
AuditArchitectureReview(a, review) ==
    AuditArchitecture(a) \cup
    Flag("QG_ARGUMENT_CRITIC_PARTIAL", review.checked # NodeIds(a.graph)) \cup
    Flag("QG_ARGUMENT_CRITIC_CHAIN_SCOPE", review.chains < 7) \cup
    Flag("QG_ARGUMENT_CRITIC_SCORECARD_INCOMPLETE",
         ~(ArgumentDimensions \subseteq review.scored))

-----------------------------------------------------------------------------
(* Plan: the contracts of the sections.                                     *)

\* _audit_plan.visit, one call of the depth-first search: visiting is the chain of open
\* calls.  A section without contract has no parents.  The sections visited before only
\* save time, and what remains of a search that met a cycle finds nothing more.
Parents(contracts, s) == UNION {c.prereqs : c \in {d \in contracts : d.section = s}}
Known(contracts) == {c.section : c \in contracts}
\* Mutant of Cyclic: a section is compared with its own prerequisites only.
CyclicOneStep(contracts) == \E c \in contracts : c.section \in c.prereqs
Cyclic(contracts) ==
    LET Meets[call \in (SUBSET Known(contracts)) \X Known(contracts)] ==
            LET visiting == call[1]
                s == call[2]
            IN  \/ s \in visiting
                \/ \E t \in Parents(contracts, s) \cap Known(contracts) :
                      Meets[<<visiting \cup {s}, t>>]
    IN  \E s \in Known(contracts) : Meets[<<{}, s>>]

Owners(contracts, key) == {c.section : c \in {d \in contracts : key \in d.keys}}
MainBody(contracts) == {c \in contracts : c.placement = "MAIN_BODY"}
Words(contracts) == MapThenSumSet(LAMBDA c : c.words, MainBody(contracts))

\* targets: their number; overCoverage, cloned: what the wording of issues and tasks
\* gives away; architecture: whether there is a narrative architecture, which the
\* contracts and the budget are parts of.
AuditPlan(plan) ==
    LET contracts == plan.contracts
        known == Known(contracts)
    IN
    Flag("QG_PLAN_DOCUMENT_BLOAT", plan.targets > 30) \cup
    Flag("QG_PLAN_COVERAGE_OVER_ARGUMENT", plan.overCoverage) \cup
    Flag("QG_PLAN_NO_NARRATIVE_ARCHITECTURE", ~plan.architecture) \cup
    Flag("QG_PLAN_TASKS_TEMPLATE_CLONED", plan.cloned) \cup
    Flag("QG_PLAN_SECTION_CONTRACT_ID_DUPLICATE",
         \/ Cardinality(known) # Cardinality(contracts)
         \/ Cardinality({c.id : c \in contracts}) # Cardinality(contracts)) \cup
    Flag("QG_PLAN_SECTION_PROFILE_HOMOGENEOUS",
         /\ Cardinality(MainBody(contracts)) >= 4
         /\ Cardinality({c.profile : c \in MainBody(contracts)}) < 3) \cup
    Flag("QG_PLAN_INFORMATION_KEY_MULTIPLE_OWNERS",
         \E c \in contracts : \E key \in c.keys :
            Cardinality(Owners(contracts, key)) > 1) \cup
    Flag("QG_PLAN_SECTION_REFERENCE_INVALID",
         \E c \in contracts : \/ ~(c.prereqs \cup c.noRepeat \subseteq known)
                              \/ c.section \in c.prereqs \cup c.noRepeat) \cup
    Flag("QG_PLAN_SECTION_DEPENDENCY_CYCLE", Cyclic(contracts)) \cup
    Flag("QG_PLAN_SECTION_BUDGET_OVERFLOW",
         plan.budget # 0 /\ Words(contracts) > plan.budget)

-----------------------------------------------------------------------------
(* Sections: the blueprint and what is written from it.  ctx is the payload  *)
(* of the section's prompts.                                                 *)

\* A key is the sequence of its parts: a contract owns a key and the keys below it.
Under(key, roots) == \E root \in roots : IsPrefix(root, key)
Column(rows, field) == {rows[i][field] : i \in DOMAIN rows}
KeysOf(rows) == Column(rows, "key")
ClaimsOf(rows) == Column(rows, "claim")
RolesOf(rows) == Column(rows, "role")
Foreign(rows, contract) ==
    contract.keys # {} /\ \E key \in KeysOf(rows) \ {<<>>} : ~Under(key, contract.keys)

\* A blueprint is the sequence of its paragraphs.
AuditBlueprint(rows, ctx) ==
    LET contract == ctx.contract IN
    Flag("QG_BLUEPRINT_GENERIC_SIX_PART_TEMPLATE",
         rows # <<>> /\ 100 * Cardinality({i \in DOMAIN rows : rows[i].generic})
                         >= 35 * Len(rows)) \cup
    Flag("QG_BLUEPRINT_SINGLE_SOURCE_FOR_ALL_PARAGRAPHS",
         Len(rows) >= 4 /\ Cardinality(Column(rows, "slots")) = 1) \cup
    Flag("QG_WRONG_SECTION_PROFILE",
         ctx.profile = "RESEARCH_CONTENT" /\ ~ctx.titled) \cup
    Flag("QG_BLUEPRINT_MISSING_INFORMATION_IDENTITY",
         contract.id # Absent /\ <<>> \in KeysOf(rows)) \cup
    Flag("QG_BLUEPRINT_DUPLICATE_INFORMATION_KEYS",
         Cardinality(KeysOf(rows)) # Len(rows)) \cup
    Flag("QG_BLUEPRINT_INFORMATION_KEY_OUTSIDE_CONTRACT", Foreign(rows, contract)) \cup
    Flag("QG_BLUEPRINT_REUSES_PRIOR_INFORMATION",
         KeysOf(rows) \cap ctx.priorKeys # {}) \cup
    Flag("QG_BLUEPRINT_REQUIRED_ROLES_MISSING", ~(contract.roles \subseteq RolesOf(rows))) \cup
    Flag("QG_BLUEPRINT_REQUIRED_CLAIMS_MISSING", ~(contract.claims \subseteq ClaimsOf(rows)))

\* The text of a candidate: its own, or that of its paragraphs.
ContentText(c) == IF c.text # <<>> THEN c.text
                  ELSE [i \in DOMAIN c.paragraphs |-> c.paragraphs[i].text]
Total(seq) == FoldSeq(LAMBDA x, y : x + y, 0, seq)
Spread(text, trait) == FlattenSeq([i \in DOMAIN text |-> Traits[text[i]][trait]])
SentencesOf(text) == Spread(text, "sentences")
MetaOf(text) == Total([i \in DOMAIN text |-> Traits[text[i]].meta])
TextsOf(c) == [i \in DOMAIN c.paragraphs |-> c.paragraphs[i].text]
SystemProfiles == {"SYSTEM_IMPLEMENTATION", "APPENDIX", "DEPLOYMENT"}
TraceSources(c) == {t.source : t \in c.traces} \ {Absent}
Citable(ctx) ==
    ctx.items \cup ctx.facts \cup NodeIds(ctx.graph) \cup {ctx.contract.id, ctx.section}

AuditContent(c, ctx) ==
    LET contract == ctx.contract
        rows == c.paragraphs
    IN
    IF ContentText(c) = <<>> THEN {"QG_EMPTY_SECTION"} ELSE
    Flag("QG_SECTION_INTERNAL_REPETITION",
         ~Distinct(TextsOf(c)) \/ ~Distinct(SentencesOf(ContentText(c)))) \cup
    Flag("QG_DOCUMENT_TYPE_DRIFT_TO_SYSTEM_MANUAL",
         MetaOf(ContentText(c)) >= 3 /\ ctx.profile \notin SystemProfiles) \cup
    Flag("QG_TRACE_POINTS_TO_NONEXISTENT_SOURCE",
         ~(TraceSources(c) \subseteq Citable(ctx))) \cup
    Flag("QG_CONTENT_SECTION_CONTRACT_MISMATCH",
         contract.id # Absent
         /\ Column(rows, "contract") # {contract.id}) \cup
    Flag("QG_CONTENT_REQUIRED_CLAIMS_NOT_ADVANCED",
         ~(contract.claims \subseteq ClaimsOf(rows))) \cup
    Flag("QG_CONTENT_REQUIRED_ROLES_MISSING", ~(contract.roles \subseteq RolesOf(rows))) \cup
    Flag("QG_CONTENT_INFORMATION_KEY_OUTSIDE_CONTRACT", Foreign(rows, contract)) \cup
    Flag("QG_CONTENT_REUSES_PRIOR_INFORMATION", KeysOf(rows) \cap ctx.priorKeys # {}) \cup
    Flag("QG_CONTENT_ADVANCEMENT_CONTRACT_MISMATCH",
         contract.id # Absent /\ c.contract # contract.id) \cup
    Flag("QG_CONTENT_ADVANCEMENT_SUMMARY_INCONSISTENT",
         c.claims # ClaimsOf(rows) \/ c.keys # KeysOf(rows))

\* Mutant of Identity: the claim may be reworded.
IdentityWithoutClaim(row) ==
    <<row.plan, row.role, row.key, row.contract, row.evidence, row.traces>>
\* What the polish may not touch in the paragraph of the same id.
Identity(row) == <<row.plan, row.role, row.claim, row.key, row.contract, row.evidence, row.traces>>
IdsOf(c) == Column(c.paragraphs, "id")
\* Of paragraphs with one id the last counts.
RowOf(c, id) == c.paragraphs[Max({i \in DOMAIN c.paragraphs : c.paragraphs[i].id = id})]
AuditExpression(original, polished) ==
    Flag("QG_EXPRESSION_PARAGRAPH_ID_CHANGED", IdsOf(original) # IdsOf(polished)) \cup
    Flag("QG_EXPRESSION_TRACE_CHANGED",
         {t.id : t \in original.traces} # {t.id : t \in polished.traces}) \cup
    Flag("QG_EXPRESSION_SEMANTIC_IDENTITY_CHANGED",
         \/ \E id \in IdsOf(original) \cap IdsOf(polished) :
               Identity(RowOf(original, id)) # Identity(RowOf(polished, id))
         \/ <<original.contract, original.claims, original.keys>>
               # <<polished.contract, polished.claims, polished.keys>>) \cup
    Flag("QG_EXPRESSION_MEANING_CHANGED", ~polished.meaningKept)

CommonDimensions == {"DOCUMENT_TYPE_FIT", "ARGUMENT_CHAIN", "EVIDENCE_SUPPORT",
                     "SECTION_UNIQUENESS", "STYLE_AND_DENSITY"}
ProfileDimensions(profile) ==
    CASE profile \in {"ABSTRACT", "PROJECT_OVERVIEW", "BACKGROUND_AND_SIGNIFICANCE", "KEY_ISSUE"}
                                              -> {"CENTRAL_THESIS"}
      [] profile = "LITERATURE_REVIEW"        -> {"CENTRAL_THESIS", "INNOVATION_BASELINE"}
      [] profile = "RESEARCH_OBJECTIVE"       -> {"CENTRAL_THESIS", "METRIC_JUSTIFICATION"}
      [] profile \in {"RESEARCH_CONTENT", "METHOD_AND_ALGORITHM"} -> {"METHOD_SUBSTANCE"}
      [] profile = "TECHNICAL_ROUTE"          -> {"METHOD_SUBSTANCE", "CROSS_SECTION_CONSISTENCY"}
      [] profile = "EVALUATION"               -> {"METHOD_SUBSTANCE", "METRIC_JUSTIFICATION"}
      [] profile = "INNOVATION"               -> {"INNOVATION_BASELINE"}
      [] profile = "OUTPUTS_AND_METRICS"      -> {"METRIC_JUSTIFICATION"}
      [] profile = "RESEARCH_FOUNDATION"      -> {"FEASIBILITY_FOUNDATION"}
      [] OTHER                                -> {}

\* The expression critic is given no section profile.
AuditCritic(c, review, ctx, profiled) ==
    Flag("QG_CRITIC_DID_NOT_READ_ALL_PARAGRAPHS",
         IdsOf(c) # {} /\ review.checked # IdsOf(c)) \cup
    Flag("QG_CRITIC_DIMENSIONS_TOO_SHALLOW", Cardinality(review.rules) < 6) \cup
    (IF ~profiled THEN {} ELSE
     Flag("QG_CRITIC_PROFILE_RULES_NOT_CHECKED", ~(ctx.rules \subseteq review.rules)) \cup
     Flag("QG_CRITIC_REQUIRED_SCORECARD_MISSING",
          ~(CommonDimensions \cup ProfileDimensions(ctx.profile) \subseteq review.scored)))

-----------------------------------------------------------------------------
(* The whole document.  doc.sections maps a section to its candidate.       *)

\* What at least so many sections have; of: what each of them has.
Groups(of, least) ==
    {x \in UNION {of[s] : s \in DOMAIN of} :
        Cardinality({s \in DOMAIN of : x \in of[s]}) >= least}
ParagraphsIn(c) == Elements(TextsOf(c))
SentencesIn(c) == Elements(SentencesOf(TextsOf(c)))
FramesIn(c) == {Frames[x] : x \in SentencesIn(c)}
Max2(a, b) == IF a > b THEN a ELSE b
SentenceThreshold(n) == Max2(3, (8 * n + 99) \div 100)
ClaimThreshold(n) == Max2(4, (n + 3) \div 4)
MetaThreshold(n) == Max2(10, n \div 2)

\* What is repeated across the given sections, as codes.
Repetition(sections, central) ==
    LET n == Cardinality(DOMAIN sections)
        Shared(Of(_), least) == Groups([s \in DOMAIN sections |-> Of(sections[s])], least)
    IN
    Flag("QG_DOCUMENT_TEMPLATE_REPETITION",
         Shared(ParagraphsIn, 2)
         \cup Shared(SentencesIn, SentenceThreshold(n))
         \cup Shared(FramesIn, SentenceThreshold(n)) # {}) \cup
    Flag("QG_DOCUMENT_DUPLICATE_INFORMATION_KEYS",
         Shared(LAMBDA c : c.keys \ {<<>>}, 2) # {}) \cup
    Flag("QG_DOCUMENT_CLAIM_OVERCONCENTRATION",
         Shared(LAMBDA c : c.claims \ {Absent, central}, ClaimThreshold(n)) # {}) \cup
    Flag("QG_DOCUMENT_DOMINATED_BY_AGENT_SYSTEM",
         MapThenSumSet(LAMBDA s : MetaOf(ContentText(sections[s])), DOMAIN sections)
            >= MetaThreshold(n))

Chains == {"GAP_TO_QUESTION", "QUESTION_TO_OBJECTIVE", "OBJECTIVE_TO_WORK_PACKAGE",
           "WORK_PACKAGE_TO_METHOD", "METHOD_TO_EVALUATION", "RESULT_TO_CONTRIBUTION"}
\* report: the integration critic's own checks.
AuditDocument(doc, report) ==
    LET expected == {m.section : m \in {x \in doc.map : x.candidate # Absent}} IN
    Flag("QG_INTEGRATION_CANDIDATE_SET_INCOMPLETE",
         expected # {} /\ DOMAIN doc.sections # expected) \cup
    Repetition(doc.sections, doc.graph.central) \cup
    Flag("QG_INTEGRATION_FABRICATED_MAPPING",
         ~(report.mapped \ {Absent} \subseteq doc.items)) \cup
    Flag("QG_CROSS_SECTION_VALUE_CONFLICT", ~report.consistent) \cup
    Flag("QG_CROSS_SECTION_MAPPING_INCOMPLETE", ~report.mappingsComplete) \cup
    Flag("QG_ARGUMENT_CHAIN_NOT_CLOSED", ~(Chains \subseteq report.chains)) \cup
    Flag("QG_INTEGRATION_SCOPE_TOO_NARROW", ~(Dimensions \subseteq report.scored))

=============================================================================
