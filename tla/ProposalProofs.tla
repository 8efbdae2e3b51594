---------------------------- MODULE ProposalProofs ----------------------------
(***************************************************************************)
(* What the guards guarantee of a proposal, for every set of answers, of   *)
(* opinions and of repairs.                                                *)
(***************************************************************************)
EXTENDS Proposal, FiniteSetTheorems, WellFoundedInduction, TLAPS

-----------------------------------------------------------------------------
(* The steps.                                                               *)

LEMMA StepsAre ==
    /\ DOMAIN Steps = 1 .. 18
    /\ \A i \in 1 .. 18 :
          /\ Steps[i].does = "PRODUCE" => i \in {1, 3, 5, 8, 10, 13}
          /\ Steps[i].does = "REVIEW" => i \in {2, 4, 6, 9, 11, 14}
          /\ Steps[i].does = "ASSESS" => i \in {7, 12}
          /\ Steps[i].does = "WRITE" => i = 15
          /\ Steps[i].does = "INTEGRATE" => i = 16
          /\ Steps[i].does = "EXPORT" => i = 17
          /\ Steps[i].does = "INSPECT" => i = 18
  BY DEF Steps, Step

LEMMA StepsFor ==
    /\ Steps[1].what = "scheme" /\ Steps[3].what = "definition" /\ Steps[5].what = "facts"
    /\ Steps[8].what = "template" /\ Steps[10].what = "architecture" /\ Steps[13].what = "plan"
    /\ Steps[12].what = "READY_FOR_SECTION_PLANNING"
  BY DEF Steps, Step

LEMMA PositionsAre ==
    /\ Position(Step("PRODUCE", "plan")) = 13
    /\ Position(Step("ASSESS", "READY_FOR_SECTION_PLANNING")) = 12
    /\ Position(Step("INTEGRATE", "document")) = 16
<1>1. Position(Step("PRODUCE", "plan")) = 13
  BY DEF Position, Steps, Step
<1>2. Position(Step("ASSESS", "READY_FOR_SECTION_PLANNING")) = 12
  BY DEF Position, Steps, Step
<1>3. Position(Step("INTEGRATE", "document")) = 16
  BY DEF Position, Steps, Step
<1> QED
  BY <1>1, <1>2, <1>3

-----------------------------------------------------------------------------
(* Verdicts.                                                                *)

\* No finding of the model itself hides one of these codes: with the service's guard a
\* code that the model reported already is not reported again, whatever the model made
\* of it.
Unmasked(codes) ==
    guard = "TRACK_B" =>
        \A own \in Opinions : \A f \in own.findings :
            f.code \in codes => f.blocking /\ f.severity \in {"P0", "P1"}

Guards == guard \in {"TRACK_B", "FULL"}

\* A code of the base audit is in the way of PASS, but for advice, for what is dropped and
\* for what the model's own finding hides.
LEMMA BaseHolds ==
    ASSUME Guards, NEW own, NEW base, NEW dropped, NEW kernel, NEW code \in base \ dropped,
           code \notin Advice,
           guard = "TRACK_B" =>
              \A f \in own.findings : f.code = code => f.blocking /\ f.severity \in {"P0", "P1"}
    PROVE  Verdict(own, base, dropped, kernel).status # "PASS"
<1>1. Finding(code).blocking /\ Finding(code).severity \in {"P0", "P1"} /\ Finding(code).code = code
  BY DEF Finding, Advice, Fatal
<1>2. CASE guard = "FULL"
  <2>1. Verdict(own, base, dropped, kernel) = Merged(own, base)
    BY <1>2 DEF Verdict
  <2>2. Merged(own, base).status = StatusBy({Finding(c) : c \in base}, own.status)
    BY DEF Merged
  <2> QED
    BY <1>1, <2>1, <2>2 DEF StatusBy
<1>3. CASE guard = "TRACK_B"
  <2> DEFINE checked == Merged(own, base)
             kept == [checked EXCEPT !.findings = {f \in @ : f.code \notin dropped}]
             out == Merged(kept, kernel)
  <2>1. checked = [status |-> checked.status, findings |-> checked.findings]
    BY DEF Merged
  <2>2. PICK f \in checked.findings : f.code = code /\ f.blocking /\ f.severity \in {"P0", "P1"}
    <3>1. CASE \E f \in own.findings : f.code = code
      BY <3>1, <1>3 DEF Merged
    <3>2. CASE ~\E f \in own.findings : f.code = code
      BY <3>2, <1>1 DEF Merged
    <3> QED
      BY <3>1, <3>2
  <2>3. f \in kept.findings
    BY <2>1, <2>2
  <2>4. f \in out.findings /\ out = [status |-> out.status, findings |-> out.findings]
    BY <2>3 DEF Merged
  <2>5. Verdict(own, base, dropped, kernel) = Recalculated(out, own.status)
    BY <1>3 DEF Verdict, ByKernel
  <2>6. Recalculated(out, own.status).status = StatusBy(out.findings, own.status)
    BY <2>4 DEF Recalculated
  <2> HIDE DEF out
  <2> QED
    BY <2>2, <2>4, <2>5, <2>6 DEF StatusBy
<1> QED
  BY <1>2, <1>3 DEF Guards

\* A producer's answer reports nothing, so that nothing is hidden.
LEMMA SilentHolds ==
    ASSUME Guards, NEW base, NEW kernel, NEW code \in base, code \notin Advice
    PROVE  Verdict(Silent, base, {}, kernel).status # "PASS"
<1>1. Silent.findings = {}
  BY DEF Silent
<1> QED
  BY <1>1, BaseHolds, Zenon

\* Nor does a critic hide what is unmasked.
LEMMA SpokenHolds ==
    ASSUME Guards, NEW own \in Opinions, NEW base, NEW dropped, NEW kernel, NEW codes,
           Unmasked(codes), NEW code \in base \ dropped, code \in codes, code \notin Advice
    PROVE  Verdict(Spoken(own), base, dropped, kernel).status # "PASS"
<1>1. Spoken(own).findings = own.findings
  BY DEF Spoken
<1>2. guard = "TRACK_B" =>
        \A f \in Spoken(own).findings : f.code = code => f.blocking /\ f.severity \in {"P0", "P1"}
  BY <1>1 DEF Unmasked
<1> QED
  BY <1>2, BaseHolds

LEMMA FlagRaised == ASSUME NEW code, NEW when, when PROVE code \in Flag(code, when)
  BY DEF Flag

-----------------------------------------------------------------------------
(* How the steps follow one another.                                        *)

InOrder == Guards /\ at \in 0 .. 19

\* A section's action: of the others' state it changes the order at most.
SectionStep(s) ==
    \/ Blueprint(s) \/ BlueprintCritic(s) \/ Draft(s) \/ Enrich(s) \/ Critic(s)
    \/ Polish(s) \/ PolishCritic(s)

LEMMA SectionFrame ==
    ASSUME NEW s \in Names, SectionStep(s)
    PROVE  /\ at = 15 /\ at' \in {0, at} /\ s \in ToWrite
           /\ UNCHANGED <<guard, made, fixed, file, pdf>>
<1> USE DEF Stop
<1>1. \A phase : Ready(s, phase) => at = 15 /\ s \in ToWrite
  BY StepsAre DEF Ready, Doing
<1>2. CASE Blueprint(s)
  BY <1>1, <1>2 DEF Blueprint
<1>3. CASE BlueprintCritic(s)
  BY <1>1, <1>3 DEF BlueprintCritic, Judge
<1>4. CASE Draft(s)
  BY <1>1, <1>4 DEF Draft
<1>5. CASE Enrich(s)
  BY <1>1, <1>5 DEF Enrich
<1>6. CASE Critic(s)
  BY <1>1, <1>6 DEF Critic, Judge
<1>7. CASE Polish(s)
  BY <1>1, <1>7 DEF Polish
<1>8. CASE PolishCritic(s)
  BY <1>1, <1>8 DEF PolishCritic
<1> QED
  BY <1>2, <1>3, <1>4, <1>5, <1>6, <1>7, <1>8 DEF SectionStep

LEMMA NextIs ==
    ASSUME [Next]_vars
    PROVE  \/ Produce \/ Accept \/ Repair \/ Reject \/ Assess
           \/ \E s \in Names : SectionStep(s)
           \/ AllWritten \/ Integrate \/ Export \/ Inspect \/ UNCHANGED vars
  BY DEF Next, SectionStep

\* Steps are taken one by one; only upstream answers and approvals change what is made.
LEMMA Frame ==
    ASSUME InOrder, [Next]_vars
    PROVE  /\ guard' = guard
           /\ \/ Produce \/ Accept
              \/ made' = made /\ at' \in {0, at}
              \/ made' = made /\ at' = at + 1 /\ at \in {7, 12, 15, 16, 17, 18}
<1> USE StepsAre DEF Doing, Onward
<1>1. CASE Produce
  BY <1>1 DEF Produce
<1>2. CASE Accept
  BY <1>2 DEF Accept
<1>3. CASE Repair \/ Reject
  BY <1>3 DEF Repair, Reject
<1>4. CASE Assess
  BY <1>4 DEF Assess
<1>5. CASE \E s \in Names : SectionStep(s)
  BY <1>5, SectionFrame
<1>6. CASE AllWritten
  BY <1>6 DEF AllWritten
<1>7. CASE Integrate
  BY <1>7 DEF Integrate
<1>8. CASE Export
  BY <1>8 DEF Export
<1>9. CASE Inspect
  BY <1>9 DEF Inspect
<1>10. CASE UNCHANGED vars
  BY <1>10 DEF vars
<1> QED
  BY NextIs, <1>1, <1>2, <1>3, <1>4, <1>5, <1>6, <1>7, <1>8, <1>9, <1>10

\* An answer is committed under its producer; what was committed under others stays.
LEMMA ProduceFrame ==
    ASSUME InOrder, Produce
    PROVE  /\ at \in {1, 3, 5, 8, 10, 13} /\ at' \in {0, at + 1}
           /\ \A x \in DOMAIN made : x # What => x \in DOMAIN made' /\ made'[x] = made[x]
           /\ UNCHANGED <<guard, fixed, sec, order, file, pdf>>
<1>1. at \in {1, 3, 5, 8, 10, 13}
  BY StepsAre DEF Produce, Doing
<1>2. \E x : made' = [y \in DOMAIN made \cup {What} |-> IF y = What THEN x ELSE made[y]]
  BY DEF Produce
<1>3. at' \in {0, at + 1}
  BY DEF Produce, Onward
<1>4. \A x \in DOMAIN made : x # What => x \in DOMAIN made' /\ made'[x] = made[x]
  BY <1>2
<1> QED
  BY <1>1, <1>3, <1>4 DEF Produce

LEMMA AcceptFrame ==
    ASSUME InOrder, Accept
    PROVE  /\ at \in {2, 4, 6, 9, 11, 14} /\ at' = at + 1
           /\ \A x \in DOMAIN made \ {"scheme", "template"} :
                 x \in DOMAIN made' /\ made'[x] = made[x]
           /\ UNCHANGED <<guard, sec, order, file, pdf>>
  BY StepsAre DEF Accept, Doing

LEMMA OrderKept == ASSUME InOrder, [Next]_vars PROVE InOrder'
<1>1. at' \in 0 .. 19
  BY Frame, ProduceFrame, AcceptFrame DEF InOrder
<1> QED
  BY <1>1, Frame DEF InOrder, Guards

-----------------------------------------------------------------------------
(* The foundation and the plan.                                             *)

\* What the audits of the producers' answers leave in what is made.
Audited ==
    /\ at > 3 => /\ "definition" \in DOMAIN made
                 /\ \A i \in Claimed(made["definition"]) : HasQualifiedSource(i)
    /\ at > 10 => "architecture" \in DOMAIN made /\ ~Unproved(made["architecture"].graph)
    /\ at > 13 => /\ "plan" \in DOMAIN made /\ made["plan"] \in Answers["plan"]
                  /\ ~Cyclic(Contracts)

\* What the readiness critic's answer shows: prior work that is claimed.
Founded == at > 12 => FoundationIds(made["definition"]) # {}

\* The answers of these producers are audited whole, and become what is made.
LEMMA ProducedWhole ==
    ASSUME InOrder, Produce, at' # 0, What \in {"definition", "architecture", "plan"}
    PROVE  \E answer \in Answers[What] :
              /\ What \in DOMAIN made' /\ made'[What] = answer
              /\ \E kernel : Verdict(Silent, BaseAudit(What, answer), {}, kernel).status = "PASS"
<1>1. PICK answer \in Answers[What] :
        LET x == Object(What, answer)
            base == IF What = "facts" THEN AuditFacts(x, answer.covered, TRUE)
                    ELSE BaseAudit(What, x)
            kernel == CASE What = "facts"  -> AuditAtoms(x, answer.covered, TRUE)
                        [] What = "scheme" ->
                              AuditScheme(x, answer.covered, TRUE, answer.ambiguous)
                        [] OTHER           -> KernelAudit(What, x)
        IN  /\ made' = [y \in DOMAIN made \cup {What} |-> IF y = What THEN x ELSE made[y]]
            /\ Onward(Verdict(Silent, base, {}, kernel).status = "PASS")
  BY DEF Produce
<1>2. Object(What, answer) = answer
  BY DEF Object
<1>3. made' = [y \in DOMAIN made \cup {What} |-> IF y = What THEN answer ELSE made[y]]
  BY <1>1, <1>2
<1>4. \E kernel : Onward(Verdict(Silent, BaseAudit(What, answer), {}, kernel).status = "PASS")
  BY <1>1, <1>2
<1>5. \E kernel : Verdict(Silent, BaseAudit(What, answer), {}, kernel).status = "PASS"
  BY <1>4 DEF Onward
<1>6. What \in DOMAIN made' /\ made'[What] = answer
  BY <1>3
<1> QED
  BY <1>5, <1>6

LEMMA DefinitionAudited ==
    ASSUME Guards, NEW pd, NEW kernel,
           Verdict(Silent, AuditDefinition(pd), {}, kernel).status = "PASS"
    PROVE  \A i \in Claimed(pd) : HasQualifiedSource(i)
<1>1. "QG_FOUNDATION_STATUS_EXCEEDS_EVIDENCE" \notin AuditDefinition(pd)
  BY SilentHolds DEF Advice
<1> QED
  BY <1>1 DEF AuditDefinition, Flag

LEMMA ArchitectureAudited ==
    ASSUME Guards, NEW a, NEW kernel,
           Verdict(Silent, AuditArchitecture(a), {}, kernel).status = "PASS"
    PROVE  ~Unproved(a.graph)
<1>1. "QG_ARGUMENT_FOUNDATION_UNSUPPORTED" \notin AuditArchitecture(a)
  BY SilentHolds DEF Advice
<1> QED
  BY <1>1 DEF AuditArchitecture, Flag

LEMMA PlanAudited ==
    ASSUME Guards, NEW plan, NEW kernel,
           Verdict(Silent, AuditPlan(plan), {}, kernel).status = "PASS"
    PROVE  ~Cyclic(plan.contracts)
<1>1. "QG_PLAN_SECTION_DEPENDENCY_CYCLE" \notin AuditPlan(plan)
  BY SilentHolds DEF Advice
<1> QED
  BY <1>1 DEF AuditPlan, Flag

LEMMA AuditedByProduce == ASSUME InOrder, Audited, Produce PROVE Audited'
<1>1. CASE at' = 0
  BY <1>1 DEF Audited
<1>2. CASE at' # 0 /\ at \in {1, 5, 8}
  <2>1. What \in {"scheme", "facts", "template"}
    BY <1>2, StepsFor DEF What
  <2>2. at' = at + 1 /\ at' \in {2, 6, 9}
    BY <1>2, ProduceFrame
  <2>3. ~(at' > 10) /\ ~(at' > 13) /\ (at' > 3 => at > 3)
    BY <1>2, <2>2
  <2>4. at > 3 => "definition" \in DOMAIN made' /\ made'["definition"] = made["definition"]
    BY <2>1, ProduceFrame DEF Audited
  <2> QED
    BY <2>3, <2>4 DEF Audited
<1>3. CASE at' # 0 /\ at = 3
  <2>1. What = "definition" /\ at' = 4
    BY <1>3, StepsFor, ProduceFrame DEF What
  <2>2. PICK kernel : /\ "definition" \in DOMAIN made'
                      /\ Verdict(Silent, AuditDefinition(made'["definition"]), {}, kernel).status = "PASS"
    BY <1>3, <2>1, ProducedWhole DEF BaseAudit
  <2>3. \A i \in Claimed(made'["definition"]) : HasQualifiedSource(i)
    BY <2>2, DefinitionAudited DEF InOrder
  <2> QED
    BY <2>1, <2>2, <2>3 DEF Audited
<1>4. CASE at' # 0 /\ at = 10
  <2>1. What = "architecture" /\ at' = 11
    BY <1>4, StepsFor, ProduceFrame DEF What
  <2>2. PICK kernel : /\ "architecture" \in DOMAIN made'
                      /\ Verdict(Silent, AuditArchitecture(made'["architecture"]), {}, kernel).status = "PASS"
    BY <1>4, <2>1, ProducedWhole DEF BaseAudit
  <2>3. ~Unproved(made'["architecture"].graph)
    BY <2>2, ArchitectureAudited DEF InOrder
  <2>4. "definition" \in DOMAIN made' /\ made'["definition"] = made["definition"]
    BY <1>4, <2>1, ProduceFrame DEF Audited
  <2> QED
    BY <1>4, <2>1, <2>2, <2>3, <2>4 DEF Audited
<1>5. CASE at' # 0 /\ at = 13
  <2>1. What = "plan" /\ at' = 14
    BY <1>5, StepsFor, ProduceFrame DEF What
  <2>2. PICK kernel : /\ "plan" \in DOMAIN made' /\ made'["plan"] \in Answers["plan"]
                      /\ Verdict(Silent, AuditPlan(made'["plan"]), {}, kernel).status = "PASS"
    BY <1>5, <2>1, ProducedWhole DEF BaseAudit
  <2>3. ~Cyclic(made'["plan"].contracts)
    BY <2>2, PlanAudited DEF InOrder
  <2>4. \A x \in {"definition", "architecture"} : x \in DOMAIN made' /\ made'[x] = made[x]
    BY <1>5, <2>1, ProduceFrame DEF Audited
  <2> QED
    BY <1>5, <2>1, <2>2, <2>3, <2>4 DEF Audited, Contracts
<1> QED
  BY <1>1, <1>2, <1>3, <1>4, <1>5, ProduceFrame

LEMMA AuditedStep == ASSUME InOrder, Audited, [Next]_vars PROVE Audited'
<1>1. CASE Produce
  BY <1>1, AuditedByProduce
<1>2. CASE Accept
  <2>1. at' = at + 1 /\ at \notin {3, 10, 13} /\ at \in 0 .. 19
    BY <1>2, AcceptFrame
  <2>2. \A x \in {"definition", "architecture", "plan"} \cap DOMAIN made :
           x \in DOMAIN made' /\ made'[x] = made[x]
    BY <1>2, AcceptFrame
  <2> QED
    BY <2>1, <2>2 DEF Audited, Contracts
<1>3. CASE made' = made /\ at' \in {0, at}
  BY <1>3 DEF Audited, Contracts
<1>4. CASE made' = made /\ at' = at + 1 /\ at \in {7, 12, 15, 16, 17, 18}
  BY <1>4 DEF Audited, Contracts
<1> QED
  BY <1>1, <1>2, <1>3, <1>4, Frame


\* An audit of readiness that is not hidden leaves no way to PASS without claimed work
\* that is proved.
LEMMA ReadinessAudited ==
    ASSUME Guards, Unmasked({"QG_FOUNDATION_FALSE_READY", "QG_FALSE_READINESS"}),
           NEW own \in Opinions, NEW pd, NEW graph, NEW report, NEW kernel,
           Verdict(Spoken(own),
                   AuditReadiness(pd, graph, "READY_FOR_SECTION_PLANNING", report), {},
                   kernel).status = "PASS"
    PROVE  FoundationIds(pd) # {}
<1> DEFINE base == AuditReadiness(pd, graph, "READY_FOR_SECTION_PLANNING", report)
<1>1. "QG_FOUNDATION_FALSE_READY" \notin base /\ "QG_FALSE_READINESS" \notin base
  <2>1. \A code \in {"QG_FOUNDATION_FALSE_READY", "QG_FALSE_READINESS"} : code \notin base
    BY SpokenHolds, Zenon DEF Advice
  <2> QED
    BY <2>1
<1>2. report.readyToPlan
  BY <1>1 DEF AuditReadiness, Flag
<1> QED
  BY <1>1, <1>2 DEF AuditReadiness, Flag

MaskedReadiness == {"QG_FOUNDATION_FALSE_READY", "QG_FALSE_READINESS"}

LEMMA FoundedStep ==
    ASSUME InOrder, Unmasked(MaskedReadiness), Audited, Founded, [Next]_vars
    PROVE  Founded'
<1>1. CASE at > 12 \/ ~(at' > 12)
  <2>1. CASE ~(at' > 12)
    BY <2>1 DEF Founded
  <2>2. CASE at > 12
    <3>1. "definition" \in DOMAIN made /\ FoundationIds(made["definition"]) # {}
      BY <2>2 DEF Audited, Founded, InOrder
    <3>2. CASE Produce
      <4>1. CASE at' = 0
        BY <4>1 DEF Founded
      <4>2. CASE at' # 0
        <5>1. What = "plan"
          BY <2>2, <3>2, StepsFor, ProduceFrame DEF What
        <5> QED
          BY <3>1, <3>2, <5>1, ProduceFrame DEF Founded
      <4> QED
        BY <4>1, <4>2
    <3>3. CASE Accept
      BY <3>1, <3>3, AcceptFrame DEF Founded
    <3>4. CASE made' = made
      BY <3>1, <3>4 DEF Founded
    <3> QED
      BY <3>2, <3>3, <3>4, Frame
  <2> QED
    BY <1>1, <2>1, <2>2
<1>2. CASE ~(at > 12) /\ at' > 12
  <2>1. at = 12 /\ at' = 13 /\ ~Produce /\ ~Accept
    BY <1>2, Frame, ProduceFrame, AcceptFrame DEF InOrder
  <2>2. Assess
    <3>1. ~Repair /\ ~Reject /\ ~AllWritten /\ ~Integrate /\ ~Export /\ ~Inspect
      BY <2>1, StepsAre DEF Repair, Reject, AllWritten, Integrate, Export, Inspect, Doing
    <3>2. \A s \in Names : ~SectionStep(s)
      BY <2>1, SectionFrame
    <3> QED
      BY <2>1, <3>1, <3>2, NextIs DEF vars
  <2>3. What = "READY_FOR_SECTION_PLANNING"
    BY <2>1, StepsFor DEF What
  <2>4. made' = made
    BY <2>2 DEF Assess
  <2>5. PICK own \in Opinions, report \in Readings :
          LET graph == IF "architecture" \in DOMAIN made THEN made["architecture"].graph
                       ELSE [nodes |-> {}]
          IN  Onward(Verdict(Spoken(own),
                             AuditReadiness(made["definition"], graph, What, report), {},
                             AuditPrecision(own.findings)).status = "PASS")
    BY <2>2 DEF Assess
  <2>6. \E graph, kernel :
           Verdict(Spoken(own),
                   AuditReadiness(made["definition"], graph, "READY_FOR_SECTION_PLANNING", report),
                   {}, kernel).status = "PASS"
    BY <2>1, <2>3, <2>5 DEF Onward
  <2>7. FoundationIds(made["definition"]) # {}
    BY <2>6, ReadinessAudited DEF InOrder, MaskedReadiness
  <2> QED
    BY <2>4, <2>7 DEF Founded
<1> QED
  BY <1>1, <1>2

\* Step after step, what is made was audited.
LEMMA AuditedInit == Init => InOrder /\ Audited /\ Founded
  BY DEF Init, InOrder, Guards, Audited, Founded

LEMMA FoundationFollows ==
    ASSUME Audited, Founded, InOrder
    PROVE  FoundationProven
<1> DEFINE pd == made["definition"]
<1>1. CASE ~(at > 12)
  BY <1>1, PositionsAre DEF FoundationProven, Past
<1>2. CASE at > 12
  <2>1. /\ \A i \in Claimed(pd) : HasQualifiedSource(i)
        /\ ~Unproved(made["architecture"].graph)
        /\ FoundationIds(pd) # {}
    BY <1>2 DEF Audited, Founded, InOrder
  <2>2. Claimed(pd) # {}
    BY <2>1 DEF FoundationIds
  <2>3. \A n \in made["architecture"].graph.nodes :
           n.type = "TEAM_EVIDENCE" /\ n.status \in {"SUPPORTED", "CONFIRMED"} => HasQualifiedSource(n)
    BY <2>1 DEF Unproved, TeamClaims
  <2>4. Claimed(pd) = {i \in pd.items : i.type \in Foundations /\ i.status \in Settled}
    BY DEF Claimed
  <2> QED
    BY <2>1, <2>2, <2>3, <2>4 DEF FoundationProven, HasQualifiedSource
<1> QED
  BY <1>1, <1>2

\* A proposal goes into planning only with prior work proved by material and without
\* unproved evidence of the team, whatever the producers, the critics and the repairs
\* answer, unless a model hides the finding of the readiness audit behind one of its own.
THEOREM FoundationIsProven == Spec => [](Unmasked(MaskedReadiness) => FoundationProven)
<1> DEFINE Inv == InOrder /\ Audited /\ (Unmasked(MaskedReadiness) => Founded)
<1>1. Init => Inv
  BY AuditedInit
<1>2. Inv /\ [Next]_vars => Inv'
  <2> SUFFICES ASSUME Inv, [Next]_vars PROVE Inv'
    OBVIOUS
  <2>1. InOrder' /\ Audited'
    BY OrderKept, AuditedStep
  <2>2. Unmasked(MaskedReadiness)' => Unmasked(MaskedReadiness)
    BY Frame DEF Unmasked
  <2> QED
    BY <2>1, <2>2, FoundedStep
<1>3. Inv => (Unmasked(MaskedReadiness) => FoundationProven)
  BY FoundationFollows
<1> HIDE DEF Inv
<1> QED
  BY <1>1, <1>2, <1>3, PTL DEF Spec

-----------------------------------------------------------------------------
(* The search for a cycle.                                                  *)

\* The calls of the search for a cycle, and what the search answers, as a function f.
Calls(contracts) == (SUBSET Known(contracts)) \X Known(contracts)
Onwards(contracts, p) ==
    {<<p[1] \cup {p[2]}, t>> : t \in Parents(contracts, p[2]) \cap Known(contracts)}
Search(contracts, f) ==
    f = [p \in Calls(contracts) |-> p[2] \in p[1] \/ \E q \in Onwards(contracts, p) : f[q]]
\* The same, as the audit says it.
Searched(contracts, f) ==
    f = [p \in (SUBSET Known(contracts)) \X Known(contracts) |->
                \/ p[2] \in p[1]
                \/ \E t \in Parents(contracts, p[2]) \cap Known(contracts) :
                      f[<<p[1] \cup {p[2]}, t>>] ]

LEMMA CyclicIs ==
  ASSUME NEW contracts
  PROVE Cyclic(contracts) = (\E s \in Known(contracts) : (CHOOSE f : Searched(contracts, f))[<<{}, s>>])
BY DEF Cyclic, Searched

LEMMA SearchedIs ==
  ASSUME NEW contracts, NEW f
  PROVE Search(contracts, f) <=> Searched(contracts, f)
<1> DEFINE A(p) == p[2] \in p[1] \/ \E q \in Onwards(contracts, p) : f[q]
           B(p) == \/ p[2] \in p[1]
                   \/ \E t \in Parents(contracts, p[2]) \cap Known(contracts) :
                         f[<<p[1] \cup {p[2]}, t>>]
<1>1. \A p \in Calls(contracts) : A(p) = B(p)
  BY DEF Onwards
<1>2. Search(contracts, f) <=> f = [p \in Calls(contracts) |-> A(p)]
  BY DEF Search
<1>3. Searched(contracts, f) <=> f = [p \in Calls(contracts) |-> B(p)]
  BY DEF Searched, Calls
<1> HIDE DEF A, B
<1>4. [p \in Calls(contracts) |-> A(p)] = [p \in Calls(contracts) |-> B(p)]
  BY <1>1
<1> QED
  BY <1>2, <1>3, <1>4, Zenon

\* Such a function exists: the least set of calls that meet a cycle is one.
LEMMA SearchExists ==
    ASSUME NEW contracts
    PROVE  \E f : Search(contracts, f)
<1>1. PICK D : D = Calls(contracts)
  OBVIOUS
<1> DEFINE On(p) == Onwards(contracts, p)
           Meets(F, p) == p[2] \in p[1] \/ \E q \in On(p) : q \in F
           Closed(F) == \A p \in D : Meets(F, p) => p \in F
<1>2. PICK L : L = {p \in D : \A F \in SUBSET D : Closed(F) => p \in F}
  OBVIOUS
<1>3. Closed(L)
  <2> SUFFICES ASSUME NEW p \in D, Meets(L, p), NEW F \in SUBSET D, Closed(F) PROVE p \in F
    BY <1>2
  <2>1. L \subseteq F
    BY <1>2
  <2> QED
    BY <2>1
<1>4. ASSUME NEW p \in L PROVE Meets(L, p)
  <2>1. PICK M : M = {q \in D : Meets(L, q)}
    OBVIOUS
  <2>2. M \subseteq L
    BY <1>3, <2>1
  <2>3. Closed(M)
    BY <2>1, <2>2
  <2>4. p \in M
    BY <1>2, <2>1, <2>3
  <2> QED
    BY <2>1, <2>4
<1>5. PICK f : f = [p \in D |-> p \in L]
  OBVIOUS
<1>6. \A p \in D : On(p) \subseteq D
  BY <1>1 DEF Calls, Onwards
<1>7. \A p \in D : (p \in L) <=> p[2] \in p[1] \/ \E q \in On(p) : f[q]
  <2>1. \A p \in D : (p \in L) <=> Meets(L, p)
    BY <1>3, <1>4, <1>2
  <2>2. \A q \in D : f[q] <=> q \in L
    BY <1>5
  <2> QED
    BY <1>6, <2>1, <2>2
<1>8. PICK g : g = [p \in D |-> p[2] \in p[1] \/ \E q \in On(p) : f[q]]
  OBVIOUS
<1> HIDE DEF On
<1>9. f = g
  BY <1>5, <1>7, <1>8
<1> QED
  BY <1>1, <1>8, <1>9 DEF Search, On

\* A set of numbers has a least one.
LEMMA Least ==
    ASSUME NEW S \in SUBSET Nat, S # {}
    PROVE  \E x \in S : \A y \in S : x <= y
<1> DEFINE Below == OpToRel(<, Nat)
<1>1. PICK x \in S : \A y \in S : <<y, x>> \notin Below
  <2> HIDE DEF Below
  <2>1. IsWellFoundedOn(Below, Nat)
    BY NatLessThanWellFounded DEF Below
  <2> QED
    BY <2>1, WFMin
<1>2. \A y \in S : ~(y < x) /\ x \in Nat /\ y \in Nat
  BY <1>1 DEF OpToRel
<1> QED
  BY <1>2

\* A search that meets no cycle leaves no group of sections each waiting for another: from
\* a section of the group it would go on within the group, with ever fewer sections that
\* are not on its way.
LEMMA AcyclicIsOrderable ==
    ASSUME NEW contracts, IsFiniteSet(contracts), ~Cyclic(contracts),
           NEW group \in (SUBSET Known(contracts)) \ {{}}
    PROVE  \E c \in contracts : c.section \in group /\ c.prereqs \cap group = {}
<1> SUFFICES ASSUME \A c \in contracts : c.section \in group => c.prereqs \cap group # {}
             PROVE  FALSE
  OBVIOUS
<1>1. PICK f : /\ Search(contracts, f)
               /\ \A s \in Known(contracts) : ~f[<<{}, s>>]
  <2> DEFINE g == CHOOSE f : Searched(contracts, f)
  <2>1. Searched(contracts, g)
    BY SearchExists, SearchedIs, Zenon
  <2>2. \A s \in Known(contracts) : ~g[<<{}, s>>]
    BY CyclicIs
  <2> HIDE DEF g
  <2> QED
    BY <2>1, <2>2, SearchedIs
<1> DEFINE K == Known(contracts)
           B == {p \in Calls(contracts) : ~f[p] /\ p[2] \in group}
           Left(p) == Cardinality(K \ p[1])
<1>2. IsFiniteSet(K)
  <2>1. [c \in contracts |-> c.section] \in Surjection(contracts, K)
    BY DEF Surjection, Known
  <2> QED
    BY <2>1, FS_Surjection
<1>3. \A p \in Calls(contracts) : f[p] <=> p[2] \in p[1] \/ \E q \in Onwards(contracts, p) : f[q]
  BY <1>1 DEF Search
<1>4. ASSUME NEW p \in B
      PROVE  \E q \in B : Left(q) < Left(p)
  <2>1. p[1] \in SUBSET K /\ p[2] \in K /\ p[2] \in group
    BY DEF Calls
  <2>2. PICK c \in contracts : c.section = p[2]
    BY <2>1 DEF Known
  <2>3. PICK t \in group : t \in c.prereqs
    BY <2>1, <2>2
  <2>4. t \in Parents(contracts, p[2]) \cap K
    BY <2>2, <2>3 DEF Parents
  <2> DEFINE q == <<p[1] \cup {p[2]}, t>>
  <2>5. q \in Onwards(contracts, p) /\ q \in Calls(contracts)
    BY <2>1, <2>4 DEF Onwards, Calls
  <2>6. ~f[q] /\ p[2] \notin p[1]
    BY <1>3, <2>5
  <2>7. q \in B
    BY <2>3, <2>5, <2>6
  <2>8. K \ q[1] = (K \ p[1]) \ {p[2]} /\ p[2] \in K \ p[1]
    BY <2>1, <2>6
  <2>9. IsFiniteSet(K \ p[1])
    BY <1>2, FS_Difference
  <2>10. Cardinality((K \ p[1]) \ {p[2]}) = Cardinality(K \ p[1]) - 1
    <3>1. ASSUME NEW W, IsFiniteSet(W), NEW x \in W
          PROVE  Cardinality(W \ {x}) = Cardinality(W) - 1
      BY <3>1, FS_RemoveElement
    <3> QED
      BY <2>8, <2>9, <3>1, Zenon
  <2>11. Left(q) = Cardinality((K \ p[1]) \ {p[2]})
    BY <2>8
  <2>12. Cardinality(K \ p[1]) \in Nat
    BY <2>9, FS_CardinalityType
  <2>13. Left(q) < Left(p)
    BY <2>10, <2>11, <2>12
  <2> QED
    BY <2>7, <2>13
<1>5. \A p \in B : Left(p) \in Nat
  <2> SUFFICES ASSUME NEW p \in B PROVE Left(p) \in Nat
    OBVIOUS
  <2>1. IsFiniteSet(K \ p[1])
    BY <1>2, FS_Difference
  <2> QED
    BY <2>1, FS_CardinalityType
<1>6. PICK s \in group : s \in K
  OBVIOUS
<1>7. <<{}, s>> \in B
  BY <1>1, <1>6 DEF Calls
<1> HIDE DEF B, Left
<1> DEFINE M == {Left(p) : p \in B}
<1>8. M \in SUBSET Nat /\ M # {}
  BY <1>5, <1>7
<1>9. PICK m \in M : \A n \in M : m <= n
  BY <1>8, Least
<1>10. PICK p \in B : m = Left(p)
  BY <1>9
<1>11. PICK q \in B : Left(q) < Left(p)
  BY <1>4
<1> QED
  BY <1>5, <1>9, <1>10, <1>11

\* From the planning on the sections can be written in some order: the plan's producer
\* reports nothing that could hide a cycle, and no repair changes the committed plan.
THEOREM PlanIsOrderable == Spec => []PlanOrderable
<1> DEFINE Inv == InOrder /\ Audited
<1>1. Init => Inv
  BY AuditedInit
<1>2. Inv /\ [Next]_vars => Inv'
  BY OrderKept, AuditedStep
<1>3. Inv => PlanOrderable
  <2> SUFFICES ASSUME Inv, at > 13, NEW group \in (SUBSET Known(Contracts)) \ {{}}
               PROVE  \E c \in Contracts : c.section \in group /\ c.prereqs \cap group = {}
    BY PositionsAre DEF PlanOrderable, Past
  <2>1. IsFiniteSet(Contracts) /\ ~Cyclic(Contracts)
    BY ProposalAssumption DEF Audited, Contracts
  <2> QED
    BY <2>1, AcyclicIsOrderable
<1> HIDE DEF Inv
<1> QED
  BY <1>1, <1>2, <1>3, PTL DEF Spec

-----------------------------------------------------------------------------
(* The sections.                                                            *)

\* A section's record has its fields and no others.
WellFormed(r) ==
    r = [phase |-> r.phase, blueprint |-> r.blueprint, content |-> r.content,
         polished |-> r.polished, fixedBlueprint |-> r.fixedBlueprint,
         fixedContent |-> r.fixedContent, seen |-> r.seen]

\* How far a section is says what was written of it.
Fit(r) ==
    /\ WellFormed(r)
    /\ r.phase \in {"BLUEPRINT", "BLUEPRINT_CRITIC", "CONTENT"} =>
          r.content = <<>> /\ r.polished = <<>> /\ r.fixedContent = <<>>
    /\ r.phase \in {"ENRICH", "CRITIC", "POLISH"} => r.polished = <<>>
    /\ r.phase = "DONE" => r.content = <<>> /\ r.polished = <<r.polished[1]>>

\* What is written of a section, update, with the phase it is in then.
LEMMA Rephased ==
    ASSUME NEW r, NEW phase, NEW seen, WellFormed(r)
    PROVE  [[r EXCEPT !.seen = seen] EXCEPT !.phase = phase] =
              [phase |-> phase, blueprint |-> r.blueprint, content |-> r.content,
               polished |-> r.polished, fixedBlueprint |-> r.fixedBlueprint,
               fixedContent |-> r.fixedContent, seen |-> seen]
<1> DEFINE R(a, b, c, d, e, f, g) ==
             [phase |-> a, blueprint |-> b, content |-> c, polished |-> d,
              fixedBlueprint |-> e, fixedContent |-> f, seen |-> g]
<1>1. \A a, b, c, d, e, f, g :
        /\ [R(a, b, c, d, e, f, g) EXCEPT !.phase = phase] = R(phase, b, c, d, e, f, g)
        /\ [R(a, b, c, d, e, f, g) EXCEPT !.seen = seen] = R(a, b, c, d, e, f, seen)
  OBVIOUS
<1>2. PICK a, b, c, d, e, f, g : r = R(a, b, c, d, e, f, g)
  BY DEF WellFormed
<1>3. /\ r.blueprint = b /\ r.content = c /\ r.polished = d
      /\ r.fixedBlueprint = e /\ r.fixedContent = f
  BY <1>2
<1> HIDE DEF R
<1>4. PICK now : now = [r EXCEPT !.seen = seen]
  OBVIOUS
<1>5. now = R(a, b, c, d, e, f, seen)
  BY <1>1, <1>2, <1>4
<1>6. [now EXCEPT !.phase = phase] = R(phase, b, c, d, e, f, seen)
  BY <1>1, <1>5
<1>7. [[r EXCEPT !.seen = seen] EXCEPT !.phase = phase] = R(phase, b, c, d, e, f, seen)
  BY <1>4, <1>6, Zenon
<1> QED
  BY <1>3, <1>7 DEF R

LEMMA Rewritten ==
    ASSUME NEW r, NEW x, WellFormed(r)
    PROVE  /\ [r EXCEPT !.blueprint = x] =
                 [phase |-> r.phase, blueprint |-> x, content |-> r.content,
                  polished |-> r.polished, fixedBlueprint |-> r.fixedBlueprint,
                  fixedContent |-> r.fixedContent, seen |-> r.seen]
           /\ [r EXCEPT !.content = x] =
                 [phase |-> r.phase, blueprint |-> r.blueprint, content |-> x,
                  polished |-> r.polished, fixedBlueprint |-> r.fixedBlueprint,
                  fixedContent |-> r.fixedContent, seen |-> r.seen]
           /\ [r EXCEPT !.polished = x] =
                 [phase |-> r.phase, blueprint |-> r.blueprint, content |-> r.content,
                  polished |-> x, fixedBlueprint |-> r.fixedBlueprint,
                  fixedContent |-> r.fixedContent, seen |-> r.seen]
           /\ [r EXCEPT !.fixedBlueprint = x] =
                 [phase |-> r.phase, blueprint |-> r.blueprint, content |-> r.content,
                  polished |-> r.polished, fixedBlueprint |-> x, fixedContent |-> r.fixedContent, seen |-> r.seen]
           /\ [r EXCEPT !.fixedContent = x] =
                 [phase |-> r.phase, blueprint |-> r.blueprint, content |-> r.content,
                  polished |-> r.polished, fixedBlueprint |-> r.fixedBlueprint,
                  fixedContent |-> x, seen |-> r.seen]
<1> DEFINE R(a, b, c, d, e, f, g) ==
             [phase |-> a, blueprint |-> b, content |-> c, polished |-> d,
              fixedBlueprint |-> e, fixedContent |-> f, seen |-> g]
<1>1. \A a, b, c, d, e, f, g :
        /\ [R(a, b, c, d, e, f, g) EXCEPT !.blueprint = x] = R(a, x, c, d, e, f, g)
        /\ [R(a, b, c, d, e, f, g) EXCEPT !.content = x] = R(a, b, x, d, e, f, g)
        /\ [R(a, b, c, d, e, f, g) EXCEPT !.polished = x] = R(a, b, c, x, e, f, g)
        /\ [R(a, b, c, d, e, f, g) EXCEPT !.fixedBlueprint = x] = R(a, b, c, d, x, f, g)
        /\ [R(a, b, c, d, e, f, g) EXCEPT !.fixedContent = x] = R(a, b, c, d, e, x, g)
  OBVIOUS
<1>2. PICK a, b, c, d, e, f, g : r = R(a, b, c, d, e, f, g)
  BY DEF WellFormed
<1>3. /\ r.phase = a /\ r.blueprint = b /\ r.content = c /\ r.polished = d
      /\ r.fixedBlueprint = e /\ r.fixedContent = f /\ r.seen = g
  BY <1>2
<1> HIDE DEF R
<1>4. /\ [r EXCEPT !.blueprint = x] = R(a, x, c, d, e, f, g)
      /\ [r EXCEPT !.content = x] = R(a, b, x, d, e, f, g)
      /\ [r EXCEPT !.polished = x] = R(a, b, c, x, e, f, g)
      /\ [r EXCEPT !.fixedBlueprint = x] = R(a, b, c, d, x, f, g)
      /\ [r EXCEPT !.fixedContent = x] = R(a, b, c, d, e, x, g)
  BY <1>1, <1>2
<1> QED
  BY <1>3, <1>4 DEF R

\* sec is a function of the sections.
Sectioned == sec = [t \in Names |-> sec[t]]
Keeps(n, r) == n.content = r.content /\ n.polished = r.polished /\ n.fixedContent = r.fixedContent

\* Only the section that is written changes.
LEMMA WriteIs ==
    ASSUME Sectioned, NEW s \in Names, NEW phase, NEW update, WellFormed(update),
           Write(s, phase, update)
    PROVE  /\ Sectioned' /\ \A t \in Names \ {s} : sec'[t] = sec[t]
           /\ WellFormed(sec'[s]) /\ sec'[s].phase = phase /\ Keeps(sec'[s], update)
<1>1. PICK n : n = [[update EXCEPT !.seen = Len(order)] EXCEPT !.phase = phase]
  OBVIOUS
<1>2. sec' = [sec EXCEPT ![s] = n]
  BY <1>1 DEF Write
<1>3. Sectioned' /\ sec'[s] = n /\ \A t \in Names \ {s} : sec'[t] = sec[t]
  BY <1>2 DEF Sectioned
<1>4. WellFormed(n) /\ n.phase = phase /\ Keeps(n, update)
  BY <1>1, Rephased DEF WellFormed, Keeps
<1> QED
  BY <1>3, <1>4

\* What a step can make of the section's record r = sec[s]: n.
Planning(r, n) ==
    /\ r.phase \in {"BLUEPRINT", "BLUEPRINT_CRITIC"}
    /\ n.phase \in {"BLUEPRINT_CRITIC", "CONTENT"}
    /\ n.content = <<>> /\ n.polished = <<>> /\ n.fixedContent = <<>>
Drafting(s, r, n) ==
    /\ r.phase = "CONTENT" /\ n.phase = "ENRICH" /\ n.polished = <<>> /\ n.fixedContent = <<>>
    /\ \E c \in Drafts[s] : \E k, kernel :
          /\ n.content = <<c>>
          /\ Verdict(Silent, AuditContent(c, Payload(s, k)), {}, kernel).status = "PASS"
Enriching(s, r, n) ==
    /\ r.phase = "ENRICH" /\ n.phase \in {"CRITIC", "ENRICH"}
    /\ n.content = <<Enriched(r.content[1], s)>>
    /\ n.polished = r.polished /\ n.fixedContent = r.fixedContent
Approving(s, r, n) ==
    /\ r.phase = "CRITIC" /\ n.phase = "POLISH" /\ Keeps(n, r)
    /\ \E own \in Opinions : \E k, more, kernel :
          Verdict(Spoken(own), AuditContent(ShownContent(s), Payload(s, k)) \cup more, {},
                  kernel).status = "PASS"
Repairing(s, r, n) ==
    /\ r.phase = "CRITIC" /\ n.phase = "CRITIC"
    /\ n.content = r.content /\ n.polished = r.polished
    /\ \E x \in Drafts[s] : n.fixedContent = <<x>>
Polishing(s, r, n) ==
    /\ r.phase = "POLISH" /\ n.phase = "POLISH_CRITIC"
    /\ \E p \in Polished(ShownContent(s)) : \E kernel :
          /\ n.polished = <<p>>
          /\ Verdict(Silent, AuditExpression(ShownContent(s), p), {}, kernel).status = "PASS"
Finishing(r, n) ==
    /\ r.phase = "POLISH_CRITIC" /\ n.phase = "DONE"
    /\ n.content = <<>> /\ n.polished = <<r.polished[1]>>

Effect(s) ==
    /\ Sectioned' /\ \A t \in Names \ {s} : sec'[t] = sec[t]
    /\ WellFormed(sec'[s])
    /\ \/ Planning(sec[s], sec'[s]) \/ Drafting(s, sec[s], sec'[s])
       \/ Enriching(s, sec[s], sec'[s]) \/ Approving(s, sec[s], sec'[s])
       \/ Repairing(s, sec[s], sec'[s]) \/ Polishing(s, sec[s], sec'[s])
       \/ Finishing(sec[s], sec'[s])

LEMMA NewIs == WellFormed(NewSection) /\ Fit(NewSection)
               /\ NewSection.content = <<>> /\ NewSection.polished = <<>>
               /\ NewSection.fixedContent = <<>> /\ NewSection.phase = "BLUEPRINT"
  BY DEF WellFormed, Fit, NewSection

\* What replacing one field leaves.
LEMMA BlueprintSet ==
    ASSUME NEW r, WellFormed(r), NEW x, NEW n, n = [r EXCEPT !.blueprint = x]
    PROVE  WellFormed(n) /\ Keeps(n, r)
<1>1. n = [phase |-> r.phase, blueprint |-> x, content |-> r.content,
           polished |-> r.polished, fixedBlueprint |-> r.fixedBlueprint, fixedContent |-> r.fixedContent,
           seen |-> r.seen]
  BY Rewritten, Zenon
<1> QED
  BY <1>1 DEF WellFormed, Keeps

LEMMA FixedBlueprintSet ==
    ASSUME NEW r, WellFormed(r), NEW x, NEW n, n = [r EXCEPT !.fixedBlueprint = x]
    PROVE  WellFormed(n) /\ Keeps(n, r)
<1>1. n = [phase |-> r.phase, blueprint |-> r.blueprint, content |-> r.content,
           polished |-> r.polished, fixedBlueprint |-> x, fixedContent |-> r.fixedContent,
           seen |-> r.seen]
  BY Rewritten, Zenon
<1> QED
  BY <1>1 DEF WellFormed, Keeps

LEMMA ContentSet ==
    ASSUME NEW r, WellFormed(r), NEW x, NEW n, n = [r EXCEPT !.content = x]
    PROVE  WellFormed(n) /\ n.content = x /\ n.polished = r.polished /\ n.fixedContent = r.fixedContent
<1>1. n = [phase |-> r.phase, blueprint |-> r.blueprint, content |-> x,
           polished |-> r.polished, fixedBlueprint |-> r.fixedBlueprint, fixedContent |-> r.fixedContent,
           seen |-> r.seen]
  BY Rewritten, Zenon
<1> QED
  BY <1>1 DEF WellFormed

LEMMA PolishedSet ==
    ASSUME NEW r, WellFormed(r), NEW x, NEW n, n = [r EXCEPT !.polished = x]
    PROVE  WellFormed(n) /\ n.content = r.content /\ n.polished = x /\ n.fixedContent = r.fixedContent
<1>1. n = [phase |-> r.phase, blueprint |-> r.blueprint, content |-> r.content,
           polished |-> x, fixedBlueprint |-> r.fixedBlueprint, fixedContent |-> r.fixedContent,
           seen |-> r.seen]
  BY Rewritten, Zenon
<1> QED
  BY <1>1 DEF WellFormed

LEMMA FixedSet ==
    ASSUME NEW r, WellFormed(r), NEW x, NEW n, n = [r EXCEPT !.fixedContent = x]
    PROVE  WellFormed(n) /\ n.content = r.content /\ n.polished = r.polished /\ n.fixedContent = x
<1>1. n = [phase |-> r.phase, blueprint |-> r.blueprint, content |-> r.content,
           polished |-> r.polished, fixedBlueprint |-> r.fixedBlueprint, fixedContent |-> x,
           seen |-> r.seen]
  BY Rewritten, Zenon
<1> QED
  BY <1>1 DEF WellFormed

\* A stopped proposal's sections stay as they are; the step of one that goes on is one of
\* these.
LEMMA SectionEffect ==
    ASSUME Sectioned, NEW s \in Names, Fit(sec[s]), SectionStep(s)
    PROVE  sec' = sec \/ Effect(s)
<1>1. PICK r : r = sec[s]
  OBVIOUS
<1>2. Fit(r) /\ WellFormed(r)
  BY <1>1 DEF Fit
<1>3. CASE Blueprint(s)
  <2>1. CASE sec' = sec
    BY <2>1
  <2>2. CASE sec' # sec
    <3>1. PICK rows \in Blueprints[s] : Write(s, "BLUEPRINT_CRITIC", [r EXCEPT !.blueprint = <<rows>>])
      BY <1>1, <1>3, <2>2 DEF Blueprint, Stop
    <3>2. r.phase = "BLUEPRINT"
      BY <1>1, <1>3 DEF Blueprint, Ready
    <3>3. PICK u : u = [r EXCEPT !.blueprint = <<rows>>]
      OBVIOUS
    <3>4. WellFormed(u) /\ Keeps(u, r)
      BY <1>2, <3>3, BlueprintSet, Zenon
    <3>5. Sectioned' /\ \A t \in Names \ {s} : sec'[t] = sec[t]
      BY <3>1, <3>3, <3>4, WriteIs, Zenon
    <3>6. WellFormed(sec'[s]) /\ sec'[s].phase = "BLUEPRINT_CRITIC" /\ Keeps(sec'[s], u)
      BY <3>1, <3>3, <3>4, WriteIs, Zenon
    <3>7. Planning(r, sec'[s])
      BY <1>2, <3>2, <3>4, <3>6 DEF Planning, Keeps, Fit
    <3> QED
      BY <1>1, <3>5, <3>6, <3>7 DEF Effect
  <2> QED
    BY <2>1, <2>2
<1>4. CASE BlueprintCritic(s)
  <2>1. CASE sec' = sec
    BY <2>1
  <2>2. CASE sec' # sec
    <3>1. \/ Write(s, "CONTENT", NewSection)
          \/ \E x : Write(s, "BLUEPRINT_CRITIC", [r EXCEPT !.fixedBlueprint = <<x>>])
      BY <1>1, <1>4, <2>2 DEF BlueprintCritic, Judge, Stop, Ready
    <3>2. r.phase = "BLUEPRINT_CRITIC"
      BY <1>1, <1>4 DEF BlueprintCritic, Ready
    <3>3. PICK u :
             /\ Write(s, "BLUEPRINT_CRITIC", u) \/ Write(s, "CONTENT", u)
             /\ WellFormed(u)
             /\ u.content = <<>> /\ u.polished = <<>> /\ u.fixedContent = <<>>
      <4>1. CASE Write(s, "CONTENT", NewSection)
        BY <4>1, NewIs
      <4>2. CASE \E x : Write(s, "BLUEPRINT_CRITIC", [r EXCEPT !.fixedBlueprint = <<x>>])
        <5>1. PICK x : Write(s, "BLUEPRINT_CRITIC", [r EXCEPT !.fixedBlueprint = <<x>>])
          BY <4>2
        <5>2. PICK u : u = [r EXCEPT !.fixedBlueprint = <<x>>]
          OBVIOUS
        <5>3. WellFormed(u) /\ Keeps(u, r)
          BY <1>2, <5>2, FixedBlueprintSet, Zenon
        <5>4. u.content = <<>> /\ u.polished = <<>> /\ u.fixedContent = <<>>
          BY <1>2, <3>2, <5>3 DEF Keeps, Fit
        <5>5. Write(s, "BLUEPRINT_CRITIC", u)
          BY <5>1, <5>2, Zenon
        <5> QED
          BY <5>3, <5>4, <5>5, Zenon
      <4> QED
        BY <3>1, <4>1, <4>2
    <3>4. Sectioned' /\ \A t \in Names \ {s} : sec'[t] = sec[t]
      BY <3>3, WriteIs, Zenon
    <3>5. /\ WellFormed(sec'[s]) /\ Keeps(sec'[s], u)
          /\ sec'[s].phase = "BLUEPRINT_CRITIC" \/ sec'[s].phase = "CONTENT"
      BY <3>3, WriteIs, Zenon
    <3>6. Planning(r, sec'[s])
      BY <3>2, <3>3, <3>5 DEF Planning, Keeps
    <3> QED
      BY <1>1, <3>4, <3>5, <3>6 DEF Effect
  <2> QED
    BY <2>1, <2>2
<1>5. CASE Draft(s)
  <2>1. CASE sec' = sec
    BY <2>1
  <2>2. CASE sec' # sec
    <3>1. PICK c \in Drafts[s], k \in Views(s) :
             LET v == Verdict(Silent, AuditContent(c, Payload(s, k)), {},
                              Conclusion(c.paragraphs, c.claims, Payload(s, k)))
             IN  IF v.status # "PASS" THEN Stop /\ UNCHANGED order
                 ELSE /\ Write(s, "ENRICH", [sec[s] EXCEPT !.content = <<c>>])
                      /\ order' = Append(order, s)
                      /\ UNCHANGED at
      BY <1>5 DEF Draft
    <3>2. PICK u : u = [r EXCEPT !.content = <<c>>]
      OBVIOUS
    <3>3. Write(s, "ENRICH", u)
      BY <1>1, <2>2, <3>1, <3>2 DEF Stop
    <3>4. \E kernel : Verdict(Silent, AuditContent(c, Payload(s, k)), {}, kernel).status = "PASS"
      BY <2>2, <3>1 DEF Stop
    <3>5. r.phase = "CONTENT"
      BY <1>1, <1>5 DEF Draft, Ready
    <3>6. /\ WellFormed(u) /\ u.content = <<c>>
          /\ u.polished = r.polished /\ u.fixedContent = r.fixedContent
      BY <1>2, <3>2, ContentSet
    <3>7. Sectioned' /\ \A t \in Names \ {s} : sec'[t] = sec[t]
      BY <3>3, <3>6, WriteIs, Zenon
    <3>8. WellFormed(sec'[s]) /\ sec'[s].phase = "ENRICH" /\ Keeps(sec'[s], u)
      BY <3>3, <3>6, WriteIs, Zenon
    <3>9. Drafting(s, r, sec'[s])
      BY <1>2, <3>4, <3>5, <3>6, <3>8 DEF Drafting, Keeps, Fit
    <3> QED
      BY <1>1, <3>7, <3>8, <3>9 DEF Effect
  <2> QED
    BY <2>1, <2>2
<1>6. CASE Enrich(s)
  <2>1. CASE sec' = sec
    BY <2>1
  <2>2. CASE sec' # sec
    <3>1. PICK phase \in {"CRITIC", "ENRICH"} :
             Write(s, phase, [sec[s] EXCEPT !.content = <<Enriched(sec[s].content[1], s)>>])
      BY <1>6, <2>2 DEF Enrich, Stop
    <3>2. PICK u : u = [r EXCEPT !.content = <<Enriched(r.content[1], s)>>]
      OBVIOUS
    <3>3. Write(s, phase, u)
      BY <1>1, <3>1, <3>2
    <3>4. r.phase = "ENRICH"
      BY <1>1, <1>6 DEF Enrich, Ready
    <3>5. /\ WellFormed(u) /\ u.content = <<Enriched(r.content[1], s)>>
          /\ u.polished = r.polished /\ u.fixedContent = r.fixedContent
      BY <1>2, <3>2, ContentSet
    <3>6. Sectioned' /\ \A t \in Names \ {s} : sec'[t] = sec[t]
      BY <3>3, <3>5, WriteIs, Zenon
    <3>7. WellFormed(sec'[s]) /\ sec'[s].phase = phase /\ Keeps(sec'[s], u)
      BY <3>3, <3>5, WriteIs, Zenon
    <3>8. Enriching(s, r, sec'[s])
      BY <3>4, <3>5, <3>7 DEF Enriching, Keeps
    <3> QED
      BY <1>1, <3>6, <3>7, <3>8 DEF Effect
  <2> QED
    BY <2>1, <2>2
<1>7. CASE Critic(s)
  <2>1. CASE sec' = sec
    BY <2>1
  <2>2. CASE sec' # sec
    <3>1. PICK own \in Opinions, k \in Views(s) :
             LET c == ShownContent(s)
                 review == Reviewed(own, IdsOf(c))
                 v == Verdict(Spoken(own),
                              AuditContent(c, Payload(s, k)) \cup AuditCritic(c, review, Payload(s, k), TRUE),
                              {}, AuditPrecision(own.findings)
                                  \cup Conclusion(c.paragraphs, c.claims, Payload(s, k)))
             IN  Judge(s, v, sec[s].fixedContent, "POLISH", sec[s],
                       {[sec[s] EXCEPT !.fixedContent = <<x>>] : x \in Drafts[s]})
      BY <1>7 DEF Critic
    <3>2. r.phase = "CRITIC"
      BY <1>1, <1>7 DEF Critic, Ready
    <3>3. CASE /\ Write(s, "POLISH", r)
               /\ \E more, kernel :
                     Verdict(Spoken(own), AuditContent(ShownContent(s), Payload(s, k)) \cup more, {},
                             kernel).status = "PASS"
      <4>1. Sectioned' /\ \A t \in Names \ {s} : sec'[t] = sec[t]
        BY <1>2, <3>3, WriteIs, Zenon
      <4>2. WellFormed(sec'[s]) /\ sec'[s].phase = "POLISH" /\ Keeps(sec'[s], r)
        BY <1>2, <3>3, WriteIs, Zenon
      <4>3. Approving(s, r, sec'[s])
        BY <3>2, <3>3, <4>2 DEF Approving
      <4> QED
        BY <1>1, <4>1, <4>2, <4>3 DEF Effect
    <3>4. CASE \E x \in Drafts[s] : Write(s, r.phase, [r EXCEPT !.fixedContent = <<x>>])
      <4>1. PICK x \in Drafts[s] : Write(s, r.phase, [r EXCEPT !.fixedContent = <<x>>])
        BY <3>4
      <4>2. PICK u : u = [r EXCEPT !.fixedContent = <<x>>]
        OBVIOUS
      <4>3. /\ WellFormed(u) /\ u.content = r.content /\ u.polished = r.polished
            /\ u.fixedContent = <<x>>
        BY <1>2, <4>2, FixedSet
      <4>4. Write(s, "CRITIC", u)
        BY <3>2, <4>1, <4>2
      <4>5. Sectioned' /\ \A t \in Names \ {s} : sec'[t] = sec[t]
        BY <4>3, <4>4, WriteIs, Zenon
      <4>6. WellFormed(sec'[s]) /\ sec'[s].phase = "CRITIC" /\ Keeps(sec'[s], u)
        BY <4>3, <4>4, WriteIs, Zenon
      <4>7. Repairing(s, r, sec'[s])
        BY <3>2, <4>3, <4>6 DEF Repairing, Keeps
      <4> QED
        BY <1>1, <4>5, <4>6, <4>7 DEF Effect
    <3> QED
      BY <1>1, <2>2, <3>1, <3>3, <3>4 DEF Judge, Stop
  <2> QED
    BY <2>1, <2>2
<1>8. CASE Polish(s)
  <2>1. CASE sec' = sec
    BY <2>1
  <2>2. CASE sec' # sec
    <3>1. PICK p \in Polished(ShownContent(s)), k \in Views(s) :
             LET c == ShownContent(s)
                 v == Verdict(Silent, AuditExpression(c, p), {},
                              AuditStructure(c, p)
                              \cup Conclusion(p.paragraphs, p.claims, Payload(s, k)))
             IN  IF v.status # "PASS" THEN Stop
                 ELSE Write(s, "POLISH_CRITIC", [sec[s] EXCEPT !.polished = <<p>>]) /\ UNCHANGED at
      BY <1>8 DEF Polish
    <3>2. PICK u : u = [r EXCEPT !.polished = <<p>>]
      OBVIOUS
    <3>3. Write(s, "POLISH_CRITIC", u)
      BY <1>1, <2>2, <3>1, <3>2 DEF Stop
    <3>4. \E kernel : Verdict(Silent, AuditExpression(ShownContent(s), p), {}, kernel).status = "PASS"
      BY <2>2, <3>1 DEF Stop
    <3>5. r.phase = "POLISH"
      BY <1>1, <1>8 DEF Polish, Ready
    <3>6. WellFormed(u) /\ u.polished = <<p>>
      BY <1>2, <3>2, PolishedSet
    <3>7. Sectioned' /\ \A t \in Names \ {s} : sec'[t] = sec[t]
      BY <3>3, <3>6, WriteIs, Zenon
    <3>8. WellFormed(sec'[s]) /\ sec'[s].phase = "POLISH_CRITIC" /\ Keeps(sec'[s], u)
      BY <3>3, <3>6, WriteIs, Zenon
    <3>9. Polishing(s, r, sec'[s])
      BY <3>4, <3>5, <3>6, <3>8 DEF Polishing, Keeps
    <3> QED
      BY <1>1, <3>7, <3>8, <3>9 DEF Effect
  <2> QED
    BY <2>1, <2>2
<1>9. CASE PolishCritic(s)
  <2>1. CASE sec' = sec
    BY <2>1
  <2>2. CASE sec' # sec
    <3>1. PICK u : u = [NewSection EXCEPT !.polished = <<r.polished[1]>>]
      OBVIOUS
    <3>2. Write(s, "DONE", u)
      BY <1>1, <1>9, <2>2, <3>1 DEF PolishCritic, Stop
    <3>3. r.phase = "POLISH_CRITIC"
      BY <1>1, <1>9 DEF PolishCritic, Ready
    <3>4. WellFormed(u) /\ u.polished = <<r.polished[1]>> /\ u.content = <<>>
      BY <3>1, NewIs, PolishedSet
    <3>5. Sectioned' /\ \A t \in Names \ {s} : sec'[t] = sec[t]
      BY <3>2, <3>4, WriteIs, Zenon
    <3>6. WellFormed(sec'[s]) /\ sec'[s].phase = "DONE" /\ Keeps(sec'[s], u)
      BY <3>2, <3>4, WriteIs, Zenon
    <3>7. Finishing(r, sec'[s])
      BY <3>3, <3>4, <3>6 DEF Finishing, Keeps
    <3> QED
      BY <1>1, <3>5, <3>6, <3>7 DEF Effect
  <2> QED
    BY <2>1, <2>2
<1> QED
  BY <1>3, <1>4, <1>5, <1>6, <1>7, <1>8, <1>9 DEF SectionStep

\* Every section is as far as what was written of it says.
AllFit == Sectioned /\ \A s \in Names : Fit(sec[s])

LEMMA EffectFits ==
    ASSUME AllFit, NEW s \in Names, Effect(s)
    PROVE  AllFit'
<1>1. Fit(sec'[s])
  <2>1. Fit(sec[s])
    BY DEF AllFit
  <2> QED
    BY <2>1 DEF Effect, Fit, Planning, Drafting, Enriching, Approving, Repairing, Polishing,
                Finishing, Keeps
<1>2. \A t \in Names \ {s} : Fit(sec'[t])
  BY DEF AllFit, Effect
<1> QED
  BY <1>1, <1>2 DEF AllFit, Effect

\* Outside the writing the sections stay as they are.
LEMMA SectionsFrame ==
    ASSUME AllFit, InOrder, [Next]_vars
    PROVE  \/ sec' = sec
           \/ made' = made /\ at = 15 /\ \E s \in Names : SectionStep(s) /\ Effect(s)
<1>1. CASE \E s \in Names : SectionStep(s)
  BY <1>1, SectionFrame, SectionEffect DEF AllFit
<1>2. CASE ~\E s \in Names : SectionStep(s)
  BY <1>2, NextIs DEF Produce, Accept, Repair, Reject, Assess, AllWritten, Integrate, Export,
                      Inspect, vars
<1> QED
  BY <1>1, <1>2

LEMMA FitStep == ASSUME AllFit, InOrder, [Next]_vars PROVE AllFit'
<1>1. CASE sec' = sec
  BY <1>1 DEF AllFit, Sectioned
<1> QED
  BY <1>1, SectionsFrame, EffectFits

LEMMA FitInit == Init => AllFit
  BY NewIs DEF Init, AllFit, Sectioned

-----------------------------------------------------------------------------
(* The keys of an accepted document.                                        *)

LEMMA NamesFinite == IsFiniteSet(Names)
<1>1. Sections \in Seq(STRING)
  BY ProposalAssumption
<1>2. DOMAIN Sections = 1 .. Len(Sections) /\ Len(Sections) \in Nat
  BY <1>1
<1>3. IsFiniteSet(DOMAIN Sections)
  BY <1>2, FS_Interval
<1>4. [i \in DOMAIN Sections |-> Sections[i]] \in Surjection(DOMAIN Sections, Names)
  BY DEF Surjection, Names, Elements
<1> QED
  BY <1>3, <1>4, FS_Surjection

LEMMA TwoAtLeast ==
    ASSUME NEW S, IsFiniteSet(S), NEW s \in S, NEW t \in S, s # t
    PROVE  Cardinality(S) >= 2
<1>1. IsFiniteSet(S \ {s}) /\ Cardinality(S \ {s}) = Cardinality(S) - 1
  BY FS_RemoveElement
<1>2. Cardinality(S \ {s}) # 0
  BY <1>1, FS_EmptySet
<1> QED
  BY <1>1, <1>2, FS_CardinalityType

MaskedKeys == {"QG_DOCUMENT_DUPLICATE_INFORMATION_KEYS"}

\* A key that two of the sections have is found.
LEMMA SharedKeyFound ==
    ASSUME NEW sections, NEW central, IsFiniteSet(DOMAIN sections),
           NEW s \in DOMAIN sections, NEW t \in DOMAIN sections, s # t,
           NEW x \in sections[s].keys \cap sections[t].keys, x # <<>>
    PROVE  "QG_DOCUMENT_DUPLICATE_INFORMATION_KEYS" \in Repetition(sections, central)
<1> DEFINE of == [u \in DOMAIN sections |-> sections[u].keys \ {<<>>}]
           S == {u \in DOMAIN of : x \in of[u]}
<1>1. s \in S /\ t \in S
  OBVIOUS
<1>2. S \subseteq DOMAIN sections
  OBVIOUS
<1>3. IsFiniteSet(S)
  BY <1>2, FS_Subset
<1>4. Cardinality(S) >= 2
  <2> HIDE DEF S
  <2> QED
    BY <1>1, <1>3, TwoAtLeast
<1>5. x \in Groups(of, 2)
  BY <1>1, <1>4 DEF Groups
<1>6. Groups(of, 2) # {}
  BY <1>5
<1> QED
  BY <1>6 DEF Repetition, Flag

\* The document has what a finished section's polish says.
LEMMA FoundIs ==
    ASSUME AllFit, NEW s \in WrittenSections
    PROVE  s \in DOMAIN Found /\ Found[s] = sec[s].polished[1]
<1>1. s \in Names /\ Fit(sec[s]) /\ sec[s].phase = "DONE"
  BY DEF AllFit, WrittenSections
<1>2. PICK p : sec[s].content = <<>> /\ sec[s].polished = <<p>>
  BY <1>1 DEF Fit
<1>3. <<>> \o <<p>> = <<p>> /\ <<p>> # <<>>
  OBVIOUS
<1>4. sec[s].content \o sec[s].polished # <<>>
  BY <1>2, <1>3
<1>5. s \in DOMAIN Found
  BY <1>1, <1>4 DEF Found
<1>6. Found[s] = Either(sec[s].polished, sec[s].content)
  BY <1>5 DEF Found
<1> QED
  BY <1>2, <1>3, <1>5, <1>6 DEF Either

LEMMA MainIs ==
    ASSUME AllFit, NEW s \in WrittenSections, ContractOf(Contracts, s).placement # "APPENDIX"
    PROVE  s \in MainSections(DocumentPayload(made, Names, Found))
<1> DEFINE doc == DocumentPayload(made, Names, Found)
<1>1. doc.sections = Found
  BY DEF DocumentPayload
<1>2. doc.placement = [u \in Known(Contracts) |-> ContractOf(Contracts, u).placement]
  BY DEF DocumentPayload, Contracts
<1> HIDE DEF doc
<1>3. PlacementOf(doc, s) # "APPENDIX"
  <2>1. CASE s \in Known(Contracts)
    BY <1>2, <2>1 DEF PlacementOf
  <2>2. CASE s \notin Known(Contracts)
    BY <1>2, <2>2 DEF PlacementOf
  <2> QED
    BY <2>1, <2>2
<1>4. s \in MainSections(doc)
  BY <1>1, <1>3, FoundIs DEF MainSections
<1> QED
  BY <1>4 DEF doc

KeysApart ==
    \A s, t \in {u \in WrittenSections : ContractOf(Contracts, u).placement # "APPENDIX"} :
        s # t => sec[s].polished[1].keys \cap sec[t].polished[1].keys \subseteq {<<>>}

LEMMA IntegratedApart ==
    ASSUME InOrder, AllFit, Unmasked(MaskedKeys), Integrate, at' # 0
    PROVE  KeysApart
<1> DEFINE doc == DocumentPayload(made, Names, Found)
           code == "QG_DOCUMENT_DUPLICATE_INFORMATION_KEYS"
<1>1. PICK own \in Opinions, report \in Integrations :
         LET base == AuditDocument(doc, report)
                     \cup (IF guard = "FULL" THEN AuditWhole(doc, report) ELSE {})
         IN  Onward(Verdict(Spoken(own), base, Unjustified(doc),
                            AuditPrecision(own.findings) \cup AuditBoundary(doc)).status = "PASS")
  BY DEF Integrate
<1> DEFINE base == AuditDocument(doc, report)
                   \cup (IF guard = "FULL" THEN AuditWhole(doc, report) ELSE {})
<1>2. \E kernel : Verdict(Spoken(own), base, Unjustified(doc), kernel).status = "PASS"
  BY <1>1 DEF Onward
<1>3. code \notin base \ Unjustified(doc)
  <2> HIDE DEF base, doc
  <2> QED
    BY <1>2, SpokenHolds DEF MaskedKeys, InOrder, Advice
<1> SUFFICES ASSUME NEW s \in WrittenSections, NEW t \in WrittenSections, s # t,
                    ContractOf(Contracts, s).placement # "APPENDIX",
                    ContractOf(Contracts, t).placement # "APPENDIX",
                    NEW x \in sec[s].polished[1].keys \cap sec[t].polished[1].keys,
                    x # <<>>
             PROVE  FALSE
  BY DEF KeysApart
<1>4. doc.sections = Found
  BY DEF DocumentPayload
<1>5. IsFiniteSet(DOMAIN Found)
  <2>1. DOMAIN Found \subseteq Names
    BY DEF Found
  <2> QED
    BY <2>1, NamesFinite, FS_Subset
<1>6. x \in Found[s].keys \cap Found[t].keys /\ s \in DOMAIN Found /\ t \in DOMAIN Found
  BY FoundIs
<1>7. code \in Repetition(doc.sections, doc.graph.central)
  <2>1. code \in Repetition(Found, doc.graph.central)
    <3> HIDE DEF doc
    <3> QED
      BY <1>5, <1>6, SharedKeyFound
  <2> QED
    BY <1>4, <2>1, Zenon
<1>8. code \in base
  <2> HIDE DEF doc
  <2> QED
    BY <1>7 DEF AuditDocument
<1>9. code \notin Unjustified(doc)
  <2> DEFINE main == Restricted(doc.sections, MainSections(doc))
  <2>1. s \in MainSections(doc) /\ t \in MainSections(doc)
    BY MainIs
  <2> HIDE DEF doc
  <2>2. MainSections(doc) \subseteq DOMAIN Found
    BY <1>4 DEF MainSections
  <2>3. /\ IsFiniteSet(DOMAIN main) /\ s \in DOMAIN main /\ t \in DOMAIN main
        /\ main[s] = Found[s] /\ main[t] = Found[t]
    BY <1>4, <1>5, <2>1, <2>2, FS_Subset DEF Restricted
  <2> HIDE DEF main
  <2>4. code \in Repetition(main, doc.graph.central)
    BY <1>6, <2>3, SharedKeyFound
  <2> QED
    BY <2>4 DEF Unjustified, main
<1> QED
  BY <1>3, <1>8, <1>9

LEMMA KeysStep ==
    ASSUME InOrder, AllFit, Unmasked(MaskedKeys), at > 16 => KeysApart, [Next]_vars
    PROVE  at' > 16 => KeysApart'
<1> SUFFICES ASSUME at' > 16 PROVE KeysApart'
  OBVIOUS
<1>1. at \in 16 .. 19 /\ made' = made /\ sec' = sec
  BY Frame, SectionsFrame, ProduceFrame, AcceptFrame DEF InOrder
<1>2. KeysApart
  <2>1. CASE at > 16
    BY <2>1
  <2>2. CASE at = 16
    <3>1. /\ ~Produce /\ ~Accept /\ ~Repair /\ ~Reject /\ ~Assess /\ ~AllWritten /\ ~Export
          /\ ~Inspect
      <4>1. /\ ~Doing("PRODUCE") /\ ~Doing("REVIEW") /\ ~Doing("ASSESS") /\ ~Doing("WRITE")
            /\ ~Doing("EXPORT") /\ ~Doing("INSPECT")
        BY <2>2, StepsAre DEF Doing
      <4> QED
        BY <4>1, Zenon DEF Produce, Accept, Repair, Reject, Assess, AllWritten, Export, Inspect
    <3>2. \A s \in Names : ~SectionStep(s)
      BY <2>2, SectionFrame
    <3>3. Integrate
      BY <2>2, <3>1, <3>2, NextIs DEF vars
    <3> QED
      BY <3>3, IntegratedApart
  <2> QED
    BY <1>1, <2>1, <2>2
<1> QED
  BY <1>1, <1>2 DEF KeysApart, WrittenSections, Contracts

\* In an accepted document no information key belongs to two sections of the main body,
\* whatever the sections' writers answer and in whatever order they write, unless the
\* integration critic's model hides the finding behind one of its own.
THEOREM KeysAreOwnedOnce == Spec => [](Unmasked(MaskedKeys) => KeysOwnedOnce)
<1> DEFINE Inv == InOrder /\ AllFit /\ (Unmasked(MaskedKeys) /\ at > 16 => KeysApart)
<1>1. Init => Inv
  BY AuditedInit, FitInit DEF Init
<1>2. Inv /\ [Next]_vars => Inv'
  <2> SUFFICES ASSUME Inv, [Next]_vars PROVE Inv'
    OBVIOUS
  <2>1. InOrder' /\ AllFit'
    BY OrderKept, FitStep
  <2>2. Unmasked(MaskedKeys)' => Unmasked(MaskedKeys)
    BY Frame DEF Unmasked
  <2> QED
    BY <2>1, <2>2, KeysStep
<1>3. Inv => (Unmasked(MaskedKeys) => KeysOwnedOnce)
  BY PositionsAre DEF KeysOwnedOnce, KeysApart, Past
<1> HIDE DEF Inv
<1> QED
  BY <1>1, <1>2, <1>3, PTL DEF Spec

-----------------------------------------------------------------------------
(* The claims a contract demands.                                           *)

\* Paragraphs told apart by their ids.
Apart(c) ==
    \A i, j \in DOMAIN c.paragraphs : c.paragraphs[i].id = c.paragraphs[j].id => i = j
Good(c) == Paragraphed(c) /\ Apart(c)
Advances(s, c) == ContractOf(Contracts, s).claims \subseteq ClaimsOf(c.paragraphs)

\* Of what a model hides these count.
MaskedContent == {"QG_EMPTY_SECTION", "QG_CONTENT_REQUIRED_CLAIMS_NOT_ADVANCED"}

LEMMA PayloadIs == ASSUME NEW s, NEW k PROVE Payload(s, k).contract = ContractOf(Contracts, s)
  BY DEF Payload, SectionPayload, Contracts

LEMMA ContentAudited ==
    ASSUME NEW c, NEW ctx, MaskedContent \cap AuditContent(c, ctx) = {}
    PROVE  ctx.contract.claims \subseteq ClaimsOf(c.paragraphs)
<1>1. ContentText(c) # <<>>
  BY DEF AuditContent, MaskedContent
<1> QED
  BY <1>1 DEF AuditContent, MaskedContent, Flag

LEMMA DraftAdvances ==
    ASSUME Guards, NEW s, NEW k, NEW c, NEW kernel,
           Verdict(Silent, AuditContent(c, Payload(s, k)), {}, kernel).status = "PASS"
    PROVE  Advances(s, c)
<1>1. \A code \in MaskedContent : code \notin AuditContent(c, Payload(s, k))
  BY SilentHolds, Zenon DEF Advice, MaskedContent
<1> QED
  BY <1>1, PayloadIs, ContentAudited DEF Advances

LEMMA ApprovedAdvances ==
    ASSUME Guards, Unmasked(MaskedContent), NEW own \in Opinions, NEW s, NEW k,
           NEW c, NEW more, NEW kernel,
           Verdict(Spoken(own), AuditContent(c, Payload(s, k)) \cup more, {}, kernel).status = "PASS"
    PROVE  Advances(s, c)
<1>1. \A code \in MaskedContent : code \notin Advice
  BY DEF Advice, MaskedContent
<1>2. \A code \in MaskedContent : code \notin AuditContent(c, Payload(s, k))
  <2> SUFFICES ASSUME NEW code \in MaskedContent, code \in AuditContent(c, Payload(s, k))
               PROVE  FALSE
    OBVIOUS
  <2>1. code \in (AuditContent(c, Payload(s, k)) \cup more) \ {}
    OBVIOUS
  <2> QED
    BY <1>1, <2>1, SpokenHolds, Zenon
<1> QED
  BY <1>2, PayloadIs, ContentAudited DEF Advances

\* Of a list of rows and another of its length with the same ids and claims.
LEMMA SameRows ==
    ASSUME NEW c, Good(c), NEW d, "paragraphs" \in DOMAIN d,
           d.paragraphs = [i \in DOMAIN c.paragraphs |-> d.paragraphs[i]],
           \A i \in DOMAIN c.paragraphs :
              /\ {"id", "claim"} \subseteq DOMAIN d.paragraphs[i]
              /\ d.paragraphs[i].id = c.paragraphs[i].id
              /\ d.paragraphs[i].claim = c.paragraphs[i].claim
    PROVE  Good(d) /\ ClaimsOf(d.paragraphs) = ClaimsOf(c.paragraphs)
<1> DEFINE rows == c.paragraphs
           new == d.paragraphs
<1>1. rows \in Seq(Elements(rows))
  BY DEF Good, Paragraphed
<1>2. PICK n \in Nat : DOMAIN rows = 1 .. n
  BY <1>1
<1>3. DOMAIN new = 1 .. n /\ new = [i \in 1 .. n |-> new[i]]
  BY <1>2
<1>4. \A i \in 1 .. n : new[i] \in Elements(new)
  BY <1>3 DEF Elements
<1>5. new \in Seq(Elements(new))
  <2> HIDE DEF new
  <2> QED
    BY <1>3, <1>4
<1>6. \A row \in Elements(new) : {"id", "claim"} \subseteq DOMAIN row
  BY <1>2, <1>3 DEF Elements
<1>7. Paragraphed(d)
  BY <1>5, <1>6 DEF Paragraphed
<1>8. Apart(d)
  BY <1>2, <1>3 DEF Apart, Good
<1>9. ClaimsOf(new) = ClaimsOf(rows)
  BY <1>2, <1>3 DEF ClaimsOf, Column
<1> QED
  BY <1>7, <1>8, <1>9 DEF Good

LEMMA RowKept ==
    ASSUME NEW row, {"id", "claim"} \subseteq DOMAIN row, NEW x
    PROVE  LET new == [row EXCEPT !.text = x] IN
           {"id", "claim"} \subseteq DOMAIN new /\ new.id = row.id /\ new.claim = row.claim
  OBVIOUS

\* Figures change neither ids nor claims.
LEMMA EnrichedGood ==
    ASSUME NEW c, Good(c), NEW title
    PROVE  Good(Enriched(c, title)) /\ ClaimsOf(Enriched(c, title).paragraphs) = ClaimsOf(c.paragraphs)
<1> DEFINE Same(new, rows) ==
             /\ new = [i \in DOMAIN rows |-> new[i]]
             /\ \A i \in DOMAIN rows : /\ {"id", "claim"} \subseteq DOMAIN new[i]
                                       /\ new[i].id = rows[i].id /\ new[i].claim = rows[i].claim
           rendered == Rendering(c.paragraphs, title)
           rows == IF rendered # c.paragraphs THEN rendered ELSE Illustrated(c.paragraphs, title)
           new == [c EXCEPT !.paragraphs = rows]
<1>1. \A i \in DOMAIN c.paragraphs : {"id", "claim"} \subseteq DOMAIN c.paragraphs[i]
  BY DEF Good, Paragraphed, Elements
<1>2. c.paragraphs = [i \in DOMAIN c.paragraphs |-> c.paragraphs[i]]
  BY DEF Good, Paragraphed
<1>3. Same(rendered, c.paragraphs)
  BY <1>1 DEF Rendering
<1>4. Same(Illustrated(c.paragraphs, title), c.paragraphs)
  <2>1. PICK old : old = c.paragraphs
    OBVIOUS
  <2>2. PICK k, x : Illustrated(old, title) \in {old, [old EXCEPT ![k].text = x]}
    BY DEF Illustrated
  <2>3. \A i \in DOMAIN old : {"id", "claim"} \subseteq DOMAIN old[i]
    BY <1>1, <2>1
  <2>4. old = [i \in DOMAIN old |-> old[i]]
    BY <1>2, <2>1
  <2>5. Same(old, old)
    BY <2>3, <2>4
  <2>6. Same([old EXCEPT ![k].text = x], old)
    <3>1. PICK changed : changed = [old EXCEPT ![k].text = x]
      OBVIOUS
    <3>2. changed = [i \in DOMAIN old |-> changed[i]]
      BY <2>4, <3>1
    <3>3. \A i \in DOMAIN old : changed[i] \in {old[i], [old[i] EXCEPT !.text = x]}
      BY <2>4, <3>1
    <3>4. \A i \in DOMAIN old : /\ {"id", "claim"} \subseteq DOMAIN changed[i]
                               /\ changed[i].id = old[i].id /\ changed[i].claim = old[i].claim
      BY <2>3, <3>3, RowKept
    <3> QED
      BY <3>1, <3>2, <3>4
  <2> QED
    BY <2>1, <2>2, <2>5, <2>6
<1>5. Same(rows, c.paragraphs)
  BY <1>3, <1>4
<1>6. CASE rows = c.paragraphs
  BY <1>6 DEF Enriched
<1>7. CASE rows # c.paragraphs
  <2>1. Enriched(c, title) = [new EXCEPT !.text = TextsOf(new)]
    BY <1>7 DEF Enriched
  <2>2. "paragraphs" \in DOMAIN c
    BY DEF Good, Paragraphed
  <2> HIDE DEF rows
  <2>3. "paragraphs" \in DOMAIN new /\ new.paragraphs = rows
    BY <2>2
  <2>4. "paragraphs" \in DOMAIN Enriched(c, title) /\ Enriched(c, title).paragraphs = rows
    <3> HIDE DEF new
    <3> QED
      BY <2>1, <2>3
  <2> QED
    BY <1>5, <2>4, SameRows
<1> QED
  BY <1>6, <1>7

\* Of numbered rows the last with a property.
LEMMA Greatest ==
    ASSUME NEW n \in Nat, NEW S \in SUBSET (1 .. n), S # {}
    PROVE  Max(S) \in S
<1> DEFINE Left == {n - i : i \in S}
<1>1. Left \in SUBSET Nat /\ Left # {}
  <2>1. \A i \in S : n - i \in Nat
    OBVIOUS
  <2>2. PICK i : i \in S
    OBVIOUS
  <2> QED
    BY <2>1, <2>2
<1>2. PICK m \in Left : \A k \in Left : m <= k
  BY <1>1, Least
<1>3. PICK i \in S : m = n - i
  BY <1>2
<1>4. \A j \in S : i >= j
  BY <1>2, <1>3
<1> QED
  BY <1>4 DEF Max

\* The polish of a text whose paragraphs are told apart keeps the claim of each.
LEMMA PolishedAdvances ==
    ASSUME Guards, NEW c, Good(c), NEW p, Paragraphed(p), NEW kernel,
           Verdict(Silent, AuditExpression(c, p), {}, kernel).status = "PASS"
    PROVE  ClaimsOf(c.paragraphs) \subseteq ClaimsOf(p.paragraphs)
<1>1. /\ "QG_EXPRESSION_PARAGRAPH_ID_CHANGED" \notin AuditExpression(c, p)
      /\ "QG_EXPRESSION_SEMANTIC_IDENTITY_CHANGED" \notin AuditExpression(c, p)
  <2>1. \A code \in {"QG_EXPRESSION_PARAGRAPH_ID_CHANGED", "QG_EXPRESSION_SEMANTIC_IDENTITY_CHANGED"} :
           code \notin AuditExpression(c, p)
    BY SilentHolds, Zenon DEF Advice
  <2> QED
    BY <2>1
<1>2. IdsOf(c) = IdsOf(p)
  BY <1>1 DEF AuditExpression, Flag
<1>3. \A id \in IdsOf(c) \cap IdsOf(p) : Identity(RowOf(c, id)) = Identity(RowOf(p, id))
  BY <1>1 DEF AuditExpression, Flag
<1> SUFFICES ASSUME NEW i \in DOMAIN c.paragraphs
             PROVE  c.paragraphs[i].claim \in ClaimsOf(p.paragraphs)
  BY DEF ClaimsOf, Column
<1> DEFINE id == c.paragraphs[i].id
<1>4. id \in IdsOf(c) /\ id \in IdsOf(p)
  BY <1>2 DEF IdsOf, Column
<1>5. RowOf(c, id) = c.paragraphs[i]
  <2> DEFINE S == {k \in DOMAIN c.paragraphs : c.paragraphs[k].id = id}
  <2>1. S = {i}
    BY DEF Good, Apart
  <2>2. PICK n \in Nat : DOMAIN c.paragraphs = 1 .. n
    BY DEF Good, Paragraphed
  <2>3. S \in SUBSET (1 .. n) /\ S # {}
    BY <2>1, <2>2
  <2>4. Max(S) \in S
    <3> HIDE DEF S
    <3> QED
      BY <2>2, <2>3, Greatest
  <2> QED
    BY <2>1, <2>4 DEF RowOf
<1>6. \E k \in DOMAIN p.paragraphs : RowOf(p, id) = p.paragraphs[k]
  <2> DEFINE S == {k \in DOMAIN p.paragraphs : p.paragraphs[k].id = id}
  <2>1. S # {}
    BY <1>4 DEF IdsOf, Column
  <2>2. PICK n \in Nat : DOMAIN p.paragraphs = 1 .. n
    BY DEF Paragraphed
  <2>3. S \in SUBSET (1 .. n) /\ S # {}
    BY <2>1, <2>2
  <2>4. Max(S) \in S
    <3> HIDE DEF S
    <3> QED
      BY <2>2, <2>3, Greatest
  <2> QED
    BY <2>4 DEF RowOf
<1>7. Identity(RowOf(c, id)) = Identity(RowOf(p, id))
  BY <1>3, <1>4
<1>8. RowOf(c, id).claim = RowOf(p, id).claim
  BY <1>7 DEF Identity
<1> QED
  BY <1>5, <1>6, <1>8 DEF ClaimsOf, Column

\* An editor who is shown paragraphs answers with paragraphs: the schema of its prompt.
EditorsAnswer == \A c : Paragraphed(c) => \A p \in Polished(c) : Paragraphed(p)

\* What a section has written advances its contract's claims; a repair does when it is
\* approved.
Advancing(s, r) ==
    /\ r.phase \in {"ENRICH", "CRITIC", "POLISH"} =>
          /\ Good(r.content[1]) /\ Advances(s, r.content[1])
          /\ r.fixedContent # <<>> => Good(r.fixedContent[1])
    /\ r.phase = "POLISH" => Advances(s, Either(r.fixedContent, r.content))
    /\ r.phase \in {"POLISH_CRITIC", "DONE"} => Advances(s, r.polished[1])

LEMMA EffectAdvances ==
    ASSUME IdsApart, EditorsAnswer, Guards, Unmasked(MaskedContent), AllFit,
           NEW s \in Names, Advancing(s, sec[s]), Effect(s)
    PROVE  Advancing(s, sec'[s])
<1> DEFINE r == sec[s]
           n == sec'[s]
<1>1. \A c \in Drafts[s] : Good(c)
  BY ProposalAssumption DEF IdsApart, Good, Apart
<1>2. \A x : <<x>>[1] = x /\ <<x>> # <<>>
  OBVIOUS
<1>3. CASE Planning(r, n)
  BY <1>3 DEF Planning, Advancing
<1>4. CASE Drafting(s, r, n)
  <2>1. PICK c, k, kernel :
           /\ c \in Drafts[s] /\ n.content = <<c>>
           /\ Verdict(Silent, AuditContent(c, Payload(s, k)), {}, kernel).status = "PASS"
    BY <1>4 DEF Drafting
  <2>2. Advances(s, c)
    BY <2>1, DraftAdvances
  <2> QED
    BY <1>1, <1>2, <1>4, <2>1, <2>2 DEF Drafting, Advancing
<1>5. CASE Enriching(s, r, n)
  <2>1. Good(r.content[1]) /\ Advances(s, r.content[1])
    BY <1>5 DEF Enriching, Advancing
  <2>2. Good(Enriched(r.content[1], s)) /\ Advances(s, Enriched(r.content[1], s))
    BY <2>1, EnrichedGood DEF Advances
  <2> QED
    BY <1>2, <1>5, <2>2 DEF Enriching, Advancing
<1>6. CASE Approving(s, r, n)
  <2>1. Advances(s, ShownContent(s))
    BY <1>6, ApprovedAdvances DEF Approving
  <2> QED
    BY <1>6, <2>1 DEF Approving, Advancing, Keeps, ShownContent
<1>7. CASE Repairing(s, r, n)
  BY <1>1, <1>2, <1>7 DEF Repairing, Advancing
<1>8. CASE Polishing(s, r, n)
  <2>1. PICK p, kernel :
           /\ p \in Polished(ShownContent(s)) /\ n.polished = <<p>>
           /\ Verdict(Silent, AuditExpression(ShownContent(s), p), {}, kernel).status = "PASS"
    BY <1>8 DEF Polishing
  <2>2. Good(ShownContent(s)) /\ Advances(s, ShownContent(s))
    BY <1>8 DEF Polishing, Advancing, ShownContent, Either
  <2>3. Paragraphed(p)
    BY <2>1, <2>2 DEF EditorsAnswer, Good
  <2>4. Advances(s, p)
    BY <2>1, <2>2, <2>3, PolishedAdvances DEF Advances
  <2> QED
    BY <1>2, <1>8, <2>1, <2>4 DEF Polishing, Advancing
<1>9. CASE Finishing(r, n)
  BY <1>2, <1>9 DEF Finishing, Advancing
<1> QED
  BY <1>3, <1>4, <1>5, <1>6, <1>7, <1>8, <1>9 DEF Effect

\* Nothing is written before the plan is.
Fresh == at \in 1 .. 14 => \A s \in Names : sec[s].phase = "BLUEPRINT"
AllAdvance == \A s \in Names : Advancing(s, sec[s])

LEMMA FreshStep == ASSUME InOrder, AllFit, Fresh, [Next]_vars PROVE Fresh'
<1> SUFFICES ASSUME at' \in 1 .. 14 PROVE at \in 1 .. 14 /\ sec' = sec
  BY DEF Fresh
<1>1. at \in 1 .. 14
  BY Frame, ProduceFrame, AcceptFrame DEF InOrder
<1> QED
  BY <1>1, SectionsFrame

LEMMA AdvanceStep ==
    ASSUME IdsApart, EditorsAnswer, Unmasked(MaskedContent), InOrder, AllFit, Fresh, AllAdvance,
           [Next]_vars
    PROVE  AllAdvance'
<1>1. CASE sec' = sec /\ made' = made
  BY <1>1 DEF AllAdvance, Advancing, Advances, Contracts
<1>2. CASE sec' = sec /\ made' # made
  <2>1. at \in 1 .. 14
    BY <1>2, Frame, ProduceFrame, AcceptFrame
  <2> QED
    BY <1>2, <2>1 DEF Fresh, AllAdvance, Advancing
<1>3. CASE sec' # sec
  <2>1. PICK s \in Names : made' = made /\ Effect(s)
    BY <1>3, SectionsFrame
  <2>2. Advancing(s, sec'[s])
    BY <2>1, EffectAdvances DEF InOrder, AllAdvance
  <2>3. \A t \in Names : Advancing(t, sec'[t])
    BY <2>1, <2>2 DEF Effect, AllAdvance
  <2> QED
    BY <2>1, <2>3 DEF AllAdvance, Advancing, Advances, Contracts
<1> QED
  BY <1>1, <1>2, <1>3

\* What goes into the integrated document advances all claims its contract demands,
\* whatever was repaired, drawn and polished on the way, unless a critic's model hides the
\* finding behind one of its own.
THEOREM RequiredIsAdvanced ==
    ASSUME EditorsAnswer
    PROVE  Spec => [](Unmasked(MaskedContent) => RequiredAdvanced)
<1> DEFINE Inv == /\ InOrder /\ AllFit /\ Fresh
                  /\ IdsApart /\ Unmasked(MaskedContent) => AllAdvance
<1>1. Init => Inv
  <2> SUFFICES ASSUME Init PROVE Inv
    OBVIOUS
  <2>1. \A s \in Names : sec[s].phase = "BLUEPRINT"
    BY NewIs DEF Init
  <2> QED
    BY <2>1, AuditedInit, FitInit DEF Fresh, AllAdvance, Advancing
<1>2. Inv /\ [Next]_vars => Inv'
  <2> SUFFICES ASSUME Inv, [Next]_vars PROVE Inv'
    OBVIOUS
  <2>1. InOrder' /\ AllFit' /\ Fresh'
    BY OrderKept, FitStep, FreshStep
  <2>2. Unmasked(MaskedContent)' => Unmasked(MaskedContent)
    BY Frame DEF Unmasked
  <2>3. IdsApart' <=> IdsApart
    BY DEF IdsApart
  <2> QED
    BY <2>1, <2>2, <2>3, AdvanceStep
<1>3. Inv => (Unmasked(MaskedContent) => RequiredAdvanced)
  BY DEF RequiredAdvanced, AllAdvance, Advancing, Advances, WrittenSections
<1> HIDE DEF Inv
<1> QED
  BY <1>1, <1>2, <1>3, PTL DEF Spec

====
