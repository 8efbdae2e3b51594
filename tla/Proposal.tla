-------------------------------- MODULE Proposal --------------------------------
(***************************************************************************)
(* A proposal from the scheme to the delivered files: what each prompt     *)
(* answers, what the guard makes of the answer, what the one repair per    *)
(* critic may change, and which of the committed and repaired objects the  *)
(* later prompts, the export and the inspection read.                      *)
(*                                                                         *)
(* A model's answer is any member of a constant set.  Bounds: one section  *)
(* plan, one integration review (its rewrites are in module Authoring), no *)
(* continuation after a stop (gates and retries are in WorkflowEngine),    *)
(* and at most one part of the file damaged.  What no later audit reads    *)
(* (scheme, template, a blueprint, the draft of a polished section) is     *)
(* dropped from the state once it is approved.                             *)
(***************************************************************************)
EXTENDS SectionContext, DeliveryChecks, Diagrams

CONSTANTS
    Sections,      \* of the current proposal, in its order (a sequence of titles)
    Answers,       \* of each upstream producer: what it may answer (a function to sets)
    Opinions,      \* a critic's own: [status, findings, thorough]
    Repairs,       \* what a repair says it did: [changed, allowed, protected, resolved, requested]
    Readings,      \* readiness reports
    Blueprints, Drafts,     \* of a section: what its writer may answer
    Polished(_),   \* of a candidate: what the editor may make of it
    Integrations,  \* the integration critic's checks
    Form           \* the parts of a DOCX to patch; the empty sequence if there is none

VARIABLES
    guard,    \* "TRACK_B", the service's, or "FULL", the executor's default
    at,       \* the step that runs; 0 when the proposal was stopped
    made,     \* the committed objects, by the upstream producer they are of
    fixed,    \* the repaired object of the step's critic: the empty sequence, or one
    sec,      \* of a section: how far it is and what was written
    order,    \* sections by their first passing draft
    file,     \* the parts of the DOCX
    pdf       \* the text layer of the PDF

vars == <<guard, at, made, fixed, sec, order, file, pdf>>

\* A critic's step is of the object of its producer.
Step(does, what) == [does |-> does, what |-> what]
\* WF-1, WF-2 and WF-4, then the export and its inspection.
Steps == <<Step("PRODUCE", "scheme"), Step("REVIEW", "scheme"),
           Step("PRODUCE", "definition"), Step("REVIEW", "definition"),
           Step("PRODUCE", "facts"), Step("REVIEW", "facts"),
           Step("ASSESS", "READY_FOR_ARGUMENT_ARCHITECTURE"),
           Step("PRODUCE", "template"), Step("REVIEW", "template"),
           Step("PRODUCE", "architecture"), Step("REVIEW", "architecture"),
           Step("ASSESS", "READY_FOR_SECTION_PLANNING"),
           Step("PRODUCE", "plan"), Step("REVIEW", "plan"),
           Step("WRITE", "sections"), Step("INTEGRATE", "document"),
           Step("EXPORT", "document"), Step("INSPECT", "document")>>
Position(step) == CHOOSE i \in DOMAIN Steps : Steps[i] = step
Doing(does) == at \in DOMAIN Steps /\ Steps[at].does = does
What == Steps[at].what
Past(step) == at > Position(step)
Delivered == at > Len(Steps)
Onward(passed) == at' = IF passed THEN at + 1 ELSE 0

NewSection == [phase |-> "BLUEPRINT", blueprint |-> <<>>, content |-> <<>>, polished |-> <<>>,
               fixedBlueprint |-> <<>>, fixedContent |-> <<>>, seen |-> 0]
Names == Elements(Sections)

\* An answer's paragraphs are a list, and each has its id and its claim: the schemas of the
\* prompts see to it.
Paragraphed(c) ==
    /\ "paragraphs" \in DOMAIN c /\ c.paragraphs \in Seq(Elements(c.paragraphs))
    /\ \A row \in Elements(c.paragraphs) : {"id", "claim"} \subseteq DOMAIN row
ASSUME ProposalAssumption ==
    /\ Sections \in Seq(STRING)
    /\ \A plan \in Answers["plan"] : IsFiniteSet(plan.contracts)
    /\ \A s \in Names : \A c \in Drafts[s] : Paragraphed(c)

Init ==
    /\ guard \in {"TRACK_B", "FULL"}
    /\ at = 1 /\ made = [x \in {} |-> x] /\ fixed = <<>>
    /\ sec = [s \in Names |-> NewSection] /\ order = <<>>
    /\ file = <<>> /\ pdf = {}

-----------------------------------------------------------------------------
(* The guard.                                                               *)

\* The verdict on an answer; the kernel's audits and what they drop need the kernel.
Verdict(own, base, dropped, kernel) ==
    IF guard = "TRACK_B" THEN ByKernel(own, base, dropped, kernel) ELSE Merged(own, base)
Silent == [status |-> "PASS", findings |-> {}]
Spoken(own) == [status |-> own.status, findings |-> own.findings]
Repairable(v) == v.status = "REVISE" /\ v.findings # {}

\* What a critic looked at: everything, or nothing.
Reviewed(own, ids) ==
    IF own.thorough
    THEN [checked |-> ids, rules |-> Dimensions \cup UNION {RulesOf[p] : p \in DOMAIN RulesOf},
          scored |-> Dimensions, chains |-> 7]
    ELSE [checked |-> {}, rules |-> {}, scored |-> {}, chains |-> 0]

\* Of an answer, the object that is committed and that the critic is shown.
Object(what, answer) ==
    CASE what = "scheme" -> answer.rules
      [] what = "facts"  -> answer.claims
      [] OTHER           -> answer
BaseAudit(what, x) ==
    CASE what = "definition"   -> AuditDefinition(x)
      [] what = "facts"        -> AuditFacts(x, {}, FALSE)
      [] what = "template"     -> AuditTemplate(x)
      [] what = "architecture" -> AuditArchitecture(x)
      [] what = "plan"         -> AuditPlan(x)
      [] OTHER                 -> {}
KernelAudit(what, x) ==
    CASE what = "scheme"     -> AuditScheme(x, {}, FALSE, {})
      [] what = "definition" -> AuditRelations(x)
      [] what = "facts"      -> AuditAtoms(x, {}, FALSE)
      [] OTHER               -> {}

-----------------------------------------------------------------------------
(* Upstream.                                                                *)

\* Coverage and ambiguities are in the producer's answer alone.
Produce ==
    /\ Doing("PRODUCE")
    /\ \E answer \in Answers[What] :
          LET x == Object(What, answer)
              base == IF What = "facts" THEN AuditFacts(x, answer.covered, TRUE)
                      ELSE BaseAudit(What, x)
              kernel == CASE What = "facts"  -> AuditAtoms(x, answer.covered, TRUE)
                          [] What = "scheme" ->
                                AuditScheme(x, answer.covered, TRUE, answer.ambiguous)
                          [] OTHER           -> KernelAudit(What, x)
          IN  /\ made' = [y \in DOMAIN made \cup {What} |-> IF y = What THEN x ELSE made[y]]
              /\ Onward(Verdict(Silent, base, {}, kernel).status = "PASS")
    /\ UNCHANGED <<guard, fixed, sec, order, file, pdf>>

Candidate == IF fixed # <<>> THEN fixed[1] ELSE made[What]
Opinion(own) ==
    LET x == Candidate
        base == IF What = "architecture"
                THEN AuditArchitectureReview(x, Reviewed(own, NodeIds(x.graph)))
                ELSE BaseAudit(What, x)
    IN  Verdict(Spoken(own), base, {}, KernelAudit(What, x) \cup AuditPrecision(own.findings))

\* What passes is what the critic was shown; what is committed stays as it was made.
Accept ==
    /\ Doing("REVIEW")
    /\ \E own \in Opinions : Opinion(own).status = "PASS"
    /\ fixed' = <<>> /\ at' = at + 1
    /\ made' = [x \in DOMAIN made \ {"scheme", "template"} |-> made[x]]
    /\ UNCHANGED <<guard, sec, order, file, pdf>>

\* The repair is an answer of its own, audited by the kernel for its scope.
RepairPasses(repair) == Verdict(Silent, {}, {}, AuditRepair(repair)).status = "PASS"
\* Once per critic.  The repair of a list fails before it is asked for, and the repaired
\* architecture has not the shape the critic is shown.
Repair ==
    /\ Doing("REVIEW") /\ fixed = <<>> /\ What \notin {"facts", "architecture"}
    /\ \E own \in Opinions : Repairable(Opinion(own))
    /\ \E repair \in Repairs : RepairPasses(repair)
    /\ \E answer \in Answers[What] : fixed' = <<Object(What, answer)>>
    /\ UNCHANGED <<guard, at, made, sec, order, file, pdf>>

Reject ==
    /\ Doing("REVIEW")
    /\ \E own \in Opinions :
          LET v == Opinion(own) IN
          /\ v.status # "PASS"
          /\ \/ ~Repairable(v) \/ fixed # <<>> \/ What \in {"facts", "architecture"}
             \/ \E repair \in Repairs : ~RepairPasses(repair)
    /\ at' = 0
    /\ UNCHANGED <<guard, made, fixed, sec, order, file, pdf>>

\* Nothing repairs what the readiness critic finds.
Assess ==
    /\ Doing("ASSESS")
    /\ \E own \in Opinions, report \in Readings :
          LET graph == IF "architecture" \in DOMAIN made THEN made["architecture"].graph
                       ELSE [nodes |-> {}]
          IN  Onward(Verdict(Spoken(own),
                           AuditReadiness(made["definition"], graph, What, report), {},
                           AuditPrecision(own.findings)).status = "PASS")
    /\ UNCHANGED <<guard, made, fixed, sec, order, file, pdf>>

-----------------------------------------------------------------------------
(* The sections.                                                            *)

ToWrite == Planned(made["plan"].contracts, Names)
Either(fix, versions) == IF fix # <<>> THEN fix[1] ELSE versions[1]
\* The latest passing draft or polish of each section that has one: repairs are not seen.
Found == [s \in {t \in Names : sec[t].content \o sec[t].polished # <<>>} |->
             Either(sec[s].polished, sec[s].content)]
\* A prompt's payload is put together before its model is asked, at any time after the
\* section's step before it: it shows the sections that had a draft by then, the first
\* k by order.
Views(s) == sec[s].seen .. Len(order)
Payload(s, k) == SectionPayload(made, s, Found, SubSeq(order, 1, k))
ShownContent(s) == Either(sec[s].fixedContent, sec[s].content)
Ready(s, phase) == Doing("WRITE") /\ s \in ToWrite /\ sec[s].phase = phase
Write(s, phase, update) ==
    LET now == [update EXCEPT !.seen = Len(order)] IN
    sec' = [sec EXCEPT ![s] = [now EXCEPT !.phase = phase]]
Stop == at' = 0 /\ UNCHANGED sec

Blueprint(s) ==
    /\ Ready(s, "BLUEPRINT")
    /\ \E rows \in Blueprints[s], k \in Views(s) :
          LET v == Verdict(Silent, AuditBlueprint(rows, Payload(s, k)), {},
                           Conclusion(rows, {}, Payload(s, k)))
          IN  IF v.status # "PASS" THEN Stop
              ELSE Write(s, "BLUEPRINT_CRITIC", [sec[s] EXCEPT !.blueprint = <<rows>>])
                   /\ UNCHANGED at
    /\ UNCHANGED <<guard, made, fixed, order, file, pdf>>

\* A critic of a section: passed, repaired once, or the end.  approved, repairs: what the
\* section then is, or may be.
Judge(s, v, spent, onward, approved, repairs) ==
    \/ v.status = "PASS" /\ Write(s, onward, approved) /\ UNCHANGED at
    \/ /\ Repairable(v) /\ spent = <<>>
       /\ \E repair \in Repairs :
             IF RepairPasses(repair)
             THEN \E x \in repairs : Write(s, sec[s].phase, x) /\ UNCHANGED at
             ELSE Stop
    \/ v.status # "PASS" /\ (~Repairable(v) \/ spent # <<>>) /\ Stop

BlueprintCritic(s) ==
    /\ Ready(s, "BLUEPRINT_CRITIC")
    /\ \E own \in Opinions, k \in Views(s) :
          LET rows == Either(sec[s].fixedBlueprint, sec[s].blueprint)
              v == Verdict(Spoken(own), AuditBlueprint(rows, Payload(s, k)), {},
                           AuditPrecision(own.findings) \cup Conclusion(rows, {}, Payload(s, k)))
          IN  Judge(s, v, sec[s].fixedBlueprint, "CONTENT", NewSection,
                    {[sec[s] EXCEPT !.fixedBlueprint = <<x>>] : x \in Blueprints[s]})
    /\ UNCHANGED <<guard, made, fixed, order, file, pdf>>

\* Nothing compares the text with the blueprint but the contract they share.
Draft(s) ==
    /\ Ready(s, "CONTENT")
    /\ \E c \in Drafts[s], k \in Views(s) :
          LET v == Verdict(Silent, AuditContent(c, Payload(s, k)), {},
                           Conclusion(c.paragraphs, c.claims, Payload(s, k)))
          IN  IF v.status # "PASS" THEN Stop /\ UNCHANGED order
              ELSE /\ Write(s, "ENRICH", [sec[s] EXCEPT !.content = <<c>>])
                   /\ order' = Append(order, s)
                   /\ UNCHANGED at
    /\ UNCHANGED <<guard, made, fixed, file, pdf>>

\* The committed draft is replaced by what it is with its figures.  A process that dies
\* before the chain has saved its progress does it again, to what it has made of it; a
\* renderer that is down leaves everything as it is.
Enrich(s) ==
    /\ Ready(s, "ENRICH")
    /\ LET c == sec[s].content[1] IN
       IF Sourceless(c) THEN Stop
       ELSE /\ \E phase \in {"CRITIC", "ENRICH"} :
                  Write(s, phase, [sec[s] EXCEPT !.content = <<Enriched(c, s)>>])
            /\ UNCHANGED at
    /\ UNCHANGED <<guard, made, fixed, order, file, pdf>>

Critic(s) ==
    /\ Ready(s, "CRITIC")
    /\ \E own \in Opinions, k \in Views(s) :
          LET c == ShownContent(s)
              review == Reviewed(own, IdsOf(c))
              v == Verdict(Spoken(own),
                           AuditContent(c, Payload(s, k)) \cup AuditCritic(c, review, Payload(s, k), TRUE),
                           {}, AuditPrecision(own.findings)
                               \cup Conclusion(c.paragraphs, c.claims, Payload(s, k)))
          IN  Judge(s, v, sec[s].fixedContent, "POLISH", sec[s],
                    {[sec[s] EXCEPT !.fixedContent = <<x>>] : x \in Drafts[s]})
    /\ UNCHANGED <<guard, made, fixed, order, file, pdf>>

Polish(s) ==
    /\ Ready(s, "POLISH")
    /\ \E p \in Polished(ShownContent(s)), k \in Views(s) :
          LET c == ShownContent(s)
              v == Verdict(Silent, AuditExpression(c, p), {},
                           AuditStructure(c, p) \cup Conclusion(p.paragraphs, p.claims, Payload(s, k)))
          IN  IF v.status # "PASS" THEN Stop
              ELSE Write(s, "POLISH_CRITIC", [sec[s] EXCEPT !.polished = <<p>>]) /\ UNCHANGED at
    /\ UNCHANGED <<guard, made, fixed, order, file, pdf>>

\* The polish is never repaired.
PolishCritic(s) ==
    /\ Ready(s, "POLISH_CRITIC")
    /\ \E own \in Opinions, k \in Views(s) :
          LET c == ShownContent(s)
              p == sec[s].polished[1]
              v == Verdict(Spoken(own),
                           AuditExpression(c, p)
                           \cup AuditCritic(p, Reviewed(own, IdsOf(p)), Payload(s, k), FALSE),
                           {}, AuditPrecision(own.findings) \cup AuditStructure(c, p)
                               \cup Conclusion(p.paragraphs, p.claims, Payload(s, k)))
          IN  IF v.status = "PASS"
              THEN Write(s, "DONE", [NewSection EXCEPT !.polished = <<p>>]) /\ UNCHANGED at
              ELSE Stop
    /\ UNCHANGED <<guard, made, fixed, order, file, pdf>>

AllWritten ==
    /\ Doing("WRITE") /\ \A s \in ToWrite : sec[s].phase = "DONE"
    /\ at' = at + 1
    /\ UNCHANGED <<guard, made, fixed, sec, order, file, pdf>>

-----------------------------------------------------------------------------
(* The document.                                                            *)

Integrate ==
    /\ Doing("INTEGRATE")
    /\ \E own \in Opinions, report \in Integrations :
          LET doc == DocumentPayload(made, Names, Found)
              base == AuditDocument(doc, report)
                      \cup (IF guard = "FULL" THEN AuditWhole(doc, report) ELSE {})
          IN  Onward(Verdict(Spoken(own), base, Unjustified(doc),
                           AuditPrecision(own.findings) \cup AuditBoundary(doc)).status = "PASS")
    /\ UNCHANGED <<guard, made, fixed, sec, order, file, pdf>>

\* _candidate_runs: the approved polishes in the order of the proposal, their blocks.
Deliverable(s) ==
    LET p == sec[s].polished[1] IN
    [title |-> s, blocks |-> IF p.paragraphs # <<>> THEN TextsOf(p) ELSE p.text]
Approved == SelectSeq(Sections, LAMBDA s : sec[s].phase = "DONE")
Deliverables == [i \in DOMAIN Approved |-> Deliverable(Approved[i])]
Export ==
    /\ Doing("EXPORT")
    /\ IF Exportable(Form, Deliverables)
       THEN file' = Document(Form, Deliverables) /\ at' = at + 1
       ELSE at' = 0 /\ UNCHANGED file
    /\ UNCHANGED <<guard, made, fixed, sec, order, pdf>>

\* At most one fault: a part of the DOCX is missing (0: none), or a piece of the PDF but for
\* some stretches of it, or a page is blank.
Without(parts, lost) ==
    IF lost = 0 THEN parts ELSE SubSeq(parts, 1, lost - 1) \o SubSeq(parts, lost + 1, Len(parts))
NoFault == [lost |-> 0, gone |-> {}, left |-> {}, blank |-> FALSE]
Faults ==
    {NoFault, [NoFault EXCEPT !.blank = TRUE]}
    \cup {[NoFault EXCEPT !.lost = i] : i \in DOMAIN file}
    \cup UNION {{[NoFault EXCEPT !.gone = {x}, !.left = left] : left \in SUBSET ChunksOf(x)} :
                x \in Shown(file)}
Inspect ==
    /\ Doing("INSPECT")
    /\ \E fault \in Faults :
          LET docx == Without(file, fault.lost)
              text == Printed(Shown(docx) \ fault.gone) \cup fault.left
              pages == [blank |-> fault.blank, cropped |-> FALSE, overlap |-> FALSE]
          IN  /\ file' = docx /\ pdf' = text
              /\ Onward(Inspection(docx, [garbled |-> FALSE, text |-> text, pages |-> pages],
                                   Deliverables) = {})
    /\ UNCHANGED <<guard, made, fixed, sec, order>>

Next ==
    \/ Produce \/ Accept \/ Repair \/ Reject \/ Assess
    \/ \E s \in Names : \/ Blueprint(s) \/ BlueprintCritic(s) \/ Draft(s) \/ Enrich(s)
                        \/ Critic(s) \/ Polish(s) \/ PolishCritic(s)
    \/ AllWritten \/ Integrate \/ Export \/ Inspect

Spec == Init /\ [][Next]_vars

-----------------------------------------------------------------------------
(* Properties.                                                              *)

Contracts == made["plan"].contracts
WrittenSections == {s \in Names : sec[s].phase = "DONE"}

\* From the planning on the sections can be written in some order: no group of sections
\* each waits for another of the group.
PlanOrderable ==
    Past(Step("PRODUCE", "plan")) =>
        \A group \in (SUBSET Known(Contracts)) \ {{}} :
            \E c \in Contracts : c.section \in group /\ c.prereqs \cap group = {}

\* A proposal goes into planning only with prior work proved by material, and with no
\* evidence of the team in its argument that is not.
FoundationProven ==
    LET Proven(x) == \E r \in x.refs : r.real /\ r.type \in FoundationTypes
        done == {i \in made["definition"].items : i.type \in Foundations /\ i.status \in Settled}
    IN  Past(Step("ASSESS", "READY_FOR_SECTION_PLANNING")) =>
            /\ done # {} /\ \A i \in done : Proven(i)
            /\ \A n \in made["architecture"].graph.nodes :
                  n.type = "TEAM_EVIDENCE" /\ n.status \in {"SUPPORTED", "CONFIRMED"} => Proven(n)

\* No two paragraphs of a draft share an id.
IdsApart ==
    \A s \in Names : \A c \in Drafts[s] :
        \A i, j \in DOMAIN c.paragraphs : c.paragraphs[i].id = c.paragraphs[j].id => i = j

\* What goes into the integrated document advances all claims its contract demands,
\* whatever was repaired and polished on the way (if the drafts tell paragraphs apart: of
\* two with one id the polish has to keep one).
RequiredAdvanced ==
    IdsApart =>
        \A s \in WrittenSections :
            ContractOf(Contracts, s).claims \subseteq ClaimsOf(sec[s].polished[1].paragraphs)

\* In an accepted document no information belongs to two sections of the main body,
\* though sections written side by side do not see each other's (no key is none).
KeysOwnedOnce ==
    LET main == {s \in WrittenSections : ContractOf(Contracts, s).placement # "APPENDIX"} IN
    Past(Step("INTEGRATE", "document")) =>
        \A s, t \in main :
            s # t => sec[s].polished[1].keys \cap sec[t].polished[1].keys \subseteq {<<>>}

\* What a section's part of the document shows.
ShownUnder(title) ==
    LET at1 == Min({i \in DOMAIN file : file[i].kind = "HEADING" /\ file[i].of = title})
        end == Min({i \in DOMAIN file : /\ i > at1 /\ file[i].kind = "HEADING"
                                        /\ file[i].level = 1} \cup {Len(file) + 1})
    IN  Shown(SubSeq(file, at1, end - 1))
\* What the reader of a section's reviewed blocks was shown; pieces of under four
\* characters are nobody's promise.
Pieces(blocks) ==
    UNION {Traits[b].pieces \cup {f.caption : f \in Elements(Traits[b].figures)} :
           b \in Elements(blocks)} \cap Long
\* Of a piece no more is missing in the PDF than the inspection overlooks: nothing of a
\* short one, a fifth of a long one.
InPdf(piece) ==
    \/ piece \in pdf
    \/ /\ piece \in DOMAIN Chunks
       /\ LET missing == {i \in DOMAIN Chunks[piece] : Chunks[piece][i] \notin pdf}
          IN  5 * Cardinality(missing) <= Len(Chunks[piece])
\* A delivery that passes shows every reviewed piece, in the DOCX whole and in the section
\* it was reviewed in, in the PDF but for a fifth of it and somewhere (if nothing is in the
\* appendix, where repetition is not looked for).
DeliveredAsReviewed ==
    Delivered /\ (\A c \in Contracts : c.placement # "APPENDIX") =>
        \A s \in WrittenSections : \A piece \in Pieces(Deliverable(s).blocks) :
            piece \in ShownUnder(s) /\ InPdf(piece)

=============================================================================
