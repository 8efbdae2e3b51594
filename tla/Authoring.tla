------------------------------- MODULE Authoring -------------------------------
(***************************************************************************)
(* WF-4 from the revision plan to the full-text review, in its two modes.  *)
(* In the serial mode (full = FALSE) the workflow itself drives every      *)
(* section through the chain.  In the full-proposal mode its advance       *)
(* starts one child workflow per group of sections and gathers them.       *)
(*                                                                         *)
(* Everything runs on one event loop, so an action is what a task does     *)
(* between two awaits.  asyncio.gather returns at the first exception and  *)
(* leaves the other tasks running: the next advance may then run a second  *)
(* task on the same child.  A generation is one gather with its tasks.     *)
(*                                                                         *)
(* The gate that follows a step and its decision are kept small here;      *)
(* module WorkflowEngine has them in full.                                 *)
(***************************************************************************)
EXTENDS SectionChain, FiniteSets

CONSTANTS
    Groups,       \* groups of the frozen contract that own a section
    Owner,        \* the group of each section
    MaxFailures,  \* bound: process deaths and exceptions that are no prompt error
    Strict,       \* bound: critics of the first two that ask for a revision
    Faults        \* bound: sections and phases an exception strikes in.  Drawing
                  \* a content's diagrams may raise one; a full disk does anywhere

Main == "MAIN"
ASSUME GroupsAssumption ==
    /\ Owner \in [Sections -> Groups] /\ Main \notin Groups
    /\ \A g \in Groups : \E s \in Sections : Owner[s] = g
    /\ MaxFailures \in Nat /\ Faults \subseteq Sections \X Phases /\ Strict \subseteq DOMAIN Repairs

Writers == Groups \cup {Main}
Mine(w) == IF w = Main THEN Sections ELSE {s \in Sections : Owner[s] = w}
Gens == 1 .. MaxFailures + 1
Slots == Writers \X Gens

VARIABLES
    full,      \* the mode, an option fixed when the workflow is created
    rows,      \* rows of table workflows: the parent (Main) and the children
    plan,      \* what else the parent's row holds
    gate,      \* an OPEN gate of the parent exists
    copies,    \* the parent's row as the reviewer (0) or a generation read it
    tasks,     \* the coroutine in each slot
    cur,       \* the generation a running advance waits for, 0: none
    asked,     \* the full-text critic has been called, on new candidates or not
    docs,      \* prompt_runs: the latest texts of every section
    changed,   \* sections with a new candidate since the last review's snapshot
    wanted,    \* how many times each section has been demanded
    crashes, faults

vars == <<full, rows, plan, gate, copies, tasks, cur, asked, docs, changed, wanted,
          crashes, faults>>

Plans == [step : {"ARGUE", "PLAN", "WRITE", "REVIEW", "END"}, children : SUBSET Groups,
          rounds : 0 .. 2, argued : BOOLEAN, planned : BOOLEAN, skip : BOOLEAN,
          revised : BOOLEAN]
NewPlan == [step |-> "PLAN", children |-> {}, rounds |-> 0, argued |-> FALSE,
            planned |-> FALSE, skip |-> FALSE, revised |-> FALSE]
NoCopy == [row |-> NewRow, plan |-> NewPlan]

\* Of prompt_runs: the versions of the latest blueprint, content and candidate
\* (a content or a polish), which task wrote it and whether a critic passed it.
Docs == [BLUEPRINT : Versions, CONTENT : Versions, candidate : Versions,
         kind : Producers \cup {"NONE"}, by : {0} \cup Gens, approved : BOOLEAN]
NewDoc == [BLUEPRINT |-> 0, CONTENT |-> 0, candidate |-> 0, kind |-> "NONE",
           by |-> 0, approved |-> FALSE]

\* seen: the version of the text the call is about; of: who wrote it.
Tasks == [pc : {"off", "fresh", "ready", "await", "repair", "recheck", "done"},
          row : Rows, seen : Versions, of : {0} \cup Gens]
Task(pc, r) == [pc |-> pc, row |-> r, seen |-> 0, of |-> 0]
NoTask == Task("off", NewRow)

TypeOK ==
    /\ full \in BOOLEAN /\ gate \in BOOLEAN
    /\ rows \in [Writers -> Rows]
    /\ plan \in Plans
    /\ copies \in [{0} \cup Gens -> [row : Rows, plan : Plans]]
    /\ tasks \in [Slots -> Tasks]
    /\ cur \in {0} \cup Gens
    /\ asked \in {"NO", "FRESH", "SAME"}
    /\ docs \in [Sections -> Docs]
    /\ changed \subseteq Sections
    /\ wanted \in [Sections -> Versions]
    /\ crashes \in Nat /\ faults \in Nat /\ crashes + faults <= MaxFailures

Init ==
    /\ full \in BOOLEAN
    /\ rows = [w \in Writers |-> NewRow]
    /\ plan = NewPlan /\ gate = FALSE
    /\ copies = [k \in {0} \cup Gens |-> NoCopy]
    /\ tasks = [t \in Slots |-> NoTask]
    /\ cur = 0 /\ asked = "NO"
    /\ docs = [s \in Sections |-> NewDoc]
    /\ changed = {}
    /\ wanted = [s \in Sections |-> 1]
    /\ crashes = 0 /\ faults = 0

Alive(k) == {w \in Writers : tasks[<<w, k>>].pc # "off"}
Orphans == {k \in Gens \ {cur} : Alive(k) # {}}

\* An advance may start: it finds no open gate.
At(step) ==
    cur = 0 /\ asked = "NO" /\ ~gate /\ rows[Main].status = "RUNNING" /\ plan.step = step

-----------------------------------------------------------------------------
\* The argument architecture and the revision plan with their critics: prompt
\* steps of the engine, passed or blocked.
Upstream ==
    /\ At("ARGUE") \/ At("PLAN")
    /\ \/ plan' = [plan EXCEPT !.step = IF @ = "ARGUE" THEN "PLAN" ELSE "WRITE"] /\ UNCHANGED rows
       \/ rows' = [rows EXCEPT ![Main] = Blocked(@)] /\ UNCHANGED plan
    /\ UNCHANGED <<full, gate, copies, tasks, cur, asked, docs, changed, wanted, crashes, faults>>

-----------------------------------------------------------------------------
(* Writing                                                                  *)

\* The chain is through when its loop has run out of sections.
Through(r, w) == r.status = "RUNNING" /\ Todo(r, Mine(w)) = {}

\* The end of the writing step for the parent: a candidate gate unless the step
\* was a scheduled repair.
WrittenRow(r, p) == [r EXCEPT !.repair = {}, !.status = IF p.skip THEN "RUNNING" ELSE "WAITING_GATE"]
WrittenPlan(p) == [p EXCEPT !.step = "REVIEW", !.skip = FALSE]

\* The end of a group's task: COMPLETED with every section of the group.
GroupRow(r, w) ==
    [r EXCEPT !.repair = {},
              !.status = IF Mine(w) \subseteq r.results THEN "COMPLETED" ELSE "BLOCKED"]

\* The parent's _write_sections_serial with its row at r.
MoveMain(k, r) ==
    /\ IF Through(r, Main)
       THEN /\ rows' = [rows EXCEPT ![Main] = WrittenRow(r, plan)]
            /\ plan' = WrittenPlan(plan)
            /\ gate' = ~plan.skip
       ELSE rows' = [rows EXCEPT ![Main] = r] /\ UNCHANGED <<plan, gate>>
    /\ IF Through(r, Main) \/ r.status = "BLOCKED"
       THEN cur' = 0 /\ tasks' = [tasks EXCEPT ![<<Main, k>>] = NoTask]
       ELSE cur' = k /\ tasks' = [tasks EXCEPT ![<<Main, k>>] = Task("ready", r)]

\* The task of group g with its child at r.  A finished one also saves the parent,
\* from the copy its generation shares; without a gather nobody awaits it.
MoveGroup(g, k, r, begins) ==
    LET end == IF Through(r, g) THEN GroupRow(r, g) ELSE r
        tells == begins \/ end.status = "COMPLETED"
    IN  /\ rows' = [rows EXCEPT ![g] = end, ![Main] = IF tells THEN copies[k].row ELSE @]
        /\ plan' = IF tells THEN copies[k].plan ELSE plan
        /\ tasks' = [tasks EXCEPT ![<<g, k>>] =
                        IF end.status = "RUNNING" THEN Task("ready", end)
                        ELSE IF k = cur THEN Task("done", end) ELSE NoTask]
        /\ UNCHANGED <<gate, cur>>

Move(w, k, r) == IF w = Main THEN MoveMain(k, r) ELSE MoveGroup(w, k, r, FALSE)

\* Serial mode: the advance enters the loop over the sections.
StartSerial ==
    /\ ~full /\ At("WRITE")
    /\ \E r \in {Onward(rows[Main], Sections)} : MoveMain(1, r)
    /\ UNCHANGED <<full, copies, asked, docs, changed, wanted, crashes, faults>>

\* Full mode: missing children are created, and a task is made for every group.
StartGroups ==
    /\ full /\ At("WRITE")
    /\ \E k \in Gens :
          /\ Alive(k) = {} /\ \A j \in 1 .. k - 1 : Alive(j) # {}
          /\ cur' = k
          /\ plan' = [plan EXCEPT !.children = Groups]
          /\ copies' = [copies EXCEPT ![k] = [row |-> rows[Main], plan |-> plan']]
          /\ tasks' = [t \in Slots |-> IF t[1] \in Groups /\ t[2] = k
                                       THEN Task("fresh", NewRow) ELSE tasks[t]]
    /\ rows' = [w \in Writers |-> IF w \in Groups \ plan.children THEN NewRow ELSE rows[w]]
    /\ UNCHANGED <<full, gate, asked, docs, changed, wanted, crashes, faults>>

\* The task of a group begins: repairs are applied to the child, a complete child
\* is taken as it is, any other is run.
BeginGroup(g, k) ==
    LET r == ResetForRepair(rows[g], Mine(g), copies[k].row.repair)
    IN  /\ tasks[<<g, k>>].pc = "fresh"
        /\ IF r.status = "COMPLETED" /\ Mine(g) \subseteq r.results
           THEN /\ tasks' = [tasks EXCEPT ![<<g, k>>] = IF k = cur THEN Task("done", r) ELSE NoTask]
                /\ UNCHANGED <<rows, plan, gate, cur>>
           ELSE \E q \in {Onward([r EXCEPT !.status = "RUNNING"], Mine(g))} : MoveGroup(g, k, q, TRUE)
        /\ UNCHANGED <<full, copies, asked, docs, changed, wanted, crashes, faults>>

\* The envelope of the phase's prompt is built and the model called.
Ask(w, k) ==
    LET t == tasks[<<w, k>>]
        s == Active(t.row, Mine(w))
        text == CASE t.row.phase[s] = "BLUEPRINT" -> wanted[s]
                  [] t.row.phase[s] = "CONTENT" -> TextOf(t.row, s, docs[s], "BLUEPRINT")
                  [] t.row.phase[s] = "POLISH" -> TextOf(t.row, s, docs[s], "CONTENT")
                  [] OTHER -> 0
    IN  /\ t.pc = "ready"
        /\ tasks' = [tasks EXCEPT ![<<w, k>>] =
                [t EXCEPT !.pc = "await", !.seen = text,
                          !.of = IF t.row.phase[s] = "EXPRESSION_CRITIC" /\ docs[s].kind = "POLISH"
                                 THEN docs[s].by ELSE 0]]
        /\ UNCHANGED <<full, rows, plan, gate, copies, cur, asked, docs, changed, wanted, crashes, faults>>

\* What a PASS answer leaves in prompt_runs.
Produced(d, phase, seen, of, k) ==
    CASE phase = "BLUEPRINT" -> [d EXCEPT !.BLUEPRINT = seen]
      [] phase = "CONTENT" -> [d EXCEPT !.CONTENT = seen, !.candidate = seen, !.kind = phase,
                                        !.by = k, !.approved = FALSE]
      [] phase = "POLISH" -> [d EXCEPT !.candidate = seen, !.kind = phase, !.by = k, !.approved = FALSE]
      [] phase = "EXPRESSION_CRITIC" -> [d EXCEPT !.approved = @ \/ (d.kind = "POLISH" /\ d.by = of)]
      [] OTHER -> d
Commit(w, k) ==
    LET t == tasks[<<w, k>>]
        s == Active(t.row, Mine(w))
        phase == t.row.phase[s]
    IN  /\ docs' = [docs EXCEPT ![s] = Produced(@, phase, t.seen, t.of, k)]
        /\ changed' = IF phase \in {"CONTENT", "POLISH"} THEN changed \cup {s} ELSE changed

AnswerPass(w, k) ==
    LET t == tasks[<<w, k>>]
    IN  /\ t.pc = "await"
        /\ Commit(w, k)
        /\ \E r \in {Onward(Passed(t.row, Active(t.row, Mine(w))), Mine(w))} : Move(w, k, r)
        /\ UNCHANGED <<full, copies, asked, wanted, crashes, faults>>

\* A critic of the first two asks for a revision, and its one attempt is left.
AnswerRevise(w, k) ==
    LET t == tasks[<<w, k>>]
        s == Active(t.row, Mine(w))
        c == t.row.phase[s]
    IN  /\ t.pc = "await" /\ c \in Strict /\ CanRepair(t.row, s, c)
        /\ tasks' = [tasks EXCEPT ![<<w, k>>] =
                [t EXCEPT !.pc = "repair", !.row = Attempted(t.row, s, c),
                          !.seen = docs[s][Repairs[c]]]]
        /\ rows' = [rows EXCEPT ![w] = t.row]
        /\ UNCHANGED <<full, plan, gate, copies, cur, asked, docs, changed, wanted, crashes, faults>>

\* The targeted repair is stored as an override, and the critic is asked again.
AnswerRepair(w, k) ==
    LET t == tasks[<<w, k>>]
        s == Active(t.row, Mine(w))
        r == Overridden(t.row, s, t.row.phase[s], t.seen)
    IN  /\ t.pc = "repair"
        /\ tasks' = [tasks EXCEPT ![<<w, k>>] = Task("recheck", r)]
        /\ rows' = [rows EXCEPT ![w] = r]
        /\ UNCHANGED <<full, plan, gate, copies, cur, asked, docs, changed, wanted, crashes, faults>>

RecheckPass(w, k) ==
    LET t == tasks[<<w, k>>]
    IN  /\ t.pc = "recheck"
        /\ \E r \in {Onward(Passed(t.row, Active(t.row, Mine(w))), Mine(w))} : Move(w, k, r)
        /\ UNCHANGED <<full, copies, asked, docs, changed, wanted, crashes, faults>>

\* Any other answer, a prompt error, a failed repair: _block_section_chain.
Refuse(w, k) ==
    LET t == tasks[<<w, k>>]
    IN  /\ t.pc \in {"await", "repair", "recheck"}
        /\ Move(w, k, Blocked(t.row))
        /\ UNCHANGED <<full, copies, asked, docs, changed, wanted, crashes, faults>>

\* Mutant of Gathered: a blocked group does not count as a result.
GatheredWhole == \A g \in Groups :
    tasks[<<g, cur>>].pc = "done" /\ tasks[<<g, cur>>].row.status = "COMPLETED"
Gathered == \A g \in Groups : tasks[<<g, cur>>].pc = "done"

\* gather has every result: the parent blocks, or merges what the tasks returned.
Gather ==
    LET done == [g \in Groups |-> tasks[<<g, cur>>].row]
        p == copies[cur].plan
        r == [copies[cur].row EXCEPT !.results = UNION {done[g].results : g \in Groups},
                                     !.phase = [s \in Sections |-> done[Owner[s]].phase[s]]]
    IN  /\ full /\ cur # 0 /\ Gathered
        /\ IF (\A g \in Groups : done[g].status = "COMPLETED") /\ r.results = Sections
           THEN /\ rows' = [rows EXCEPT ![Main] = WrittenRow(r, p)]
                /\ plan' = WrittenPlan(p)
                /\ gate' = (gate \/ ~p.skip)
           ELSE /\ rows' = [rows EXCEPT ![Main] = Blocked(copies[cur].row)]
                /\ plan' = p /\ UNCHANGED gate
        /\ tasks' = [t \in Slots |-> IF t[2] = cur THEN NoTask ELSE tasks[t]]
        /\ copies' = [copies EXCEPT ![cur] = NoCopy]
        /\ cur' = 0
        /\ UNCHANGED <<full, asked, docs, changed, wanted, crashes, faults>>

-----------------------------------------------------------------------------
(* The gates and the full-text review                                       *)

\* decide_gate: the row is read and written back with the verdict's status.
Decide ==
    /\ gate /\ gate' = FALSE
    /\ \E status \in {"RUNNING", "BLOCKED"} : rows' = [rows EXCEPT ![Main].status = status]
    /\ UNCHANGED <<full, plan, copies, tasks, cur, asked, docs, changed, wanted, crashes, faults>>

\* An advance that finds an open gate.
Park ==
    /\ gate /\ cur = 0 /\ asked = "NO" /\ rows[Main].status = "RUNNING"
    /\ rows' = [rows EXCEPT ![Main].status = "WAITING_GATE"]
    /\ UNCHANGED <<full, plan, gate, copies, tasks, cur, asked, docs, changed, wanted, crashes, faults>>

\* _validate_full_proposal_integration_envelope and _final_candidate_provenance.
Reviewable ==
    /\ \A g \in Groups : rows[g].status = "COMPLETED" /\ rows[g].results = Mine(g)
    /\ \A s \in Sections : docs[s].kind = "POLISH" /\ docs[s].approved

\* The integration critic is called, in full mode on a validated snapshot.
Submit ==
    /\ At("REVIEW")
    /\ IF full /\ ~Reviewable
       THEN rows' = [rows EXCEPT ![Main] = Blocked(@)] /\ UNCHANGED <<copies, asked, changed>>
       ELSE /\ copies' = [copies EXCEPT ![0] = [row |-> rows[Main], plan |-> plan]]
            /\ asked' = IF plan.revised /\ changed = {} THEN "SAME" ELSE "FRESH"
            /\ changed' = {} /\ UNCHANGED rows
    /\ UNCHANGED <<full, plan, gate, tasks, cur, docs, wanted, crashes, faults>>

\* The critic's verdict, written to the copy the advance holds.
Concluded(r, p) ==
    /\ rows' = [rows EXCEPT ![Main] = r]
    /\ plan' = p
    /\ asked' = "NO" /\ copies' = [copies EXCEPT ![0] = NoCopy]
    /\ UNCHANGED <<full, tasks, cur, changed, crashes, faults>>

\* _record_full_integration_review refuses a PASS on candidates that have been
\* sent back, and the quality ledger one that leaves a blocker open.
ReviewPass ==
    LET r == copies[0].row
        p == copies[0].plan
    IN  /\ asked # "NO"
        /\ \/ asked = "FRESH" /\ Concluded([r EXCEPT !.status = "COMPLETED"], [p EXCEPT !.step = "END"])
           \/ Concluded(Blocked(r), p)
        /\ UNCHANGED <<gate, docs, wanted>>

Noted(p) == [p EXCEPT !.revised = full]
Demand(A) ==
    /\ \A s \in A : wanted[s] < MaxVersion
    /\ wanted' = [s \in Sections |-> IF s \in A THEN wanted[s] + 1 ELSE wanted[s]]

\* _prepare_integration_repair, routed to the argument or to the plan: once each.
\* A full proposal detaches its children, and with them their texts.
ReviewRevisesPlan ==
    LET r == copies[0].row
        p == Noted(copies[0].plan)
        detached == IF full THEN {} ELSE p.children
    IN  /\ asked # "NO" /\ Orphans = {}
        /\ \/ ~p.argued /\ Concluded(ScheduleRevision(r, full),
                    [p EXCEPT !.step = "ARGUE", !.argued = TRUE, !.children = detached])
           \/ ~p.planned /\ Concluded(ScheduleRevision(r, full),
                    [p EXCEPT !.step = "PLAN", !.planned = TRUE, !.children = detached])
        /\ Demand(Sections)
        /\ docs' = IF full THEN [s \in Sections |-> NewDoc] ELSE docs
        /\ UNCHANGED gate

\* Routed to the writers of the sections the findings name: two rounds.
ReviewRewrites ==
    LET r == copies[0].row
        p == Noted(copies[0].plan)
    IN  /\ asked # "NO" /\ Orphans = {}
        /\ p.rounds < 2
        /\ \E A \in (SUBSET Sections) \ {{}} :
              /\ Concluded(ScheduleRepair(r, A),
                           [p EXCEPT !.step = "WRITE", !.rounds = @ + 1, !.skip = TRUE])
              /\ Demand(A)
        /\ UNCHANGED <<gate, docs>>

\* Exhausted rounds, a BLOCK or an error block; other revisions go to a gate.
ReviewStops ==
    LET r == copies[0].row
        p == copies[0].plan
    IN  /\ asked # "NO"
        /\ \/ Concluded(Blocked(r), p) /\ UNCHANGED gate
           \/ Concluded([r EXCEPT !.status = "WAITING_GATE"], Noted(p)) /\ gate' = TRUE
        /\ UNCHANGED <<docs, wanted>>

-----------------------------------------------------------------------------
(* Failures                                                                 *)

\* An exception that is no prompt error ends the task, after its run was
\* committed or before.  The advance that gathered it ends too, its other tasks
\* go on.  Bound: in the first round of writing.
Fail(w, k) ==
    LET t == tasks[<<w, k>>]
    IN  /\ crashes + faults < MaxFailures /\ faults' = faults + 1
        /\ \A s \in Sections : wanted[s] = 1
        /\ t.pc = "await"
        /\ \E s \in Todo(t.row, Mine(w)) : s = Active(t.row, Mine(w)) /\ <<s, t.row.phase[s]>> \in Faults
        /\ tasks' = [u \in Slots |->
              IF u = <<w, k>> \/ (u[2] = k /\ tasks[u].pc = "done") THEN NoTask ELSE tasks[u]]
        /\ cur' = IF k = cur THEN 0 ELSE cur
        /\ Commit(w, k) \/ UNCHANGED <<docs, changed>>
        /\ UNCHANGED <<full, rows, plan, gate, copies, asked, wanted, crashes>>

\* The process dies and is started again, a run committed or not.
Crash ==
    /\ crashes + faults < MaxFailures /\ crashes' = crashes + 1
    /\ tasks' = [t \in Slots |-> NoTask]
    /\ copies' = [k \in {0} \cup Gens |-> NoCopy]
    /\ cur' = 0 /\ asked' = "NO"
    /\ \/ UNCHANGED <<docs, changed>>
       \/ \E t \in Slots : tasks[t].pc = "await" /\ Commit(t[1], t[2])
    /\ UNCHANGED <<full, rows, plan, gate, wanted, faults>>

-----------------------------------------------------------------------------
Write(w, k) ==
    \/ Ask(w, k) \/ AnswerPass(w, k) \/ AnswerRevise(w, k) \/ AnswerRepair(w, k)
    \/ RecheckPass(w, k) \/ Refuse(w, k)
Advance == Upstream \/ StartSerial \/ StartGroups \/ Park \/ Submit
Conclude == ReviewPass \/ ReviewRevisesPlan \/ ReviewRewrites \/ ReviewStops
Work ==
    \/ \E g \in Groups, k \in Gens : BeginGroup(g, k)
    \/ \E w \in Writers, k \in Gens : Write(w, k)
    \/ Gather \/ Conclude

Next == Advance \/ Work \/ Decide \/ (\E w \in Writers, k \in Gens : Fail(w, k)) \/ Crash

Spec == Init /\ [][Next]_vars

\* The loop runs its tasks, models answer, clients advance and reviewers decide.
FairSpec == Spec /\ WF_vars(Advance \/ Work \/ Decide)

-----------------------------------------------------------------------------
(***************************************************************************)
(* Properties                                                              *)
(***************************************************************************)
Finished == rows[Main].status = "COMPLETED"
Accepted(s) == docs[s].approved /\ docs[s].candidate = wanted[s]

\* What a full-text review lets pass is what it was shown: at the end every
\* section's latest text is a polish that its expression critic passed, and none
\* has been replaced since the candidates were handed to the integration critic.
EndIsWhatWasReviewed ==
    Finished => changed = {} /\ \A s \in Sections : docs[s].kind = "POLISH" /\ docs[s].approved
EndIsWhatWasReviewedWithoutFault == faults = 0 => EndIsWhatWasReviewed

\* A rewrite the full-text review demanded is in the document that it finally
\* passes: no section still carries a text from before the demand.
RewritesReachTheEnd == Finished => \A s \in Sections : docs[s].candidate = wanted[s]
GroupRewritesReachTheEnd == full /\ faults = 0 => RewritesReachTheEnd

\* The part of it that the comment on the repair of the responsible sections
\* promises: their unchanged bodies are not reused.  It asks nothing of a text
\* that a revision of the argument or of the plan should have replaced.
RepairsReachTheEnd == Finished /\ ~plan.argued /\ ~plan.planned => RewritesReachTheEnd

\* An integration repair rewrites the sections it names and no other: while
\* nothing fails, a text that its critic has passed and that nobody has sent
\* back since is not replaced.
OnlyDemandedRewritten ==
    [][\A s \in Sections :
          crashes = 0 /\ faults = 0 /\ Accepted(s) /\ wanted' = wanted => docs'[s] = docs[s]]_vars

\* Clients that keep advancing get every running workflow to a gate, a block or
\* its completion: no task waits for one that is gone, whatever failed.
Rests == (rows[Main].status = "RUNNING") ~> (rows[Main].status # "RUNNING")
=============================================================================
