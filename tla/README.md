# Formal models of the proposal agent system

The repository turns a project's material into a reviewed proposal.  Prompts
produce schemes, definitions, facts, an argument, a plan and the sections; each
is reviewed by a critic prompt, audited by a deterministic guard and stopped at
human gates; a ledger of findings decides what may be completed or exported; and
what is exported is inspected against what was reviewed.  One Python process
serves all of it (FastAPI, one uvicorn worker, SQLite).

These TLA+ modules say what that machinery does when requests overlap, when the
process dies, when files are lost, when answers are flawed and when work is
repeated.  TLC checks them on small instances; TLAPS proves some of the results
for every instance.

    tlc -workers 2 -config engine_serial.cfg MCWorkflowEngine
    tlapm WorkflowEngineProofs.tla

## 1. Inventory

Paths are under `src/app/`.  `PROJECT.json` lists every component with its status.

**Workflow engine** (`workflows.py`, `workflow_gates.py`, `workflow_repair.py`,
`runtime_workflows.py`).  State: the `workflows` row (status, current step, a JSON
state with results, repair attempts, recovery marks) and the `gates` rows.
Operations: start with an idempotency key and prerequisites, advance, decide a
gate, recover a row that a fault or a crash left behind.  Each database call is a
transaction of its own; `_update` writes back the whole row that a coroutine read
before it awaited a model, and compares nothing.  `advance` runs on the event
loop, `decide` in a thread.  Correct if no step counts before its prompt has
passed, no prompt runs past an undecided or rejected gate, no workflow runs
without its prerequisites, repairs stay within their budget, and none hangs.

**Model call** (`runtime_executor.py`, `runtime_gateway.py`, `runtime_evidence.py`).
State: five evidence files per call key, written one after another; committed
runs; durable markers of injected faults.  Correct if a call has one answer,
every committed answer is proved by whole evidence, a saved answer is used again
and the model not asked, and a retry gets through unless the evidence is stuck.

**Quality ledger** (`quality.py`; called from `workflows.py:26`, `workflow_repair.py:157`,
`main.py:335`, `post_export_acceptance.py`).  State: append-only versions of
findings of which the latest is read.  Operations: observe a prompt's result,
record a targeted repair, ingest delivery findings, answer whether blockers are
open; to which stage, critic and scope a finding belongs is decided when it is
recorded.  Correct if a finding is closed only by a repair and an independent,
later review, loses no evidence, and does not block for ever what is repaired.

**Sections and full proposal** (`workflow_authoring*.py`, `full_proposal_*.py`,
`full_integration_*.py`).  State: progress of each section in the row of the
workflow or of a child per group, repair overrides, the frozen contract, repair
rounds.  Operations: the six phases of a section, dispatch and gather of
children, the integration review and the rewrites it demands.  Correct if what
ends up in the document is what was reviewed, only demanded sections are
rewritten, rewrites reach the end, and rounds are bounded.

**Guard and kernels** (`proposal_quality.py`, `agent_prompt_kernel.py`, `track_b.py`,
`full_integration_quality.py`).  No state: audits of every prompt's answer that
add findings and recalculate the verdict.  Correct if a chain of verdicts gives
what it is for: orderable plans, proven foundations, claims advanced, no
information told twice.

**Context builders** (`context.py`, `context_base.py`, `runtime_context.py`).  No state:
which of the committed, repaired and imported objects a prompt is shown.
Correct if a prompt sees its own workflow's texts, and critics see what will be
used.

**Diagrams and figures** (`diagram_enrichment.py`, `figure_protocol.py`).  A draft's
diagram sources are drawn and the stored draft replaced.  Correct if critics
review what is delivered.

**Export and acceptance** (`exporter*.py`, `runtime_export.py`, `pdf_exporter.py`,
`delivery_validator*.py`, `post_export_*.py`).  State: DOCX, PDF, reports and packages
on disk, the export cache, acceptance attempts.  Correct if what is handed out is
current and clean, layout findings are closed on newer files, a pass is about
reviewed text, and the file shows it.

**Public research** (`research.py`, `skills/`) and **security** (`security.py`,
`privacy.py`).  State: the outbound package, search results, the archive on disk,
the synthesis.  Correct if nothing private is sent online, every cited source is on
disk as cited, quotes are found where they are said to be, and claims of innovation
rest on comparisons.

**Around them**: HTTP service, database, prompt pack, documents, plain gateway,
simulated models, deployment.

**Interactions.**  The engine awaits the model call for every step and repair,
hands each result to the ledger, asks the ledger before it completes, and after
recovery repeats the step, hence the call and the observation.  WRITE_SECTIONS
drives sections through calls of their own; a full proposal does it in children
that share the parent's row.  Guards see payloads that the context builders put
together from what earlier workflows committed.  Export and acceptance run in
threads, next to gate decisions, finding submissions and the event loop, and
share with them the database and the file system.

**What is hard here.**  Read-modify-write over several transactions on rows that
others also write; stale copies kept across an await; crashes between two
transactions that belong together; evidence written in part; tasks that outlive
the gather that made them; overrides that outlive the text they repaired; caches
whose key leaves out what decides; verdicts that are right one by one and must be
right together.  `PROJECT.json` lists each hazard at its line.

## 2. Plan

| # | Module | About | State |
|---|---|---|---|
| 1 | `WorkflowEngine` | advance, recovery, gates, repair, crash | done, proved |
| 2 | `ModelCall`, `SingleResult` | one prompt call and what it promises | done, proved but for liveness |
| 3 | `QualityLedger`, `QualityRoutes` | findings, repairs, reviews; who is responsible | done, proved |
| 4 | `SectionChain`, `Authoring` | sections, groups, integration repair | done, proved but for liveness |
| 5 | `ProjectFlow` | start, prerequisites, children, texts | done, proved |
| 6 | `Delivery` | cached export, acceptance, packages | done, proved but for `ClosedOnNewerFile` |
| 7 | `DeliveryChecks` | rendering and inspection | done |
| 8 | `ProposalQuality`, `AgentKernel`, `SectionContext`, `Diagrams`, `Proposal` | the guards along the production line | done, proved but for `DeliveredAsReviewed` |
| 9 | `PublicResearch` | research, routing, archive, outbound privacy | done, proved |

Worth proving next: of `Delivery` `ClosedOnNewerFile` for two requests.

## 3. Modules

| Module | Code | State in the model | Actions |
|---|---|---|---|
| `WorkflowEngine` | `workflows.py`, `workflow_gates.py`, `workflow_repair.py`, `runtime_workflows.py` | `row`, `gates`: the tables. `loop`, `pc`, `mem`, `res`: coroutines and their copy of the row. `dpc` and others: decision threads. `passed`, `executed`, `repairRuns`: history | `Begin`, `Recover` (facade); `Enter` to `Finish` (advance); `Return`, `Fault` (facade); `Review`, `Decide`, `Load`, `Store` (the four transactions of a decision); `Crash` |
| `ModelCall` | `runtime_executor.py`, `runtime_gateway.py`, `runtime_evidence.py` | `request`, `response`: files of the key. `runs`: MODEL_CALL_COMMITTED. `failedRun`, `fired`: error runs, fault markers. `pc`, `got`: coroutines | `Execute`; the steps of `Progress`: request files, lookup, send and reply, response files, guard, commit, return, refusals and faults; `Restart` |
| `SingleResult` | what `_committed_result` is for | `recorded`, `given` | `Record`, `Give` |
| `QualityLedger` | `quality.py`, `workflows.py:26-36`, `main.py:335-352` | `ledger`: latest version per finding. `work`: what the loop and each thread are in the middle of (phase, snapshot, draft). `runs`, `recorded` | `Observe`, `ObserveAgain`, `RepairTargeted`, `Ingest` start; `Progress` reads, drafts, numbers, inserts (`_persist`), raises, continues; `Crash` |
| `QualityRoutes` | the routing tables and scopes of `quality.py` | none: operators the ledger's instances take their stages, critics and scopes from | |
| `SectionChain` | `workflow_authoring_base.py`, `workflow_authoring.py` | none: a section's record (phase, versions, overrides, attempts) and what each phase makes of it | |
| `Authoring` | `full_proposal_*.py`, `full_integration_*.py`, `workflow_authoring*.py` | `rows`, `plan`: the parent's row and the children's. `copies`, `tasks`, `cur`: what a coroutine read, the tasks of each gather. `docs`: latest texts | `Upstream`, `StartSerial`, `StartGroups`, `Park`, `Submit`; `BeginGroup`, `Write`, `Gather`; `ReviewPass`, `ReviewRevisesPlan`, `ReviewRewrites`, `ReviewStops`; `Decide`; `Fail`, `Crash` |
| `ProjectFlow` | `workflows.py:start`, `runtime_workflows.py`, `workflow_defs.py`, `context*.py`, `full_proposal_workers.py` | `flows`, `texts`: the tables. `marked`: rows whose state says `runtime_recoverable`. `unmet`, `resumed`: history of those started without their prerequisites, and recovered from that. `answered`, `shown`: history | start and retry with or without a key, children, prompts, completion, death between the two transactions of a start (`Step`); `Fault`, `Recover`: an advance that fails and the one that goes on |
| `Delivery` | `exporter_base.py`, `runtime_export.py`, `pdf_exporter.py`, `post_export_*.py` | `docs`, `pdf`, `stamp`, `zip`, `cache`: the disk and the cache. `ledger`, `attempts`, `gate`, `cand`, `reviewed`: the tables. `reqs`: each thread | `Request` (all steps of export, check and acceptance); `Rewrite`, `ReviewFullText`, `ChangeGates`, `Close`, `FixRenderer`; `Crash` |
| `DeliveryChecks` | `exporter.py`, `delivery_validator*.py`, `figure_protocol.py` | none: what the DOCX and the PDF show of a text, and what their inspection finds | |
| `ProposalQuality`, `AgentKernel` | `proposal_quality.py`, `agent_prompt_kernel.py`, `track_b.py`, `full_integration_quality.py` | none: the audits of each prompt, how they are merged and the verdict recalculated | |
| `SectionContext` | `context_base.py`, `context.py` | none: what the section and integration prompts are shown | |
| `Diagrams` | `diagram_enrichment.py` | none: how a draft gets its figures | |
| `Proposal` | composes the five above along WF-1, WF-2, WF-4, export and inspection | `at`, `made`, `fixed`, `sec`, `order`: the step, the committed and repaired objects, the sections. `file`, `pdf`: the parts of the DOCX, the text layer of the PDF | `Produce`, `Accept`, `Repair`, `Reject`, `Assess`; per section `Blueprint` to `PolishCritic`, `Enrich`; `AllWritten`, `Integrate`, `Export`, `Inspect` |
| `PublicResearch` | `research.py`, `skills/`, `security.py`, `privacy.py`, `workflows.py` | `package`, `plan`, `results`, `files`, `synthesis`: what WF-3 has made. `sent`: words of the payloads that online models were asked with | `Package`, `ReviewPackage`, `Decide`, `Plan`, `Search`, `Synthesize`, `ReviewSynthesis`, `Import` |

`MC*` modules give the constants their values for TLC; `*Proofs` modules hold the
theorems.  A definition whose comment begins "Mutant of" is a bug the code does
not have: no specification uses it, and it is there to show that the property
it breaks can be broken.

**How they fit.**  `Authoring` steps through `SectionChain`.  `Proposal` runs
`SectionContext`, `ProposalQuality`, `AgentKernel`, `Diagrams` and `DeliveryChecks` one
after another on the same objects.  `Authoring` has the concurrency and abstracts
texts to versions; `Proposal` has the texts and is sequential.  `Delivery` has the
threads and files and takes "flawed" for what `DeliveryChecks` would find.  `ModelCall`
is one action of the engine; that it gives one answer is what `SingleResult` says
and the run checks.

**Data that is abstracted.**  A model's output is its status (engine), a value told
apart only by whether it is accepted (call), the set of blocking findings it
reports (ledger), a version (authoring, delivery), or an object of a few named
parts (proposal).  A finding is its identity hash, so code, scope and route are
constants.  Wording is abstracted to pieces that are equal or not, and the traits
the guards' expressions look for; a threshold on lengths is a set of long pieces.
Envelopes, hashes, traces, audit events, timestamps and wording are left out.  In
the engine, updates that change only fields nothing modelled depends on are part
of the neighbouring action: the extra update after a research synthesis
(`workflows.py:206`) belongs to `Pass` or `Refuse`.  The ledger keeps only the latest
version of each finding because `_latest` is the only reader; equal versions, which
an overlap can produce, are resolved as it resolves them.  The run of a prompt
enters the ledger's model when its result arrives, since no await separates the two.

## 4. Runs

| Run | Result | What it shows |
|---|---|---|
| `engine_serial` | passes | One request in flight, one crash and one fault anywhere.  Until something fails: gates are honoured, a rejection is final.  Always: at most one gate open, one repair per critic and attempt, no step counted that has not passed, and the workflow settles. |
| `engine_crash_gate` | violation | A crash between counting the step (`workflows.py:262`) and creating its gate (264): the workflow runs on past the gate. |
| `call_overlap` | passes | Two executions of one call, a fault, a restart with another prompt pack: one answer, proved by its evidence; never asked again once saved; no more runs than overlap; answered in the end unless the evidence is stuck.  The detailed call implements `SingleResult` (`OneAnswer`). |
| `ledger_serial` | passes | A finding is closed by a later, clean run of its own critic after a repair, loses nothing while open, and does not stay open once repaired and reviewed. |
| `ledger_overlap` | passes | A delivery submission overlaps the loop between any two transactions: nothing is closed without repair and independent review. |
| `authoring` | passes | Both modes, with refusals, repairs, rewrites, plan revisions and a crash or a diagram fault: what ends in the document is what was reviewed (until something fails), only demanded sections are rewritten, rewrites of groups reach the end, and authoring rests. |
| `authoring_stale` | violation | In the serial mode a rewritten section keeps the targeted repair of its first text (`full_proposal_repair.py:130`): the old text ends in the document. The property is about runs in which no plan is revised, and without a targeted repair it holds of them. |
| `project_flow` | passes | Five types of workflow, started and retried, with children, faults, recoveries and a process death: one workflow per key, nothing runs without its prerequisites but what a recovery has set RUNNING, a prompt reads its own workflow's texts. |
| `research` | passes | No online model is asked with a private word, whatever is in packages and plans; accepted claims have files that are what they cite, and quote their text, the title or, of a text under twenty characters, what the search said of it; claims of innovation rest on comparisons. |
| `proposal` | passes | The guards along the whole line, with answers that are good or flawed in one respect: plans can be ordered, foundations are proven, required claims advanced, information owned once, and the file shows what was reviewed: the DOCX all of it in its section, the PDF all but what the inspection overlooks. |
| `delivery` | passes | An acceptance with an engineering repair overlaps any other request: what is served is current, packages are clean, layout findings are closed on newer files, a pass is about reviewed text. |
| `delivery_blocked` | violation | The export cache answers before the base exporter asks the ledger (`runtime_export.py:69`): a file is handed out while a P0 or P1 is open. |

The violations are disagreements between the code and what its documents or
comments say; `PROJECT.json` quotes both under "findings".

Properties that hold with exceptions say so in their definition:
`GateHonouredWithoutFailure`, `RejectionStopsWithoutFailure` and
`EndIsWhatWasReviewedWithoutFault` stop at the first crash or fault, because the
code does not keep them beyond it.  `ClosedByLaterReview` excepts a review that a
restarted workflow observes again after delivery validation has reported the finding
anew.  `RunsOnPrerequisites` excepts a workflow that was BLOCKED at its start and
set RUNNING by a recovery, which asks for no prerequisites
(`runtime_workflows.py:41-46`).  `DeliveredAsReviewed` asks of the PDF what its
inspection can see: a short piece whole, four fifths of the stretches of a long one,
anywhere in the file (`post_export_validator.py:330-338`).  `ClosedOnNewerFile`
holds while a repair is overlapped by one other request: of two acceptances that
began before the repair, the second sees the layout defect in a newer file between
the repair's inspection and its closing, which does not look again
(`post_export_acceptance.py:175`).

**Bounds.**  Every unbounded counter has a named bound.
- *Engine*: four steps, one of each kind (a producer without a gate, a critic with
  repair and gate, the search, a step that is only a gate); two questions, six
  gates, one crash and one fault let a gate be asked, answered, asked again and
  interrupted at every transaction.  TLC's engine runs are serial; what holds for
  overlapping requests is proved (section 5).
- *Call*: two coroutines, two accepted answers and a refused one (to tell reuse
  from asking again), two setups (a restart may bring another prompt pack), one
  restart and one failure at each of the armed fault points.
- *Ledger*: a section's writer, its critic, the critic of the document, a finding
  of its own and one that delivery validation routes there; four runs with a crash
  or five without (report, repair, report again, repair, review).
- *Authoring*: two sections in a group each, two versions of a text, one failure;
  `Strict` names the critic that may refuse and have its repair (the blueprint's
  goes through the same code with another key); `Faults` is the section whose
  diagrams may raise.  `Fail` occurs in the first round, and no review is
  taken while orphans of an earlier gather run.  `MaxVersion` 2 allows one rewrite
  per section, so the second integration round's exhaustion is not reached.
- *ProjectFlow*: five requests, six workflows and six texts; at any time no more
  than one workflow is blocked or text refused, until a process dies or a workflow
  recovers, of which one happens in all.  A fault on a blocked start and its
  recovery fit, as do a death or a fault at any other point.  Faults strike where
  the code has them (`runtime_workflows.py:59` to 75); sections are symmetric.
- *Research*: one private word, eight shapes of candidate (one of them with a text
  too short to be its excerpt), up to three found, two claims and two results; the
  project allows internet access.
- *Delivery*: two texts, gate changes, files and runs; the repairer and one other
  client, so that anything can happen between two of its transactions.
- *Proposal*: two sections and one main body; each answer differs from a good one in
  at most one respect, so a verdict can be put down to one audit; one plan, one
  integration review, no continuation after a stop except the enrichment repeated
  after a crash; one damaged part of the file: a block of the DOCX, or one piece of
  the PDF of which any of its stretches may be left.  A stretch stands for sixteen
  characters (`MCChunks`: two texts that share four of five, one with an end too
  short to be looked for).  A section's prompt is shown the sections that had a
  draft at any moment between its last step and its own, each with its latest text;
  that an older text of one may be shown is left out.  Findings a model reports
  itself carry no `QG_` code, paragraphs are in sequence order, blocks are not
  blank, and table cells are not searched for placeholders or paths.

`CHECK_DEADLOCK` is off where budgets run out and where a workflow may rest or end;
the serial engine is checked with it on.

**Fairness.**  Three runs have liveness.  In the engine's `Settles`, a request that
has begun runs on (asyncio serves its ready queue in order and threads are
scheduled), and clients keep calling advance and deciding open gates, which is
what the product's users and their polling page do; both are strong because each
is enabled only between the other's requests.  In the call's `Answered`, the
executions run on and the workflow keeps retrying; that the model answers
acceptably is not assumed: the property excepts evidence that is stuck.  In
authoring's `Rests`, the loop runs its tasks, models answer, clients advance and
reviewers decide (`WF_vars(Advance \/ Work \/ Decide)`); faults and crashes are not
made to happen.

## 5. Proofs

Everything below holds for every value of the constants that the named
assumptions allow (`ConstantsAssumption`, `CallAssumption`, `LedgerAssumption`, `GroupsAssumption`,
`SectionsAssumption`, `DeliveryAssumption`, `RequestsAssumption`, `ProposalAssumption`, the
`BoundsAssumption`s): any number of
requests, threads, steps, findings, sections, groups, files, crashes and faults, overlapping unless
a theorem says otherwise.  The assumptions say what the constants are and nothing
of the code, but for two: `Armed \subseteq FaultPoints` of the call, since faults are
injected where the code asks for them, and, in `ProposalAssumption`, that drafts are
lists of paragraphs with an id and a claim and plans have finitely many contracts,
since the schemas that every answer is validated against demand it
(`runtime_executor.py:174`).  No theorem rests on unproved facts beyond the
library's.

**Engine** (`WorkflowEngineProofs`).  `TypeCorrect`, `OrderKept` (`ReviewedInOrder`:
no step counts or is passed over before its prompt has passed) and
`CompletionSound` (`CompletedIsReviewed`, which no run checks).  The properties
speak of the row only, but the row is overwritten by copies, so the invariant
`IInv` has to cover them: `Copies` says of the row, of every coroutine's copy and of
every decision thread's copy that all prompts before its step have passed;
`Positions` ties the program counters to the locals (an answered PASS is of a step
that has been recorded as passed); `CallsInOrder` carries the same to calls.  A
stale copy can then undo progress, never skip a prompt.  `Inductive` is
`Spec => []IInv`.

**Engine with serial clients** (`WorkflowEngineProofs`, second half).  All suppose `Serial`, one
request in flight; the code itself does not keep two apart.
- `OneGateAtATime` (`OneOpenGate`) holds through crashes and faults.  `CreateGate`
  reuses an open gate only if it has the same type, so the invariant `GateInv`
  (`SerialGates`) says where the property comes from: requests exclude each other,
  and while an advance is past `Enter` no gate is open.
- `RepairsCounted` (`RepairBudget`) needs to know that what is kept of the row outside
  an advance is the row (`Current`), and that a critic which the row, or the copy an
  advance holds, does not count as repaired has had no more repairs than there were
  crashes and faults (`Budgeted`).
- `SerialGatesHonoured` and `SerialRejectionStops` are about runs without failure.
  `GuardInv` (`SerialGuards`) says what keeps them: whatever runs, the row or an
  advance, has each gated step behind it approved; a row that waits has the gate of
  its step open; a rejected gate leaves a blocked row, or a decision that is about
  to block it.

**Model call** (`ModelCallProofs`).  `CallTyped`, `CallAudited`, `CallAskedOnce` and
`CallGivesOneAnswer`, the refinement of `SingleResult`: with the first committed run
for `recorded`, each step is `Record`, `Give` or a stutter.  The invariant says of
each position in the code what is on disk: the request is whole from the look for
a response on; a coroutine writing the response owns the files as far as it has got
(`ResponseOf`), because only the coroutine that has the event loop is between two
awaits (`Held`); and every run is what the whole response proves (`RunsProved`).
`CallCommittedOnce` (`OneRunPerOverlap`) counts besides: the runs so far and the
executions that may still commit one are together no more than the callers
(`Counted`).  It supposes finitely many callers, since it speaks of their number.

**Ledger** (`QualityLedgerProofs`).  `ReviewIndependent` (`IndependentReview`: closed
only with a repair and a clean run of its own critic that is none of the repairs)
and `LedgerTyped` hold of all overlaps.  Rows travel through drafts, so the invariant
of `LedgerInductive` demands the same of the row an actor is about to insert, and of
the findings a review is about to close that the review is clean of them (`Sound`).
The condition that keeps it inductive when a thread interferes is `Verifiable`, the
check `verify_finding` repeats on what it reads itself.

With one request at a time, also through crashes: `LedgerClosedLater`
(`ClosedByLaterReview`), `LedgerLosesNothing` (`NothingLost`) and `LedgerStrandsNone`
(`NoneStranded`).  Here the invariant, `SerialInv`, has to say how far the
observation of each run has come.  `Working`: one actor works, on the last run or
on the last of a prompt once more (`Due`), what it has read is still in the ledger
and its draft is the change its phase makes of the latest row (`Fresh`), and its
list leaves nothing out (`Complete`).  `Closed`: a row that closes has a review later
than a repair and than each sighting recorded.  `Waiting`: an open row has the
repairs of all stage runs since it was last seen, and no review came after one of
them.  `LedgerStrandsNone` supposes that routes are `Routable`: stages and critic run
in the finding's scope, and the critic is no stage.  The section's routes of
`ledger_serial` are; section 6 tells of the routes that are not.

**Authoring** (`AuthoringProofs`).  `AuthoringTyped` holds always: the types, and
that a task in the middle of a section has one to write.  `AuthoringEndReviewed`
(`EndIsWhatWasReviewedWithoutFault`), `AuthoringRewritesArrive`
(`GroupRewritesReachTheEnd`) and `AuthoringRewritesDemanded` (`OnlyDemandedRewritten`)
hold until an exception that is no prompt error: it ends a gather and leaves
the other groups' tasks running, which later write from what they read before.
Crashes are allowed by the first two, since no task survives one.  The invariant
`IInv` is the types and, without faults, `Calm`, which has to say why the many rows
that speak of a section agree with its texts:
- `Alone` and `Stages`: all tasks are of one gather or one serial advance, and while
  they run, or the full-text critic does, nobody else writes the parent's row; the
  copy they hold is that row.
- `Saved`, `Called`: a task works on what its row in the database says, and what it
  waits for is about the version demanded and, at the expression critic, about the
  text that is still the latest.
- `Known`: the row of a section's author tells the truth about its texts (a phase is
  only behind texts that exist, `DONE` only behind an approved polish; in a group, of
  the version demanded).  It excepts `Stale` rows: a demand has been made and the
  group's task has not begun, or the group is detached, so that the row is reset
  before anyone goes by it.  `Mending` and `Bounded` say that a demand reaches the
  right group and that no text is of a demand not yet made.
- `Unaccepted`: what is still to be written is not accepted.  `AuthoringRewritesDemanded`
  is this and that a task writes its active section only.  A crash can commit an
  answer that its row does not tell of, hence the condition on crashes.
- `Final`: when the full-text critic is asked, and at the end, all texts are in
  their last form.  It follows from `Known` when a gather merges, and `Reviewable`
  checks it again.

**Starts, prerequisites and contexts** (`ProjectFlowProofs`).  `ProjectTyped`,
`ProjectAnswersAlike` (`SameAnswer`), `ProjectRunsOnPrerequisites` and
`ProjectReadsOwn`.  A workflow row with a key is the only one of its type with it,
and answers are such rows (`KeysName`); children are younger than their parent and
share no section (`Families`); a workflow knows its newest text of each section
(`Wrote`), from which it follows which text a polish is shown; a completed
proposal covers all sections with polished texts and completed children, none of
which moves again (`Done`).  `Held` says who stands still and who need not: what a
fault marked, and what was started without its prerequisites and has not been
recovered, is BLOCKED; every export started with them has such a proposal, which no
fault or recovery takes away.

**Export, acceptance and packages** (`DeliveryProofs`).  `DeliveryTyped`,
`DeliveryServesCurrent` (`ServedIsCurrent`), `DeliveryPackagesClean` (`PackagesAreClean`) and
`DeliveryPassesReviewed` (`PassIsReviewed`).  A request lives by what it has read, so
`Fine` says of each: the candidates it began with, its attempt and its keys are no
newer than the file in its hands (`NotOlder`); a passed attempt is of the file of the
candidates its review was about (`AboutReview`); what an inspection found clean, or is
being packaged, is sound (`SoundFile`).  `Cached` says the same of every cache entry,
`Zipped` of packages, `Attempted` of what is recorded.  Candidates, files and attempts
only grow, so what others do between two steps of a request disturbs none of it.

**Research** (`PublicResearchProofs`).  `ResearchSendsNothingPrivate`
(`NothingPrivateSent`), `ResearchClaimsOnDisk` (`ClaimsAreOnDisk`) and
`ResearchInnovationCompared` (`InnovationIsCompared`), for archives of any length.
The invariant keeps what was checked when it was checked: from the synthesis on the
catalogue lists archived candidates and agrees with the files, and from the critic
on the synthesis has no finding.  Titles and excerpts are in no file, so the
catalogue is tied to what was found besides (`CatalogueOnDisk`: each of its records
comes of a candidate whose title, excerpt and texts it has).  What `ClaimsAreOnDisk`
says then follows from the lemmas about the model's sequences: a position chosen by
`Nth` is in the set it is chosen from, so an identifier that the catalogue knows is
that of an archived record whose files are there (`NthIsOne`, `ChosenThere`,
`SourceIsRecord`).

**Proposal** (`ProposalProofs`).  `PlanIsOrderable` (`PlanOrderable`), `FoundationIsProven`
(`FoundationProven`), `KeysAreOwnedOnce` (`KeysOwnedOnce`) and `RequiredIsAdvanced`
(`RequiredAdvanced`), for any sections and whatever the models answer, find and
repair.
- *What a verdict tells.*  `BaseHolds`, and from it `SilentHolds` and `SpokenHolds`: of
  an answer that passes, no audit has found anything, but for advice, for what the
  kernel drops, and for a code that the model's own findings already carry
  (`proposal_quality.py:1200`).  With the service's guard such a finding may be light
  enough to pass, so all theorems about critics suppose `Unmasked`: no model reports
  one of the few codes named (`MaskedReadiness`, `MaskedKeys`, `MaskedContent`) as less
  than blocking and P1.  This is what the code needs and does not ensure; the
  executor's own guard needs nothing.  `PlanIsOrderable` goes by what a producer's
  audit found, and producers report nothing themselves.
- *What is made was audited* (`Audited`, `Founded`): from the step that made it on, the
  definition has no claimed prior work without material, the architecture no unproved
  evidence of the team, the plan no cycle.  Critics are shown repaired objects, but
  what is committed stays what its producer made, so repairs disturb none of it.
- *The search for cycles* (`AcyclicIsOrderable`).  In a group whose members all wait for
  one another the guard's depth-first search never comes to an end without having
  met a section twice: if it did, from a call that misses the cycle it would go on to
  another one with fewer sections left, and one of them has the fewest.
- *What a section is* (`AllFit`): what its phase says was written of it is there.
  `SectionEffect` reduces the seven actions of a section to what each leaves behind
  and the audit it passed, and the proofs of the other two go by these effects.
- `AllAdvance`: from the draft on a section advances its contract's claims.  A repaired
  draft need not, but is only polished when its critic has passed it; figures add
  paragraphs without taking any (`EnrichedGood`); and a polish keeps what identifies
  each paragraph, the claim included (`PolishedAdvances`).  The last needs that no two
  paragraphs of a draft share an id (`IdsApart`, part of the property: an index by id
  keeps the last of two) and that an editor who is shown paragraphs answers with
  paragraphs (`EditorsAnswer`, its prompt's schema).
- `KeysApart`: what the integration critic compares are the approved texts of all
  sections, whatever the writers saw of each other, and none of them changes after it.

**Only model-checked**: liveness (`Settles`, `Answered`, `Rests`) and ENABLED, which are
out of the prover's reach; `ClosedOnNewerFile`, which does not hold for any number of
requests; and `DeliveredAsReviewed`, which does not hold of arbitrary texts (a piece
that also stands elsewhere in the file hides its loss) and rests on folds over blocks
and parts of the file.  Induction over data is out of reach: what a fold over a
document computes for every length cannot be proved.  The proofs about sequences and
about the search for cycles use that a set of numbers has a least element, which is a
fact about a well-founded relation.  No module declares a RECURSIVE operator:
transitive closure and the like are recursive functions or folds.

## 6. Not modelled

Parsing of uploads, the plain gateway and executor that the runtime extensions
replace, canned answers, deployment, the runtime policy, prompts and schemas have
no protocol to check.  `ModelCall` is the LIVE mode; REPLAY, MOCK and SIMULATED
return canned answers and share its commit.  The pattern scans of texts and
queries, similarity of wording, geometry and raster checks of a PDF, XML and CSV
layout are abstracted or left out.

`AuditWhole` of `AgentKernel` belongs to the executor's default guard, which the
service replaces by `TrackB` (`main.py:41`).  `Proposal` runs with either; `FullSize`
stands for the eight sections from which these audits apply
(`full_integration_quality.py:19`).

Roles and permissions of reviewers are not modelled: any reviewer may decide any
gate, and two who decide the same one are a listed hazard without a property.
Queries go to the search service as they are planned (`public_research.py:227-230`):
they are not in `sent`, which is about the models.  That an excerpt is cut at 12000
characters (287), so that a quote from further on is refused, is left out.  Which of
the imported claims a later authoring takes (`context_base.py:538`) is not modelled
either: `Import` is the verdict of the import review only.  Two results of different
workflows observed at once do not interleave (the observation never awaits), so the
ledger has one loop actor; a review that was started before a repair and returns
after it is not distinguished from one started later.

### What modelling showed beside the runs

Behaviour that no run states as a property, for whoever changes this code next.

*Engine.*  The mark a fault leaves (`runtime_workflows.py:79`) outlives a rejection,
and the next advance recovers from the rejection
(`docs/TRACK_A_RUNTIME_RECOVERY_ACCEPTANCE.md:46`). An envelope with the hash of the
workflow's state changes the call key after a recovery (`runtime_context.py:252`,
`:43` of the same document).  With overlapping requests an advance between the two
writes of a rejection goes on without any fault.  A start repeated with its key
returns the workflow that was BLOCKED for want of prerequisites even after these are
there.  If an advance of such a workflow meets a fault (`runtime_workflows.py:59`,
73 or 75; an advance returns early only from COMPLETED and CANCELLED, 53), the
handler marks it recoverable (75-83) and the next advance sets it RUNNING (41-46)
with the prerequisites still missing: a WF-5 then reviews and exports a proposal
that no WF-4 has completed.  A crash between the two transactions of a start leaves
a workflow the key does not lead to.

*Ledger.*  An overlapping submission loses a sighting or a repair, since the later
insert carries an earlier read (`quality.py:418`).  A finding that comes back keeps
its old repair as evidence (315).  Only five critics' names lead to their
producer's stage, so what the others' producers report gets another scope than
their critics' (525); `delivery:<target>` (528-530) never equals `section:<id>`; and
post-export acceptance puts section titles where ids are expected.  `INTEGRATION_AGENT`
(54) leads to the integration critic, which is also the reviewer of what its guard
reports (468): a PASS of it is recorded as a repair first (144) and then passed over
as a review (387), so such a finding (`proposal_quality.py:1120`, 1135, 1195) blocks
for good, while the route's reason (482) promises an independent critic.

*Contexts.*  A repair made upstream stays in its workflow's override: downstream
reads the committed, unrepaired object.  `_latest_output` looks at neither status
nor workflow, WF-5 reads candidates of the whole project, WF-4 does not wait for
WF-3.  `README.md:48` says only accepted public claims enter the writing; what
`context_base.py:538-540` takes is the synthesis as committed, before its check.

*Authoring.*  A revision of the argument or of the plan drops the results of all
sections (`full_proposal_repair.py:45`, 67), but in the serial mode not their
`section_progress`: the loop finds every phase DONE and records the old texts as
they are (`full_proposal_sections.py:60`), which is what the comment at 126 guards
against for rewrites only.  `RewritesReachTheEnd` is refuted by it in fewer steps
than by the override of `authoring_stale`.  Tasks outlive the gather that fails
(`docs/FULL_PROPOSAL_CONCURRENT_AUTHORING_ACCEPTANCE.md:127` has groups and sections
strictly serial), and completed groups are generated again (`:73` says they are
not).

*Guards.*  An audit is waived when the model reports the same `QG_` code itself
(`proposal_quality.py:1200`); of two paragraphs with one id the last counts;
concurrent sections see no digest of each other and can claim the same sub-key,
which only the integration review catches (`KeysOwnedOnce` rests on it alone); a
BLOCK with nothing but P1 findings becomes REVISE; polish may change a trace's
source; the exporter takes the paragraphs' texts while audits read `candidate_text`;
a fact critic's repair and a repaired architecture raise, and the workflow is
BLOCKED.

*Routing.*  `_allowed_endpoints` (`context_base.py:372`) is an empty list when internet
access is off, and the router (`security.py:72`) takes an empty list for no
restriction; `_online_approval_status` is NOT_REQUIRED unless the gate is approved,
so the router's own approval check has no case to refuse, while
`docs/HYBRID_DEPLOYMENT.md:55-64` describes the refusal.  What keeps private words
on site in the model is the package, its gate and the payload assertion.

*Diagrams.*  An enrichment repeated after a crash replaces a drawn figure by the
title's template, which `docs/SKILLS_AND_MERMAID.md:48` reserves for drafts without
a figure; an unrendered `[[MERMAID]]` source is not among the directives the
inspection looks for (`delivery_validator.py:34`) and would be delivered as text.
Drawing overwrites the paragraph's role (`diagram_enrichment.py:109`): of a contract
that requires the role FIGURE or DIAGRAM the critics then find it missing.

*Delivery.*  After an engineering repair the plain export returns the DOCX cached
before it; overlapping requests mix the reports of one run with the PDF of another
in a package; candidates may change between check and export; a candidate polished
again after its approval disappears from `_candidate_runs`; in the full mode a
review sent to a human gate cannot pass afterwards.

*Checks.*  Lost content is looked for in the whole text; a paragraph wholly missing
from the PDF passes if four fifths of its 16-character stretches stand elsewhere
(`post_export_validator.py:330-338`); and units under four characters are not looked
for; figure widths of 2 to 4 cm always fail `D6_FIGURE_TOO_SMALL`; a section that
opens with `[[H2]]` or has only a table fails `D5_EMPTY_SECTION`; a REFERENCE loss
is routed as another kind.

*Research.*  A quote is looked for in title and excerpt (`research_claims.py:72`),
so a claim that quotes the title, or what the search service said of a page that is
too short (`public_research.py:287-289`), counts as directly supported by its
source; queries are cut to twelve while coverage lists all; a public page with a
telephone or e-mail pattern stops the synthesis; a synthesis with status REVISE is
not validated; accepted ids of an older review filter newer claims.
