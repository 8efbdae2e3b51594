----------------------------- MODULE ProjectFlow ------------------------------
(***************************************************************************)
(* The workflows of one project: how a request starts one, what it waits   *)
(* for, the children a full proposal spawns, and which of the texts in the *)
(* project a prompt is shown.                                              *)
(*                                                                         *)
(* The start endpoint is a coroutine without an await before its answer:   *)
(* starts do not overlap, but the process may die between their two        *)
(* transactions.  The steps of a workflow are reduced to those that create *)
(* or read section texts; the engine and the section chain have modules of *)
(* their own.  Of its advances a workflow keeps what a failure may change: *)
(* where it stood, and that it goes on later.  Clients advance no child by *)
(* itself.  A text is the position of its run in prompt_runs.              *)
(***************************************************************************)
EXTENDS Naturals, Sequences, FiniteSets

CONSTANTS
    Sections,
    Requests,      \* what clients ask to be started: type, key and options (split: a
                   \* child for every section; research: require_public_research)
    NoKey,         \* the key of a request that has none
    MaxFlows, MaxTexts, MaxTrouble   \* bounds; trouble: losses, blocked and refused

Needs == [intake |-> {}, template |-> {}, research |-> {"intake"},
          authoring |-> {"intake", "template"}, export |-> {"authoring"}]
Types == DOMAIN Needs

ASSUME RequestsAssumption == \A r \in Requests : r.type \in Types /\ r.split \in BOOLEAN /\ r.research \in BOOLEAN
ASSUME BoundsAssumption == {MaxFlows, MaxTexts, MaxTrouble} \subseteq Nat

VARIABLES
    flows,     \* table workflows in the order of creation
    texts,     \* table prompt_runs, the runs of the section producers only
    losses,    \* process deaths and recoveries so far
    marked,    \* the workflows whose state says runtime_recoverable
    unmet,     \* history: those inserted without all that they need
    resumed,   \* history: those of them that a recovery has set RUNNING
    answered,  \* history: the workflows a request was answered with
    shown      \* history: the latest texts a prompt was shown, and those its
               \* workflow had written last

recovery == <<marked, unmet, resumed>>
vars == <<flows, texts, losses, recovery, answered, shown>>

Ids == 1 .. Len(flows)
Statuses == {"RUNNING", "BLOCKED", "COMPLETED"}
Steps == {"todo", "drafted", "polished"}
Producers == {"P-WRITE-CONTENT", "P-EXPRESSION-POLISH"}

\* Mutant of Flow: the state of a child does not name its parent.
FlowWithoutParent(type, key, status, split, mine, parent) ==
    [type |-> type, key |-> key, status |-> status, split |-> split, parent |-> 0,
     children |-> {}, step |-> [s \in mine |-> "todo"], wrote |-> [s \in mine |-> 0]]
\* A new row of workflows.
Flow(type, key, status, split, mine, parent) ==
    [type |-> type, key |-> key, status |-> status, split |-> split, parent |-> parent,
     children |-> {},                       \* full_proposal_children
     step |-> [s \in mine |-> "todo"],      \* section_progress
     wrote |-> [s \in mine |-> 0]]          \* history: its latest PASS text

TypeOK ==
    /\ \A f \in Ids :
          /\ flows[f].type \in Types /\ flows[f].status \in Statuses
          /\ flows[f].parent \in 0 .. f - 1 /\ flows[f].split \in BOOLEAN
          /\ flows[f].children \subseteq {c \in Ids : flows[c].parent = f}
          /\ DOMAIN flows[f].step \subseteq Sections
          /\ \A s \in DOMAIN flows[f].step : /\ flows[f].step[s] \in Steps
                                             /\ flows[f].wrote[s] \in 0 .. Len(texts)
    /\ \A t \in 1 .. Len(texts) : /\ texts[t].flow \in Ids /\ texts[t].section \in Sections
                                  /\ texts[t].prompt \in Producers /\ texts[t].pass \in BOOLEAN
    /\ losses \in 0 .. MaxTrouble
    /\ marked \cup unmet \subseteq Ids /\ resumed \subseteq unmet
    \* What is marked has stopped, and goes on only when an advance recovers it.
    /\ \A f \in marked : flows[f].status = "BLOCKED"
    /\ \A r \in Requests : answered[r] \subseteq Ids
    \* A section that is not to be written has a text.
    /\ \A f \in Ids : \A s \in DOMAIN flows[f].step :
          flows[f].step[s] # "todo" => flows[f].wrote[s] # 0

Init ==
    /\ flows = <<>> /\ texts = <<>> /\ losses = 0
    /\ marked = {} /\ unmet = {} /\ resumed = {}
    /\ answered = [r \in Requests |-> {}]
    /\ shown = <<[s \in {} |-> 0], [s \in {} |-> 0]>>

-----------------------------------------------------------------------------
(* Starting a workflow.                                                     *)

\* Bound: process deaths, recoveries, blocked workflows and refused runs so far.
Trouble ==
    LET blocked == {f \in Ids : flows[f].status = "BLOCKED"}
        refused == {t \in 1 .. Len(texts) : ~texts[t].pass}
    IN  losses + Cardinality(blocked) + Cardinality(refused)
Within == Len(flows) <= MaxFlows /\ Len(texts) <= MaxTexts /\ Trouble <= MaxTrouble

\* Mutant of Completed: a group of a full proposal counts as a proposal.
CompletedOrGroup(type) ==
    \E f \in Ids : flows[f].type = type /\ flows[f].status = "COMPLETED"
\* There is a completed workflow of the type; a child is no proposal.
Completed(type) ==
    \E f \in Ids : /\ flows[f].type = type /\ flows[f].status = "COMPLETED"
                   /\ type = "authoring" => flows[f].parent = 0

\* _workflow_prerequisite_error: all that is needed has been completed.  It is asked at
\* the start only, never when a workflow that was BLOCKED there goes on.
Required(r) == Needs[r.type] \cup
    (IF r.type = "authoring" /\ r.research THEN {"research"} ELSE {})
StartStatus(r) == IF \A n \in Required(r) : Completed(n) THEN "RUNNING" ELSE "BLOCKED"

\* Mutant of Started: a workflow that has ended is not found again.
StartedAndLive(type, key) ==
    {f \in Ids : /\ key # NoKey /\ flows[f].type = type /\ flows[f].key = key
                 /\ flows[f].status = "RUNNING"}
\* The workflows of the type that were stored with the key.
Started(type, key) ==
    {f \in Ids : key # NoKey /\ flows[f].type = type /\ flows[f].key = key}

\* ORDER BY created_at DESC: the newest of them is the answer.
Newest(fs) == CHOOSE f \in fs : \A g \in fs : g <= f

\* What a new workflow of the type has to write itself.
NewFlow(r, key) ==
    LET own == IF r.type = "authoring" /\ ~r.split THEN Sections ELSE {}
    IN  Flow(r.type, key, StartStatus(r), r.split, own, 0)

\* The workflow that is inserted next is one that has to wait.
Note(r) ==
    /\ unmet' = IF StartStatus(r) = "BLOCKED" THEN unmet \cup {Len(flows) + 1} ELSE unmet
    /\ UNCHANGED <<marked, resumed>>

\* Bound: a client that has no key asks once.
MayAsk(r) == r.key # NoKey \/ answered[r] = {}

\* start of a request that was started before: nothing is inserted.
StartAgain(r) ==
    /\ Started(r.type, r.key) # {}
    /\ answered' = [answered EXCEPT ![r] = @ \cup {Newest(Started(r.type, r.key))}]
    /\ UNCHANGED <<flows, texts, losses, recovery, shown>>

\* start: the first transaction inserts the workflow, the second stores the key in
\* its state; then the request is answered.
Start(r) ==
    /\ Started(r.type, r.key) = {} /\ MayAsk(r)
    /\ flows' = Append(flows, NewFlow(r, r.key)) /\ Note(r)
    /\ answered' = [answered EXCEPT ![r] = @ \cup {Len(flows) + 1}]
    /\ UNCHANGED <<texts, losses, shown>>

\* The process dies between the two: no key, no answer.
StartDies(r) ==
    /\ Started(r.type, r.key) = {} /\ r.key # NoKey
    /\ flows' = Append(flows, NewFlow(r, NoKey)) /\ Note(r)
    /\ losses' = losses + 1
    /\ UNCHANGED <<texts, answered, shown>>

-----------------------------------------------------------------------------
(* Running one.                                                             *)

Running(f) == flows[f].status = "RUNNING"
SetStatus(f, st) == flows' = [flows EXCEPT ![f].status = st]

\* An advance fails at one of its faults, before the engine is asked, in it or after it:
\* whatever the workflow stood at, BLOCKED for its prerequisites included, it is marked.
Fault(f) ==
    /\ flows[f].status # "COMPLETED" /\ flows[f].parent = 0
    /\ SetStatus(f, "BLOCKED")
    /\ marked' = marked \cup {f}
    /\ UNCHANGED <<texts, losses, unmet, resumed, answered, shown>>

\* _recover_status: the next advance sets what is marked RUNNING, and asks nothing else.
Recover(f) ==
    /\ f \in marked /\ flows[f].status = "BLOCKED"
    /\ SetStatus(f, "RUNNING")
    /\ marked' = marked \ {f}
    /\ resumed' = resumed \cup ({f} \cap unmet)
    /\ losses' = losses + 1
    /\ UNCHANGED <<texts, unmet, answered, shown>>

\* The steps of WF-1, WF-2 and WF-3 reach their end, or one of them is refused.
Run(f) ==
    /\ Running(f) /\ flows[f].type \in {"intake", "template", "research"}
    /\ \E st \in {"BLOCKED", "COMPLETED"} : SetStatus(f, st)
    /\ UNCHANGED <<texts, losses, recovery, answered, shown>>

\* _create_full_proposal_child: the sections that no recorded child has.
Unassigned(f) ==
    Sections \ UNION {DOMAIN flows[c].step : c \in flows[f].children}

\* ... the child is inserted, then recorded in the state of its parent.
Spawn(f, s) ==
    /\ Running(f) /\ flows[f].split /\ flows[f].type = "authoring"
    /\ s \in Unassigned(f)
    /\ flows' = Append([flows EXCEPT ![f].children = @ \cup {Len(flows) + 1}],
                       Flow("authoring", NoKey, "RUNNING", FALSE, {s}, f))
    /\ UNCHANGED <<texts, losses, recovery, answered, shown>>

\* The process dies between the two: a child nobody has recorded.
SpawnDies(f, s) ==
    /\ Running(f) /\ flows[f].split /\ flows[f].type = "authoring"
    /\ s \in Unassigned(f)
    /\ flows' = Append(flows, Flow("authoring", NoKey, "RUNNING", FALSE, {s}, f))
    /\ losses' = losses + 1
    /\ UNCHANGED <<texts, recovery, answered, shown>>

\* Mutant of SectionTexts: only the section is compared.
SectionTextsOfProject(f, s) ==
    {t \in 1 .. Len(texts) : /\ texts[t].section = s
                             /\ texts[t].prompt = "P-WRITE-CONTENT" /\ texts[t].pass}
\* _section_prompt_result: the PASS runs of the workflow whose input was the section.
SectionTexts(f, s) ==
    {t \in 1 .. Len(texts) : /\ texts[t].flow = f /\ texts[t].section = s
                             /\ texts[t].prompt = "P-WRITE-CONTENT" /\ texts[t].pass}
LatestText(ts) == IF ts = {} THEN 0 ELSE Newest(ts)

\* _content_candidates: the latest PASS text of every section, of these workflows.
Candidates(fs) ==
    LET of(s) == {t \in 1 .. Len(texts) : /\ texts[t].flow \in fs /\ texts[t].section = s
                                          /\ texts[t].pass}
    IN  [s \in {s \in Sections : of(s) # {}} |-> LatestText(of(s))]

NewText(f, s, prompt, pass) ==
    [flow |-> f, section |-> s, prompt |-> prompt, pass |-> pass]

\* The content of a section is written; only a PASS run moves its chain on.
Draft(f, s, pass) ==
    /\ Running(f) /\ s \in DOMAIN flows[f].step /\ flows[f].step[s] = "todo"
    /\ texts' = Append(texts, NewText(f, s, "P-WRITE-CONTENT", pass))
    /\ flows' = IF pass THEN [flows EXCEPT ![f].step[s] = "drafted",
                                           ![f].wrote[s] = Len(texts) + 1]
                ELSE flows
    /\ UNCHANGED <<losses, recovery, answered, shown>>

\* Its polish is shown the content the context builder finds.
Polish(f, s) ==
    /\ Running(f) /\ s \in DOMAIN flows[f].step /\ flows[f].step[s] = "drafted"
    /\ shown' = <<[x \in {s} |-> LatestText(SectionTexts(f, s))],
                  [x \in {s} |-> flows[f].wrote[s]]>>
    /\ texts' = Append(texts, NewText(f, s, "P-EXPRESSION-POLISH", TRUE))
    /\ flows' = [flows EXCEPT ![f].step[s] = "polished", ![f].wrote[s] = Len(texts) + 1]
    /\ UNCHANGED <<losses, recovery, answered>>

\* _run_full_proposal_group: all sections of the group are done.
ChildDone(f) ==
    /\ Running(f) /\ flows[f].parent # 0
    /\ \A s \in DOMAIN flows[f].step : flows[f].step[s] = "polished"
    /\ SetStatus(f, "COMPLETED")
    /\ UNCHANGED <<texts, losses, recovery, answered, shown>>

\* authoring_child_workflow_ids, or the workflow itself.
Authors(f) == IF flows[f].split THEN flows[f].children ELSE {f}
Author(f, s) == CHOOSE c \in Authors(f) : s \in DOMAIN flows[c].step

\* The integration critic is shown the whole document of an authoring.
Integrable(f) ==
    /\ Running(f) /\ flows[f].type = "authoring" /\ flows[f].parent = 0
    /\ flows[f].split => /\ Unassigned(f) = {}
                          /\ \A c \in flows[f].children : flows[c].status = "COMPLETED"
    /\ \A c \in Authors(f) : \A s \in DOMAIN flows[c].step : flows[c].step[s] = "polished"
ShowDocument(f) ==
    shown' = <<Candidates(Authors(f)), [s \in Sections |-> flows[Author(f, s)].wrote[s]]>>

IntegrationPass(f) ==
    /\ Integrable(f) /\ ShowDocument(f)
    /\ SetStatus(f, "COMPLETED")
    /\ UNCHANGED <<texts, losses, recovery, answered>>

\* REVISE: the responsible section is written again by the workflow that has it.
IntegrationRewrites(f, s) ==
    /\ Integrable(f) /\ ShowDocument(f)
    /\ flows' = [flows EXCEPT ![Author(f, s)].step[s] = "todo",
                              ![Author(f, s)].status = "RUNNING"]
    /\ UNCHANGED <<texts, losses, recovery, answered>>

\* WF-5: its review is shown the candidates of the whole project.
Export(f) ==
    /\ Running(f) /\ flows[f].type = "export"
    /\ \E st \in {"BLOCKED", "COMPLETED"} : SetStatus(f, st)
    /\ UNCHANGED <<texts, losses, recovery, answered, shown>>

Step ==
    \/ \E r \in Requests : StartAgain(r) \/ Start(r) \/ StartDies(r)
    \/ \E f \in Ids :
          \/ Fault(f) \/ Recover(f)
          \/ Run(f) \/ ChildDone(f) \/ IntegrationPass(f) \/ Export(f)
          \/ \E s \in Sections :
                \/ Spawn(f, s) \/ SpawnDies(f, s)
                \/ \E pass \in BOOLEAN : Draft(f, s, pass)
                \/ Polish(f, s) \/ IntegrationRewrites(f, s)

Next == Step /\ Within'

Spec == Init /\ [][Next]_vars

-----------------------------------------------------------------------------
(* A client that repeats a start under the same key, after any number of    *)
(* lost answers and deaths, is always told of the same workflow             *)
(* (runtime_workflows.start).                                               *)
SameAnswer ==
    \A r \in Requests : r.key # NoKey => Cardinality(answered[r]) <= 1

(* A WF-5 that is not blocked has a proposal that was completed as a whole, *)
(* and not just one of the groups some authoring is still waiting for,      *)
(* whatever was started, blocked, faulted, recovered, completed or lost in  *)
(* between (_workflow_prerequisite_error).  One that was started too early  *)
(* is held back until a recovery, which asks for nothing, sets it RUNNING   *)
(* (runtime_workflows._recover_status): that is the only way around.        *)
RunsOnPrerequisites ==
    \A f \in Ids : flows[f].type = "export" /\ flows[f].status # "BLOCKED" =>
        \/ f \in resumed
        \/ \E g \in Ids : /\ flows[g].type = "authoring" /\ flows[g].status = "COMPLETED"
                          /\ Sections \subseteq UNION {DOMAIN flows[c].step : c \in Authors(g)}
                          /\ \A c \in Authors(g) : \A s \in DOMAIN flows[c].step :
                                flows[c].step[s] = "polished"

(* A polish and an integration review are shown what their own workflow and *)
(* its own children wrote last, whatever other authoring, orphaned child,   *)
(* refused run or rewriting has put into the project meanwhile (context.py, *)
(* "workflow-and-section isolation").                                       *)
ReadsOwn == shown[1] = shown[2]

=============================================================================
