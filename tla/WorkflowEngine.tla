---------------------------- MODULE WorkflowEngine ----------------------------
(***************************************************************************)
(* One project workflow as src/app/workflows.py, workflow_gates.py and     *)
(* runtime_workflows.py run it.                                            *)
(*                                                                         *)
(* Durable: the workflow's database row and the gate rows.  Every          *)
(* db.execute is a transaction of its own, so each one is an action here.  *)
(* Volatile: one coroutine per advance request (Workers), all on a single  *)
(* asyncio loop that is given up only while a model call is awaited, and   *)
(* one thread per decide request (Deciders), which may run between any two *)
(* transactions.  A coroutine works on its own copy of the row (mem) and   *)
(* writes that copy back whole: _update checks neither version nor status. *)
(*                                                                         *)
(* Of the WF-4 steps, WRITE_SECTIONS and the integration repair loop are   *)
(* left to modules of their own; the quality ledger's verdict at the end   *)
(* of a workflow is an input.                                              *)
(***************************************************************************)
EXTENDS Naturals, Sequences, FiniteSets

CONSTANTS
    Workers,      \* concurrent advance requests
    Deciders,     \* concurrent gate decision requests
    NoWorker,     \* the event loop is free
    NSteps,       \* length of WORKFLOWS[workflow_type]
    Kind,         \* step -> PROMPT, SEARCH (PUBLIC_SEARCH) or GATE
    GateAfter,    \* prompt steps whose registry entry has a next_human_gate
    Critics,      \* prompt steps that are keys of CRITIC_PRODUCER
    GateType,     \* step -> type of the gate raised at that step
    Serial,       \* clients keep one request in flight (not enforced by the code)
    MaxAsks,      \* bound: answers REVISE or NEED_USER_INPUT
    MaxGates,     \* bound: gate rows
    MaxCrashes,   \* bound: process crashes
    MaxFaults     \* bound: injected failures and uncaught exceptions

Steps == 0 .. (NSteps - 1)
Gated == GateAfter \cup {s \in Steps : Kind[s] = "GATE"}

ASSUME ConstantsAssumption ==
    /\ NSteps \in Nat \ {0}
    /\ Kind \in [Steps -> {"PROMPT", "SEARCH", "GATE"}]
    /\ GateAfter \subseteq {s \in Steps : Kind[s] = "PROMPT"}
    /\ Critics \subseteq {s \in Steps : Kind[s] = "PROMPT"}
    /\ DOMAIN GateType = Steps
    /\ NoWorker \notin Workers
    /\ Serial \in BOOLEAN
    /\ {MaxAsks, MaxGates, MaxCrashes, MaxFaults} \subseteq Nat

Statuses == {"RUNNING", "WAITING_GATE", "BLOCKED", "COMPLETED"}
Answers == {"PASS", "REVISE", "NEED_USER_INPUT", "BLOCK", "ERROR", "INJECTED"}
Verdicts == {"APPROVED", "REJECTED"}   \* CANCELLED acts as REJECTED

\* A workflows row: repaired is repair_attempts, recoverable is
\* runtime_recoverable, injected says last_error starts with INJECTED_FAILURE.
Rows == [status : Statuses, step : 0 .. NSteps, repaired : SUBSET Steps,
         recoverable : BOOLEAN, injected : BOOLEAN]

\* after: raised once its step had passed, not as a question about the answer.
GateRows == [type : {GateType[s] : s \in Steps}, step : Steps,
             after : BOOLEAN, status : {"OPEN"} \cup Verdicts]

StartRow == [status |-> "RUNNING", step |-> 0, repaired |-> {},
             recoverable |-> FALSE, injected |-> FALSE]

VARIABLES
    row, gates,                      \* durable
    loop, pc, mem, res,              \* coroutines
    dpc, dgate, dverdict, dcopy,     \* decision threads
    passed, executed, repairRuns,    \* history
    asks, crashes, faults            \* budgets used

coroutine == <<loop, pc, mem, res>>
decision == <<dpc, dgate, dverdict, dcopy>>
history == <<passed, executed, repairRuns>>
budgets == <<asks, crashes, faults>>
vars == <<row, gates, coroutine, decision, history, budgets>>

PCs == {"idle", "recover", "enter", "step", "await", "answered", "repair",
        "gate", "park", "wrap"}
DPCs == {"idle", "decide", "load", "store"}

TypeOK ==
    /\ row \in Rows
    /\ gates \in Seq(GateRows)
    /\ loop \in Workers \cup {NoWorker}
    /\ pc \in [Workers -> PCs]
    /\ mem \in [Workers -> Rows]
    /\ res \in [Workers -> Answers]
    /\ dpc \in [Deciders -> DPCs]
    /\ dgate \in [Deciders -> Nat]
    /\ dverdict \in [Deciders -> Verdicts]
    /\ dcopy \in [Deciders -> Rows]
    /\ passed \subseteq Steps
    /\ executed \subseteq Steps
    /\ repairRuns \in [Steps -> Nat]
    /\ asks \in 0 .. MaxAsks
    /\ crashes \in 0 .. MaxCrashes
    /\ faults \in 0 .. MaxFaults

Init ==
    /\ row = StartRow
    /\ gates = <<>>
    /\ loop = NoWorker
    /\ pc = [w \in Workers |-> "idle"]
    /\ mem = [w \in Workers |-> StartRow]
    /\ res = [w \in Workers |-> "PASS"]
    /\ dpc = [d \in Deciders |-> "idle"]
    /\ dgate = [d \in Deciders |-> 0]
    /\ dverdict = [d \in Deciders |-> "APPROVED"]
    /\ dcopy = [d \in Deciders |-> StartRow]
    /\ passed = {} /\ executed = {}
    /\ repairRuns = [s \in Steps |-> 0]
    /\ asks = 0 /\ crashes = 0 /\ faults = 0

-----------------------------------------------------------------------------
OpenGates == {g \in DOMAIN gates : gates[g].status = "OPEN"}
AllIdle == (\A w \in Workers : pc[w] = "idle") /\ (\A d \in Deciders : dpc[d] = "idle")
Admitted == Serial => AllIdle

At(w, p) == pc[w] = p /\ loop = w
Goto(w, p) == pc' = [pc EXCEPT ![w] = p]

\* _update followed by the re-read: the coroutine's copy becomes the row.
Save(w, r) == row' = r /\ mem' = [mem EXCEPT ![w] = r]

\* The request ends: its locals are gone and the loop is free.
Leave(w) == /\ Goto(w, "idle") /\ loop' = NoWorker
            /\ mem' = [mem EXCEPT ![w] = StartRow]
            /\ res' = [res EXCEPT ![w] = "PASS"]

\* POST /api/workflows/{id}/advance: the facade reads the row.
Begin(w) ==
    /\ pc[w] = "idle" /\ loop = NoWorker /\ Admitted
    /\ loop' = w
    /\ mem' = [mem EXCEPT ![w] = row]
    /\ Goto(w, "recover")
    /\ UNCHANGED <<row, gates, res, decision, history, budgets>>

\* Mutants of Recovered: every BLOCKED row is resumed; a technical block is not.
ResumeEveryBlock(r) ==
    IF r.status = "BLOCKED" \/ (r.status = "WAITING_GATE" /\ OpenGates = {})
    THEN [r EXCEPT !.status = "RUNNING"] ELSE r
ResumeOnlyWaiting(r) ==
    IF r.status = "WAITING_GATE" /\ OpenGates = {} THEN [r EXCEPT !.status = "RUNNING"] ELSE r

\* _recover_status: what the facade does with a row found WAITING_GATE with no
\* open gate, or BLOCKED by a technical failure.
Recovered(r) ==
    IF r.status = "WAITING_GATE" /\ OpenGates = {} THEN [r EXCEPT !.status = "RUNNING"]
    ELSE IF r.status = "BLOCKED" /\ r.recoverable
         THEN [r EXCEPT !.status = "RUNNING", !.recoverable = FALSE, !.injected = FALSE]
    ELSE r

Recover(w) ==
    /\ At(w, "recover")
    /\ \/ /\ mem[w].status = "COMPLETED"
          /\ Leave(w) /\ UNCHANGED row
       \/ /\ mem[w].status # "COMPLETED"
          /\ Recovered(mem[w]) # mem[w]
          /\ Save(w, Recovered(mem[w])) /\ Goto(w, "enter") /\ UNCHANGED <<loop, res>>
       \/ /\ mem[w].status # "COMPLETED"
          /\ Recovered(mem[w]) = mem[w]
          /\ Goto(w, "enter") /\ UNCHANGED <<row, mem, loop, res>>
    /\ UNCHANGED <<gates, decision, history, budgets>>

\* Mutant of Enter: the look for an open gate is missing.
EnterPastGates(w) ==
    /\ At(w, "enter")
    /\ mem' = [mem EXCEPT ![w] = [row EXCEPT !.status = "RUNNING"]]
    /\ Goto(w, IF row.status \in {"COMPLETED", "BLOCKED"} THEN "wrap" ELSE "step")
    /\ UNCHANGED <<row, gates, loop, res, decision, history, budgets>>

\* The base advance reads the row again; an open gate sends it back to waiting.
Enter(w) ==
    /\ At(w, "enter")
    /\ \/ /\ row.status \in {"COMPLETED", "BLOCKED"}
          /\ mem' = [mem EXCEPT ![w] = row] /\ Goto(w, "wrap")
       \/ /\ row.status \notin {"COMPLETED", "BLOCKED"}
          /\ mem' = [mem EXCEPT ![w] = [row EXCEPT !.status = "RUNNING"]]
          /\ Goto(w, IF OpenGates # {} THEN "park" ELSE "step")
    /\ UNCHANGED <<row, gates, loop, res, decision, history, budgets>>

\* A prompt or the public search is awaited: the loop is given up.
Call(w) ==
    /\ At(w, "step")
    /\ mem[w].step \in Steps /\ Kind[mem[w].step] # "GATE"
    /\ executed' = executed \cup {mem[w].step}
    /\ loop' = NoWorker /\ Goto(w, "await")
    /\ UNCHANGED <<row, gates, mem, res, decision, passed, repairRuns, budgets>>

\* ERROR stands for every exception advance turns into BLOCKED, and for a
\* synthesis whose claims fail validation; INJECTED for an injected failure,
\* re-raised as RecoverablePromptExecutionError.
Answer(w) ==
    /\ pc[w] = "await" /\ loop = NoWorker
    /\ \E a \in IF Kind[mem[w].step] = "SEARCH" THEN {"PASS", "ERROR"} ELSE Answers :
          /\ a \in {"REVISE", "NEED_USER_INPUT"} => asks < MaxAsks
          /\ a = "INJECTED" => faults < MaxFaults
          /\ asks' = IF a \in {"REVISE", "NEED_USER_INPUT"} THEN asks + 1 ELSE asks
          /\ faults' = IF a = "INJECTED" THEN faults + 1 ELSE faults
          /\ res' = [res EXCEPT ![w] = a]
          /\ passed' = IF a = "PASS" THEN passed \cup {mem[w].step} ELSE passed
    /\ loop' = w /\ Goto(w, "answered")
    /\ UNCHANGED <<row, gates, mem, decision, executed, repairRuns, crashes>>

\* An exception nobody catches (FileNotFoundError on incomplete evidence, a
\* locked database) ends the request and leaves the row as it was.
Escape(w) ==
    /\ pc[w] \in {"await", "repair"} /\ loop = NoWorker
    /\ faults < MaxFaults /\ faults' = faults + 1
    /\ Leave(w)
    /\ UNCHANGED <<row, gates, decision, history, asks, crashes>>

\* Mutants of PassedRow: a step and its gate are both counted; the update is
\* relative to whatever the row holds by now.
BumpedForGate(w) == [mem[w] EXCEPT !.status = "RUNNING",
                                   !.step = IF @ \in Gated THEN @ + 2 ELSE @ + 1]
\* PASS, or a GATE step reached: current_step + 1 is committed before any gate.
PassedRow(w) == [mem[w] EXCEPT !.status = "RUNNING", !.step = @ + 1]

Pass(w) ==
    /\ At(w, "answered") /\ res[w] = "PASS"
    /\ Save(w, PassedRow(w))
    /\ Goto(w, IF mem[w].step \in GateAfter THEN "gate" ELSE "step")
    /\ UNCHANGED <<gates, loop, res, decision, history, budgets>>

GateStep(w) ==
    /\ At(w, "step")
    /\ mem[w].step \in Steps /\ Kind[mem[w].step] = "GATE"
    /\ Save(w, PassedRow(w))
    /\ res' = [res EXCEPT ![w] = "PASS"]
    /\ Goto(w, "gate")
    /\ UNCHANGED <<gates, loop, decision, history, budgets>>

\* BLOCK, an exception, or a REVISE that confirmation cannot repair.  A BLOCK
\* answer leaves last_error as it was; the others overwrite it.
Refuse(w) ==
    /\ At(w, "answered") /\ res[w] \in {"BLOCK", "ERROR", "INJECTED", "REVISE"}
    /\ Save(w, [mem[w] EXCEPT !.status = "BLOCKED",
                    !.injected = IF res[w] = "BLOCK" THEN @ ELSE res[w] = "INJECTED"])
    /\ Goto(w, "wrap")
    /\ UNCHANGED <<gates, loop, res, decision, history, budgets>>

\* _can_auto_repair and _auto_repair up to the await: the attempt is counted in
\* the coroutine's copy only.
CanAutoRepair(w) == mem[w].step \in Critics \ mem[w].repaired

RequestRepair(w) ==
    /\ At(w, "answered") /\ res[w] = "REVISE"
    /\ CanAutoRepair(w)
    /\ mem' = [mem EXCEPT ![w].repaired = @ \cup {mem[w].step}]
    /\ repairRuns' = [repairRuns EXCEPT ![mem[w].step] = @ + 1]
    /\ loop' = NoWorker /\ Goto(w, "repair")
    /\ UNCHANGED <<row, gates, res, decision, passed, executed, budgets>>

\* Mutant of Repaired: the row is read again before it is saved, so the attempt
\* counted in the copy is lost.
RepairedUncounted(w) ==
    /\ pc[w] = "repair" /\ loop = NoWorker
    /\ loop' = w
    /\ \/ Save(w, [row EXCEPT !.status = "RUNNING"]) /\ Goto(w, "step")
       \/ Goto(w, "answered") /\ UNCHANGED <<row, mem>>
    /\ UNCHANGED <<gates, res, decision, history, budgets>>

\* A repair that passes is saved and the same critic runs again; one that
\* fails, for whatever reason, falls through to the human question.
Repaired(w) ==
    /\ pc[w] = "repair" /\ loop = NoWorker
    /\ loop' = w
    /\ \/ Save(w, [mem[w] EXCEPT !.status = "RUNNING"]) /\ Goto(w, "step")
       \/ Goto(w, "answered") /\ UNCHANGED <<row, mem>>
    /\ UNCHANGED <<gates, res, decision, history, budgets>>

\* REVISE or NEED_USER_INPUT raises a gate; the step is not advanced.
Ask(w) ==
    /\ At(w, "answered") /\ res[w] \in {"REVISE", "NEED_USER_INPUT"}
    /\ Goto(w, "gate")
    /\ UNCHANGED <<row, gates, loop, mem, res, decision, history, budgets>>

\* _create_gate: an open gate of the same type is reused.
NewGate(w) ==
    LET s == IF res[w] = "PASS" THEN mem[w].step - 1 ELSE mem[w].step
    IN  [type |-> GateType[s], step |-> s, after |-> res[w] = "PASS", status |-> "OPEN"]

CreateGate(w) ==
    /\ At(w, "gate")
    /\ IF \E g \in OpenGates : gates[g].type = NewGate(w).type
       THEN UNCHANGED gates
       ELSE Len(gates) < MaxGates /\ gates' = Append(gates, NewGate(w))
    /\ Goto(w, "park")
    /\ UNCHANGED <<row, loop, mem, res, decision, history, budgets>>

Park(w) ==
    /\ At(w, "park")
    /\ Save(w, [mem[w] EXCEPT !.status = "WAITING_GATE"])
    /\ Goto(w, "wrap")
    /\ UNCHANGED <<gates, loop, res, decision, history, budgets>>

\* Past the last step: the quality ledger is asked for open blockers.
Finish(w) ==
    /\ At(w, "step") /\ mem[w].step = NSteps
    /\ \/ Save(w, [mem[w] EXCEPT !.status = "COMPLETED"])
       \/ Save(w, [mem[w] EXCEPT !.status = "BLOCKED", !.injected = FALSE])
    /\ Goto(w, "wrap")
    /\ UNCHANGED <<gates, loop, res, decision, history, budgets>>

\* The facade marks a BLOCKED row whose last error is an injected failure.
Return(w) ==
    /\ At(w, "wrap")
    /\ IF mem[w].status = "BLOCKED" /\ mem[w].injected
       THEN row' = [mem[w] EXCEPT !.recoverable = TRUE]
       ELSE UNCHANGED row
    /\ Leave(w)
    /\ UNCHANGED <<gates, decision, history, budgets>>

\* An injected failure before_workflow_advance, after_gate_created or
\* after_workflow_advance: the facade's handler blocks the row, recoverably.
Fault(w) ==
    /\ At(w, "enter") \/ At(w, "wrap")
    /\ faults < MaxFaults /\ faults' = faults + 1
    /\ row' = [row EXCEPT !.status = "BLOCKED", !.recoverable = TRUE, !.injected = TRUE]
    /\ Leave(w)
    /\ UNCHANGED <<gates, decision, history, asks, crashes>>

-----------------------------------------------------------------------------
\* POST /api/gates/{id}/decide, as four transactions: check, decide, read the
\* row, write it back with the verdict's status.
Review(d) ==
    /\ dpc[d] = "idle" /\ Admitted
    /\ \E g \in OpenGates, v \in Verdicts :
          dgate' = [dgate EXCEPT ![d] = g] /\ dverdict' = [dverdict EXCEPT ![d] = v]
    /\ dpc' = [dpc EXCEPT ![d] = "decide"]
    /\ UNCHANGED <<row, gates, coroutine, dcopy, history, budgets>>

Decide(d) ==
    /\ dpc[d] = "decide"
    /\ gates' = [gates EXCEPT ![dgate[d]].status = dverdict[d]]
    /\ dpc' = [dpc EXCEPT ![d] = "load"]
    /\ UNCHANGED <<row, coroutine, dgate, dverdict, dcopy, history, budgets>>

Load(d) ==
    /\ dpc[d] = "load"
    /\ dcopy' = [dcopy EXCEPT ![d] = row]
    /\ dpc' = [dpc EXCEPT ![d] = "store"]
    /\ UNCHANGED <<row, gates, coroutine, dgate, dverdict, history, budgets>>

\* The decision's outcome for the workflow, whatever its status has become.
Store(d) ==
    /\ dpc[d] = "store"
    /\ row' = [dcopy[d] EXCEPT !.status =
                  IF dverdict[d] = "APPROVED" THEN "RUNNING" ELSE "BLOCKED"]
    /\ dpc' = [dpc EXCEPT ![d] = "idle"]
    /\ dgate' = [dgate EXCEPT ![d] = 0]
    /\ dverdict' = [dverdict EXCEPT ![d] = "APPROVED"]
    /\ dcopy' = [dcopy EXCEPT ![d] = StartRow]
    /\ UNCHANGED <<gates, coroutine, history, budgets>>

-----------------------------------------------------------------------------
\* The process dies between two transactions and is started again.
Crash ==
    /\ crashes < MaxCrashes /\ crashes' = crashes + 1
    /\ loop' = NoWorker
    /\ pc' = [w \in Workers |-> "idle"]
    /\ mem' = [w \in Workers |-> StartRow]
    /\ res' = [w \in Workers |-> "PASS"]
    /\ dpc' = [d \in Deciders |-> "idle"]
    /\ dgate' = [d \in Deciders |-> 0]
    /\ dverdict' = [d \in Deciders |-> "APPROVED"]
    /\ dcopy' = [d \in Deciders |-> StartRow]
    /\ UNCHANGED <<row, gates, history, asks, faults>>

Progress(w) ==
    \/ Recover(w) \/ Enter(w) \/ Call(w) \/ Answer(w) \/ Pass(w) \/ GateStep(w)
    \/ Refuse(w) \/ RequestRepair(w) \/ Repaired(w) \/ Ask(w) \/ CreateGate(w)
    \/ Park(w) \/ Finish(w) \/ Return(w)

Deciding(d) == Decide(d) \/ Load(d) \/ Store(d)

Next ==
    \/ \E w \in Workers : Begin(w) \/ Progress(w) \/ Escape(w) \/ Fault(w)
    \/ \E d \in Deciders : Review(d) \/ Deciding(d)
    \/ Crash

Spec == Init /\ [][Next]_vars

\* Started requests run on: the ready queue of asyncio is first in first out
\* and threads are scheduled.  Clients keep calling advance and reviewers keep
\* deciding; each of those is enabled only between the others' requests.
Fairness ==
    /\ \A w \in Workers : SF_vars(Progress(w)) /\ SF_vars(Begin(w))
    /\ \A d \in Deciders : WF_vars(Deciding(d)) /\ SF_vars(Review(d))

FairSpec == Spec /\ Fairness

-----------------------------------------------------------------------------
(***************************************************************************)
(* Properties                                                              *)
(***************************************************************************)
NoFailure == crashes = 0 /\ faults = 0
GateApproved(s) == \E g \in DOMAIN gates :
    gates[g].step = s /\ gates[g].after /\ gates[g].status = "APPROVED"
Rejected == \E g \in DOMAIN gates : gates[g].status = "REJECTED"
PromptSteps == {s \in Steps : Kind[s] # "GATE"}

\* No model or search call is made beyond a step that demands a human gate, and
\* the workflow is not completed, unless a reviewer approved the gate raised
\* for that step's passed result.
GateHonoured ==
    \A s \in Gated :
        (row.status = "COMPLETED" \/ \E t \in executed : t > s) => GateApproved(s)

\* The gates hold as long as no process crash and no technical failure has
\* separated the transactions that advance the step, create the gate, record
\* the decision and store its effect.
GateHonouredWithoutFailure == NoFailure => GateHonoured

\* The same, while no crash or technical failure has happened.
RejectionStopsWithoutFailure ==
    [][(NoFailure /\ Rejected) =>
            /\ \A w \in Workers : pc[w] = "step" => pc'[w] # "await"
            /\ row'.status = "COMPLETED" => row.status = "COMPLETED"]_vars

\* A workflow never has two gates open at once, whatever crashed or failed in
\* between: an advance that finds an open gate parks instead of running on.
OneOpenGate == Cardinality(OpenGates) <= 1

\* A critic's producer is repaired at most once, except that a crash or an
\* uncaught exception before the attempt is persisted may cost one repeat.
RepairBudget == \A s \in Steps : repairRuns[s] <= 1 + crashes + faults

\* If clients keep advancing and reviewers keep deciding, the workflow comes to
\* rest COMPLETED or finally BLOCKED, whatever failed: it is never left waiting
\* for a gate that does not exist or blocked by a failure that is over.
AtRest == row.status = "COMPLETED" \/ (row.status = "BLOCKED" /\ ~row.recoverable)
Settles == <>[]AtRest

\* A step counts as done only after its prompt answered PASS (or its search
\* succeeded), and nothing is called before all earlier prompts have passed:
\* under any interleaving of requests, crashes and failures.
ReviewedInOrder ==
    \A s \in PromptSteps :
        (row.step > s \/ \E t \in executed : t > s) => s \in passed

\* COMPLETED is written only by a coroutine that went through every step.
CompletedIsReviewed == row.status = "COMPLETED" => row.step = NSteps /\ PromptSteps \subseteq passed
=============================================================================
