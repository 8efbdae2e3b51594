---------------------------- MODULE QualityLedger ----------------------------
(***************************************************************************)
(* The ledger of blocking (P0/P1) quality findings of one workflow, as     *)
(* src/app/quality.py keeps it: every change of a finding is inserted as a *)
(* new version of its QUALITY_FINDING artifact, and only the latest        *)
(* version is ever read.                                                   *)
(*                                                                         *)
(* The event loop observes the result of each prompt in one synchronous    *)
(* call; delivery findings are ingested in threads.  Each read and each    *)
(* insert is a database transaction of its own, so a thread may come       *)
(* between any two of them, and so may the death of the process.           *)
(*                                                                         *)
(* A finding stands for an identity hash, so its code, its scope and the   *)
(* route that makes someone responsible for it are constants.  The         *)
(* evidence API of post-export acceptance is left to the delivery module.  *)
(***************************************************************************)
EXTENDS Naturals, Sequences, FiniteSets

CONSTANTS
    Findings,        \* identities of blocking findings
    Prompts,         \* producers and critics, each in the scope it runs in
    Threads,         \* requests that submit delivery findings
    Loop,            \* the event loop
    Validator,       \* DELIVERY_VALIDATOR
    TargetedRepair,  \* P-TARGETED-REPAIR
    NoFinding,       \* no finding is being written
    Document,        \* the scope that matches every scope
    Code,            \* finding -> its code
    Scope,           \* finding -> scope_key of its identity
    Finders,         \* finding -> prompts that report it, or Validator
    Stages,          \* finding -> stage_prompt_ids of its route
    Reviewer,        \* finding -> reviewer_prompt_id of its route
    PromptScope,     \* prompt -> scope_key of its calls
    Repairing,       \* prompts that are keys of CRITIC_PRODUCER
    Serial,          \* clients keep one request in flight (not enforced by the code)
    MaxRuns,         \* bound: runs
    MaxCrashes       \* bound: process deaths

ASSUME LedgerAssumption ==
    /\ {Validator, TargetedRepair} \cap Prompts = {} /\ Validator # TargetedRepair
    /\ Loop \notin Threads /\ NoFinding \notin Findings
    /\ Finders \in [Findings -> SUBSET (Prompts \cup {Validator})]
    /\ Stages \in [Findings -> SUBSET Prompts]
    /\ Reviewer \in [Findings -> Prompts]
    /\ DOMAIN Code = Findings /\ DOMAIN Scope = Findings /\ DOMAIN PromptScope = Prompts
    /\ \A f \in Findings : \A p \in Finders[f] \cap Prompts : PromptScope[p] = Scope[f]
    /\ Repairing \subseteq Prompts
    /\ Serial \in BOOLEAN
    /\ MaxRuns \in Nat /\ MaxCrashes \in Nat

Actors == Threads \cup {Loop}

VARIABLES
    ledger,      \* finding -> its latest version
    runs,        \* runs whose result reached the ledger: prompt, found, pass
    work,        \* what each actor is in the middle of
    resume,      \* run whose result a restarted workflow is given again, or 0
    recorded,    \* history: runs whose result has been taken in entirely
    crashes

vars == <<ledger, runs, work, resume, recorded, crashes>>

RunIds == 1 .. MaxRuns
States == {"NONE", "OPEN", "REPAIR_RECORDED", "VERIFIED"}
Rows == [version : Nat, state : States, opened : 0 .. MaxRuns, seen : SUBSET RunIds,
         repairs : SUBSET RunIds, reviews : SUBSET RunIds]
NoRow == [version |-> 0, state |-> "NONE", opened |-> 0,
          seen |-> {}, repairs |-> {}, reviews |-> {}]
IsOpen(r) == r.state \in {"OPEN", "REPAIR_RECORDED"}

\* snap: the rows as the phase read them; draft: the row about to be inserted for
\* the finding target, still unnumbered while its version is 0.
Phases == {"idle", "repair", "targeted", "absent", "record"}
Steps == {"enter", "choose", "number", "insert"}
Idle == [phase |-> "idle", run |-> 0, todo |-> {}, snap |-> [f \in Findings |-> NoRow],
         step |-> "enter", target |-> NoFinding, draft |-> NoRow]
Works == [phase : Phases, run : 0 .. MaxRuns, todo : SUBSET Findings,
          snap : [Findings -> Rows], step : Steps,
          target : Findings \cup {NoFinding}, draft : Rows]

TypeOK ==
    /\ ledger \in [Findings -> Rows]
    /\ runs \in Seq([prompt : Prompts \cup {Validator, TargetedRepair},
                     found : SUBSET Findings, pass : BOOLEAN])
    /\ Len(runs) <= MaxRuns
    /\ work \in [Actors -> Works]
    /\ \A a \in Actors : work[a].run <= Len(runs)
    /\ resume \in 0 .. Len(runs)
    /\ recorded \subseteq DOMAIN runs
    /\ crashes \in 0 .. MaxCrashes

Init ==
    /\ ledger = [f \in Findings |-> NoRow]
    /\ runs = <<>>
    /\ work = [a \in Actors |-> Idle]
    /\ resume = 0 /\ recorded = {} /\ crashes = 0
-----------------------------------------------------------------------------
\* Mutant of ScopesMatch: a run for the whole document matches no narrower scope.
SameScope(f, p) == Scope[f] = PromptScope[p]

\* _scope_matches.
ScopesMatch(f, p) ==
    Scope[f] = PromptScope[p] \/ Scope[f] = Document \/ PromptScope[p] = Document

CodesOf(i) == {Code[f] : f \in runs[i].found}
OpenFindings == {f \in Findings : IsOpen(ledger[f])}

\* _record_matching_repair_runs: findings that run i of a responsible stage repairs.
RepairedBy(i) ==
    {f \in OpenFindings : /\ runs[i].prompt \in Stages[f]
                          /\ ledger[f].opened # i
                          /\ ScopesMatch(f, runs[i].prompt)
                          /\ i \notin ledger[f].repairs}

\* record_targeted_repair goes by the code alone.
TargetedBy(i) ==
    {f \in OpenFindings : Code[f] \in CodesOf(i) /\ i \notin ledger[f].repairs}

\* Mutant of AbsentIn: whether the review still reports the code is not asked.
AbsentOrNot(i) ==
    {f \in OpenFindings : /\ Reviewer[f] = runs[i].prompt
                          /\ ScopesMatch(f, runs[i].prompt)
                          /\ ledger[f].repairs # {} /\ i \notin ledger[f].repairs}

\* _verify_absent_findings: repaired findings that review i no longer reports.
AbsentIn(i) ==
    {f \in OpenFindings : /\ Reviewer[f] = runs[i].prompt
                          /\ Code[f] \notin CodesOf(i)
                          /\ ScopesMatch(f, runs[i].prompt)
                          /\ ledger[f].repairs # {} /\ i \notin ledger[f].repairs}

Todo(phase, i) ==
    CASE phase = "repair" -> RepairedBy(i)
      [] phase = "targeted" -> TargetedBy(i)
      [] phase = "absent" -> AbsentIn(i)
      [] phase = "record" -> runs[i].found

-----------------------------------------------------------------------------
AllIdle == \A a \in Actors : work[a] = Idle
Admitted(a) == work[a] = Idle /\ (Serial => AllIdle)

At(a, step) == work[a].phase # "idle" /\ work[a].step = step
Begin(a, phase, i) == work' = [work EXCEPT ![a] = [Idle EXCEPT !.phase = phase, !.run = i]]

\* observe_prompt_result: only a PASS counts as a repair.
FirstPhase(pass) == IF pass THEN "repair" ELSE "absent"

NewRun(a, prompt, found, pass, phase) ==
    /\ Admitted(a) /\ Len(runs) < MaxRuns
    /\ runs' = Append(runs, [prompt |-> prompt, found |-> found, pass |-> pass])
    /\ Begin(a, phase, Len(runs) + 1)
    /\ UNCHANGED <<ledger, recorded, crashes>>

\* The result of a prompt reaches _observe_quality_result.
Observe(p) ==
    /\ \E found \in SUBSET {f \in Findings : p \in Finders[f]}, pass \in BOOLEAN :
           NewRun(Loop, p, found, pass, FirstPhase(pass))
    /\ resume' = 0

\* The step is executed again after a restart and is given its committed run.
ObserveAgain ==
    /\ resume # 0 /\ Admitted(Loop)
    /\ Begin(Loop, FirstPhase(runs[resume].pass), resume)
    /\ resume' = 0
    /\ UNCHANGED <<ledger, runs, recorded, crashes>>

\* _auto_repair of what is repairable in the last review has passed.
RepairTargeted ==
    /\ runs # <<>> /\ Len(runs) \in recorded
    /\ LET review == runs[Len(runs)] IN
         /\ review.prompt \in Repairing /\ ~review.pass
         /\ \E repairable \in (SUBSET review.found) \ {{}} :
                NewRun(Loop, TargetedRepair, repairable, TRUE, "targeted")
    /\ UNCHANGED resume

\* ingest_delivery_findings.
Ingest(t) ==
    /\ \E found \in SUBSET {f \in Findings : Validator \in Finders[f]} :
           NewRun(t, Validator, found, found = {}, "record")
    /\ UNCHANGED resume

\* One read of the ledger settles what the phase is about.
Enter(a) ==
    /\ At(a, "enter")
    /\ work' = [work EXCEPT ![a] = [@ EXCEPT !.step = "choose", !.snap = ledger,
                                             !.todo = Todo(work[a].phase, work[a].run)]]
    /\ UNCHANGED <<ledger, runs, resume, recorded, crashes>>

\* _append_repair.
WithRepair(r, i) == [r EXCEPT !.state = "REPAIR_RECORDED", !.repairs = @ \cup {i}]

\* verify_finding.
WithReview(r, i) == [r EXCEPT !.state = "VERIFIED", !.reviews = @ \cup {i}]

\* Mutant of NewLifecycle: the lists of evidence are left for later.
BareLifecycle(i) == [version |-> 0, state |-> "OPEN", opened |-> i, seen |-> {i}]

NewLifecycle(i) ==
    [version |-> 0, state |-> "OPEN", opened |-> i, seen |-> {i}, repairs |-> {}, reviews |-> {}]

\* Mutants of WithSighting: a closed finding is refreshed, an open one started anew.
SightingRefreshes(r, i) ==
    IF r # NoRow THEN [r EXCEPT !.seen = @ \cup {i}] ELSE NewLifecycle(i)
SightingStartsAnew(r, i) == NewLifecycle(i)

\* _open_or_refresh: a finding that is still open keeps its evidence.
WithSighting(r, i) ==
    IF IsOpen(r) THEN [r EXCEPT !.state = "OPEN", !.seen = @ \cup {i}] ELSE NewLifecycle(i)

\* The draft starts from the phase's snapshot (repairs) or from another read.
DraftOf(f, w) ==
    CASE w.phase \in {"repair", "targeted"} -> WithRepair(w.snap[f], w.run)
      [] w.phase = "absent" -> WithReview(ledger[f], w.run)
      [] w.phase = "record" -> WithSighting(ledger[f], w.run)

\* Mutant of Verifiable: verify_finding trusts its caller.
Trusted(f, i) == TRUE
\* verify_finding's own conditions on what it reads.
Verifiable(f, i) == ledger[f].repairs # {} /\ i \notin ledger[f].repairs

Draft(a) ==
    /\ At(a, "choose")
    /\ \E f \in work[a].todo :
         /\ work[a].phase = "absent" => Verifiable(f, work[a].run)
         /\ work' = [work EXCEPT ![a] = [work[a] EXCEPT !.step = "number", !.target = f,
                        !.todo = work[a].todo \ {f}, !.draft = DraftOf(f, work[a])]]
    /\ UNCHANGED <<ledger, runs, resume, recorded, crashes>>

\* verify_finding raises out of the observation.
Raise(a) ==
    /\ At(a, "choose") /\ work[a].phase = "absent"
    /\ \E f \in work[a].todo : ~Verifiable(f, work[a].run)
    /\ work' = [work EXCEPT ![a] = Idle]
    /\ UNCHANGED <<ledger, runs, resume, recorded, crashes>>

\* _persist, first half: the next version is one above the latest.
Number(a) ==
    /\ At(a, "number")
    /\ work' = [work EXCEPT ![a] = [@ EXCEPT !.step = "insert",
                                             !.draft.version = ledger[work[a].target].version + 1]]
    /\ UNCHANGED <<ledger, runs, resume, recorded, crashes>>

\* _persist, second half.  _latest prefers the higher version and, of two equal
\* ones, the one inserted later.
Insert(a) ==
    /\ At(a, "insert")
    /\ LET f == work[a].target  draft == work[a].draft IN
         ledger' = IF draft.version >= ledger[f].version
                   THEN [ledger EXCEPT ![f] = draft] ELSE ledger
    /\ work' = [work EXCEPT ![a] = [@ EXCEPT !.step = "choose", !.target = NoFinding,
                                             !.draft = NoRow]]
    /\ UNCHANGED <<runs, resume, recorded, crashes>>

NextPhase == [repair |-> "absent", absent |-> "record", record |-> "idle", targeted |-> "idle"]

Continue(a) ==
    /\ At(a, "choose") /\ work[a].todo = {}
    /\ LET next == NextPhase[work[a].phase] IN
         IF next = "idle"
         THEN work' = [work EXCEPT ![a] = Idle] /\ recorded' = recorded \cup {work[a].run}
         ELSE Begin(a, next, work[a].run) /\ UNCHANGED recorded
    /\ UNCHANGED <<ledger, runs, resume, crashes>>

\* The process dies.  The workflow may have to execute its last prompt again,
\* and is then given the run it has already committed.
PromptRuns == {i \in DOMAIN runs : runs[i].prompt \in Prompts}
Crash ==
    /\ crashes < MaxCrashes /\ crashes' = crashes + 1
    /\ work' = [a \in Actors |-> Idle]
    /\ resume' \in {i \in PromptRuns \cup {0} : \A j \in PromptRuns : j <= i}
    /\ UNCHANGED <<ledger, runs, recorded>>

Progress(a) == Enter(a) \/ Draft(a) \/ Raise(a) \/ Number(a) \/ Insert(a) \/ Continue(a)

Next ==
    \/ \E p \in Prompts : Observe(p)
    \/ ObserveAgain \/ RepairTargeted
    \/ \E t \in Threads : Ingest(t)
    \/ \E a \in Actors : Progress(a)
    \/ Crash

Spec == Init /\ [][Next]_vars
-----------------------------------------------------------------------------
(***************************************************************************)
(* Properties                                                              *)
(***************************************************************************)

Clean(v, f) == runs[v].prompt = Reviewer[f] /\ Code[f] \notin CodesOf(v)

\* A finding is closed only by a run of the critic its route names, which does
\* not report it and is none of the runs that repaired it, and never without a repair.
IndependentReview ==
    \A f \in Findings : ledger[f].state = "VERIFIED" =>
        /\ ledger[f].repairs # {}
        /\ \E v \in ledger[f].reviews \cap DOMAIN runs : Clean(v, f) /\ v \notin ledger[f].repairs

Sightings(f) ==
    {i \in recorded : f \in runs[i].found /\ runs[i].prompt # TargetedRepair}

\* That review came after a repair and after every run known to have reported
\* the finding: whatever is reported later is open again.  The exception needs a
\* crash: a review that the restarted workflow observes again also closes what
\* delivery validation has reported in between.
ClosedByLaterReview ==
    \A f \in Findings : ledger[f].state = "VERIFIED" =>
        \E v \in ledger[f].reviews :
            /\ Clean(v, f)
            /\ \E k \in ledger[f].repairs : k < v
            /\ \A s \in Sightings(f) : s < v \/ (crashes > 0 /\ runs[s].prompt = Validator)

\* While a finding is open, no version of it loses a sighting or a repair that
\* an earlier one had.
NothingLost ==
    [][\A f \in Findings : IsOpen(ledger[f]) =>
          /\ ledger[f].seen \subseteq ledger'[f].seen
          /\ ledger[f].repairs \subseteq ledger'[f].repairs]_vars

\* A finding that its stage has repaired and its critic has then found gone does
\* not stay open: nothing else could ever close it, and it blocks the workflow.
Addressed(f) ==
    \E k, v \in recorded :
        /\ runs[k].prompt \in Stages[f] /\ runs[k].pass
        /\ k < v /\ Clean(v, f)
        /\ \A s \in ledger[f].seen : s < k
Reported(f) == Finders[f] \subseteq Prompts
NoneStranded ==
    AllIdle => \A f \in Findings :
        Reported(f) /\ ledger[f] # NoRow /\ Addressed(f) => ~IsOpen(ledger[f])

=============================================================================
