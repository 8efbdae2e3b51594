------------------------- MODULE QualityLedgerProofs -------------------------
(***************************************************************************)
(* What holds of the ledger whatever overlaps, crashes or is written late, *)
(* and what holds besides of clients that have one request at a time.      *)
(***************************************************************************)
EXTENDS QualityLedger, TLAPS

\* Row r of finding f is closed by the evidence of a repair and of another run
\* of its critic that does not report it.
Reviewed(f, r) ==
    r.state = "VERIFIED" =>
        /\ r.repairs # {}
        /\ \E v \in r.reviews \cap DOMAIN runs : Clean(v, f) /\ v \notin r.repairs

\* The row an actor is about to insert is as good as those in the ledger, and
\* the findings it is about to close are gone from the run it observes.
Sound(w) ==
    /\ w.phase # "idle" => w.run \in DOMAIN runs
    /\ w.step \in {"number", "insert"} => w.target \in Findings /\ Reviewed(w.target, w.draft)
    /\ w.phase = "absent" => \A f \in w.todo : Clean(w.run, f)

IInv ==
    /\ TypeOK
    /\ \A f \in Findings : Reviewed(f, ledger[f])
    /\ \A a \in Actors : Sound(work[a])

\* The row of no finding and the work of an idle actor are of their types.
LEMMA IdleWorks == NoRow \in Rows /\ Idle \in Works
<1>1. NoRow \in Rows
  BY LedgerAssumption DEF NoRow, Rows, States, RunIds
<1>2. [f \in Findings |-> NoRow] \in [Findings -> Rows]
  BY <1>1
<1> QED
  BY <1>1, <1>2, LedgerAssumption DEF Idle, Works, Phases, Steps

\* So is work that starts a phase on a run.
LEMMA BegunWorks ==
    ASSUME NEW w \in Works, NEW phase \in Phases, NEW i \in 0 .. MaxRuns
    PROVE  [w EXCEPT !.phase = phase, !.run = i] \in Works
  BY DEF Works

\* The three ways a row is changed.
LEMMA ChangedRows ==
    ASSUME NEW r \in Rows, NEW i \in RunIds
    PROVE  /\ WithRepair(r, i) \in Rows /\ WithRepair(r, i).state = "REPAIR_RECORDED"
           /\ WithReview(r, i) \in Rows
           /\ WithReview(r, i).repairs = r.repairs /\ i \in WithReview(r, i).reviews
           /\ WithSighting(r, i) \in Rows /\ WithSighting(r, i).state = "OPEN"
<1>1. WithRepair(r, i) \in Rows /\ WithRepair(r, i).state = "REPAIR_RECORDED"
  BY DEF Rows, States, WithRepair
<1>2. /\ WithReview(r, i) \in Rows
      /\ WithReview(r, i).repairs = r.repairs /\ i \in WithReview(r, i).reviews
  BY DEF Rows, States, WithReview
<1>3. NewLifecycle(i) \in Rows /\ NewLifecycle(i).state = "OPEN"
  BY LedgerAssumption DEF NewLifecycle, Rows, States, RunIds
<1>4. /\ [r EXCEPT !.state = "OPEN", !.seen = @ \cup {i}] \in Rows
      /\ [r EXCEPT !.state = "OPEN", !.seen = @ \cup {i}].state = "OPEN"
  BY DEF Rows, States
<1>5. WithSighting(r, i) \in Rows /\ WithSighting(r, i).state = "OPEN"
  BY <1>3, <1>4 DEF WithSighting
<1> QED
  BY <1>1, <1>2, <1>5

\* And a row with its next version.
LEMMA NumberedRow ==
    ASSUME NEW r \in Rows, NEW n \in Nat
    PROVE  /\ [r EXCEPT !.version = n] \in Rows /\ [r EXCEPT !.version = n].state = r.state
           /\ [r EXCEPT !.version = n].repairs = r.repairs
           /\ [r EXCEPT !.version = n].reviews = r.reviews
  BY DEF Rows

\* And the run that Add appends.
LEMMA RunTyped ==
    ASSUME TypeOK, NEW i \in DOMAIN runs
    PROVE  /\ runs[i].prompt \in Prompts \cup {Validator, TargetedRepair}
           /\ runs[i].found \in SUBSET Findings /\ runs[i].pass \in BOOLEAN
<1> DEFINE R == [prompt : Prompts \cup {Validator, TargetedRepair},
                 found : SUBSET Findings, pass : BOOLEAN]
<1>1. \A r \in R : /\ r.prompt \in Prompts \cup {Validator, TargetedRepair}
                   /\ r.found \in SUBSET Findings /\ r.pass \in BOOLEAN
  OBVIOUS
<1>2. runs \in Seq(R)
  BY DEF TypeOK
<1> HIDE DEF R
<1> QED
  BY <1>1, <1>2

\* Nothing is working and nothing recorded in the beginning.
LEMMA InitIInv == Init => IInv
<1> SUFFICES ASSUME Init PROVE IInv
  OBVIOUS
<1>0. NoRow \in Rows /\ Idle \in Works
  BY IdleWorks
<1>1. TypeOK
  BY <1>0, LedgerAssumption DEF Init, TypeOK, Idle
<1>2. \A f \in Findings : Reviewed(f, ledger[f])
  BY DEF Init, Reviewed, NoRow
<1>3. \A a \in Actors : Sound(work[a])
  BY DEF Init, Sound, Idle
<1> QED
  BY <1>1, <1>2, <1>3 DEF IInv

\* A run that is added changes nothing about what earlier runs found.
LEMMA EarlierRuns ==
    ASSUME TypeOK, NEW run \in [prompt : Prompts \cup {Validator, TargetedRepair},
                                found : SUBSET Findings, pass : BOOLEAN],
           runs' = Append(runs, run)
    PROVE  /\ Len(runs') = Len(runs) + 1 /\ Len(runs) \in Nat
           /\ DOMAIN runs \subseteq DOMAIN runs'
           /\ Len(runs') \in DOMAIN runs'
           /\ \A i \in DOMAIN runs : runs'[i] = runs[i]
  BY DEF TypeOK

\* What was clean, reviewed or in work stays so when a run is added.
LEMMA KeptByNewRun ==
    ASSUME IInv, NEW run \in [prompt : Prompts \cup {Validator, TargetedRepair},
                              found : SUBSET Findings, pass : BOOLEAN],
           runs' = Append(runs, run)
    PROVE  /\ \A f \in Findings, i \in DOMAIN runs : Clean(i, f) => Clean(i, f)'
           /\ \A f \in Findings : \A r : Reviewed(f, r) => Reviewed(f, r)'
<1>0. /\ DOMAIN runs \subseteq DOMAIN runs'
      /\ \A i \in DOMAIN runs : runs'[i] = runs[i]
  BY EarlierRuns DEF IInv
<1>1. \A f \in Findings, i \in DOMAIN runs : Clean(i, f) => Clean(i, f)'
  BY <1>0 DEF Clean, CodesOf
<1>2. \A f \in Findings : \A r : Reviewed(f, r) => Reviewed(f, r)'
  BY <1>0, <1>1 DEF Reviewed
<1> QED
  BY <1>1, <1>2

\* Every way to start on a new run.
LEMMA NewRunIInv ==
    ASSUME IInv, NEW a \in Actors, NEW prompt \in Prompts \cup {Validator, TargetedRepair},
           NEW found \in SUBSET Findings, NEW pass \in BOOLEAN, NEW phase \in Phases,
           NewRun(a, prompt, found, pass, phase), resume' \in {0, resume}
    PROVE  IInv'
<1> DEFINE run == [prompt |-> prompt, found |-> found, pass |-> pass]
<1>0. /\ runs' = Append(runs, run) /\ Len(runs) < MaxRuns
      /\ work' = [work EXCEPT ![a] = [Idle EXCEPT !.phase = phase, !.run = Len(runs) + 1]]
      /\ UNCHANGED <<ledger, recorded, crashes>>
  BY DEF NewRun, Begin
<1>1. /\ Len(runs') = Len(runs) + 1 /\ Len(runs) \in Nat
      /\ DOMAIN runs \subseteq DOMAIN runs'
      /\ Len(runs') \in DOMAIN runs'
      /\ \A i \in DOMAIN runs : runs'[i] = runs[i]
  BY <1>0, EarlierRuns DEF IInv
<1>2. /\ \A f \in Findings, i \in DOMAIN runs : Clean(i, f) => Clean(i, f)'
      /\ \A f \in Findings : \A r : Reviewed(f, r) => Reviewed(f, r)'
  BY <1>0, KeptByNewRun
<1>3. [Idle EXCEPT !.phase = phase, !.run = Len(runs) + 1] \in Works
  <2>1. Len(runs) + 1 \in 0 .. MaxRuns
    BY <1>0, <1>1, LedgerAssumption
  <2> QED
    BY <2>1, IdleWorks, BegunWorks
<1>4. TypeOK'
  <2>1. /\ ledger' \in [Findings -> Rows]
        /\ runs' \in Seq([prompt : Prompts \cup {Validator, TargetedRepair},
                          found : SUBSET Findings, pass : BOOLEAN])
        /\ Len(runs') <= MaxRuns
        /\ crashes' \in 0 .. MaxCrashes
    BY <1>0, <1>1, LedgerAssumption DEF IInv, TypeOK
  <2>2. work' \in [Actors -> Works]
    BY <1>0, <1>3 DEF IInv, TypeOK
  <2>3. \A b \in Actors : work'[b].run <= Len(runs')
    <3> TAKE b \in Actors
    <3>1. CASE b = a
      BY <3>1, <1>0, <1>1 DEF IInv, TypeOK, Idle
    <3>2. CASE b # a
      BY <3>2, <1>0, <1>1 DEF IInv, TypeOK, Works
    <3> QED
      BY <3>1, <3>2
  <2>4. resume' \in 0 .. Len(runs') /\ recorded' \subseteq DOMAIN runs'
    BY <1>0, <1>1 DEF IInv, TypeOK
  <2> QED
    BY <2>1, <2>2, <2>3, <2>4 DEF TypeOK
<1>5. \A f \in Findings : Reviewed(f, ledger[f])'
  BY <1>0, <1>2 DEF IInv
<1>6. ASSUME NEW b \in Actors PROVE Sound(work[b])'
  <2>1. CASE b = a
    BY <2>1, <1>0, <1>1 DEF Sound, Idle, IInv, TypeOK
  <2>2. CASE b # a
    <3>1. work'[b] = work[b]
      BY <2>2, <1>0 DEF IInv, TypeOK
    <3> QED
      BY <3>1, <1>1, <1>2 DEF IInv, TypeOK, Sound, Works
  <2> QED
    BY <2>1, <2>2
<1> QED
  BY <1>4, <1>5, <1>6 DEF IInv

\* Every other step of one actor leaves the runs alone.
LEMMA SameRunsIInv ==
    ASSUME IInv, NEW a \in Actors, NEW w \in Works,
           work' = [work EXCEPT ![a] = w], w.run <= Len(runs), Sound(w),
           ledger' \in [Findings -> Rows], \A f \in Findings : Reviewed(f, ledger'[f]),
           recorded' \subseteq DOMAIN runs, resume' \in {0, resume}, UNCHANGED <<runs, crashes>>
    PROVE  IInv'
<1>1. TypeOK'
  <2>1. work' \in [Actors -> Works] /\ \A b \in Actors : work'[b].run <= Len(runs')
    BY DEF IInv, TypeOK
  <2> QED
    BY <2>1 DEF IInv, TypeOK
<1>2. \A f \in Findings : Reviewed(f, ledger[f])'
  BY DEF Reviewed, Clean, CodesOf
<1>3. ASSUME NEW b \in Actors PROVE Sound(work[b])'
  <2>1. work'[b] = w \/ work'[b] = work[b]
    BY DEF IInv, TypeOK
  <2>2. Sound(work'[b])
    BY <2>1 DEF IInv
  <2> QED
    BY <2>2 DEF Sound, Reviewed, Clean, CodesOf
<1> QED
  BY <1>1, <1>2, <1>3 DEF IInv

\* An observation starts, or starts again, on a run that is there.
LEMMA BeginIInv ==
    ASSUME IInv, NEW a \in Actors, NEW phase \in Phases, NEW i \in DOMAIN runs,
           Begin(a, phase, i), resume' \in {0, resume}, UNCHANGED <<ledger, runs, recorded, crashes>>
    PROVE  IInv'
<1> DEFINE w == [Idle EXCEPT !.phase = phase, !.run = i]
<1>1. w \in Works /\ w.run <= Len(runs)
  <2>1. i \in 0 .. MaxRuns /\ i <= Len(runs)
    BY LedgerAssumption DEF IInv, TypeOK
  <2> QED
    BY <2>1, IdleWorks, BegunWorks DEF Works
<1>2. Sound(w)
  BY DEF Sound, Idle
<1> HIDE DEF w
<1>3. work' = [work EXCEPT ![a] = w]
  BY DEF Begin, w
<1> QED
  BY <1>1, <1>2, <1>3, SameRunsIInv DEF IInv, TypeOK

\* An actor enters a phase: what the phase is about has been read from sound rows.
LEMMA EnterIInv == ASSUME IInv, NEW a \in Actors, Enter(a) PROVE IInv'
<1> DEFINE todo == Todo(work[a].phase, work[a].run)
           w == [work[a] EXCEPT !.step = "choose", !.snap = ledger, !.todo = todo]
<1>0. work[a] \in Works /\ work[a].phase \in Phases \ {"idle"} /\ work[a].run \in DOMAIN runs
  BY DEF IInv, TypeOK, Enter, At, Works, Sound
<1>1. todo \in SUBSET Findings
  <2>1. runs[work[a].run].found \in SUBSET Findings
    BY <1>0, RunTyped DEF IInv
  <2> QED
    BY <1>0, <2>1 DEF Todo, RepairedBy, TargetedBy, AbsentIn, OpenFindings, Phases
<1>2. work[a].phase = "absent" => \A f \in todo : Clean(work[a].run, f)
  BY DEF Todo, AbsentIn, Clean
<1> HIDE DEF todo
<1>3. w \in Works /\ w.run = work[a].run /\ w.phase = work[a].phase /\ w.todo = todo /\ w.step = "choose"
  BY <1>0, <1>1 DEF Works, Steps, IInv, TypeOK
<1>4. Sound(w)
  BY <1>0, <1>2, <1>3 DEF Sound
<1>5. work' = [work EXCEPT ![a] = w] /\ UNCHANGED <<ledger, runs, resume, recorded, crashes>>
  BY DEF Enter, todo
<1> HIDE DEF w
<1> QED
  BY <1>3, <1>4, <1>5, SameRunsIInv DEF IInv, TypeOK

\* A draft: repairs and sightings never close, and a review closes what it was
\* found clean of, on rereading that another run has repaired it.
LEMMA DraftIInv == ASSUME IInv, NEW a \in Actors, Draft(a) PROVE IInv'
<1> PICK f \in work[a].todo :
      /\ work[a].phase = "absent" => Verifiable(f, work[a].run)
      /\ work' = [work EXCEPT ![a] = [work[a] EXCEPT !.step = "number", !.target = f,
                     !.todo = work[a].todo \ {f}, !.draft = DraftOf(f, work[a])]]
  BY DEF Draft
<1> DEFINE i == work[a].run
           draft == DraftOf(f, work[a])
           w == [work[a] EXCEPT !.step = "number", !.target = f,
                                !.todo = work[a].todo \ {f}, !.draft = draft]
<1>0. /\ work[a] \in Works /\ work[a].phase \in Phases \ {"idle"}
      /\ i \in DOMAIN runs /\ i \in RunIds
      /\ f \in Findings /\ ledger[f] \in Rows /\ work[a].snap[f] \in Rows
  BY LedgerAssumption DEF IInv, TypeOK, Draft, At, Works, Sound, RunIds
<1>1. draft \in Rows /\ Reviewed(f, draft)
  <2>1. CASE work[a].phase \in {"repair", "targeted"}
    <3>1. draft = WithRepair(work[a].snap[f], i)
      BY <2>1 DEF DraftOf
    <3> QED
      BY <3>1, <1>0, ChangedRows DEF Reviewed
  <2>2. CASE work[a].phase = "absent"
    <3>1. draft = WithReview(ledger[f], i)
      BY <2>2 DEF DraftOf
    <3>2. Clean(i, f) /\ ledger[f].repairs # {} /\ i \notin ledger[f].repairs
      BY <2>2 DEF IInv, Sound, Verifiable
    <3> QED
      BY SMTT(20), <3>1, <3>2, <1>0, ChangedRows DEF Reviewed
  <2>3. CASE work[a].phase = "record"
    <3>1. draft = WithSighting(ledger[f], i)
      BY <2>3 DEF DraftOf
    <3> QED
      BY <3>1, <1>0, ChangedRows DEF Reviewed
  <2> QED
    BY <2>1, <2>2, <2>3, <1>0 DEF Phases
<1> HIDE DEF draft
<1>2. /\ w \in Works /\ w.run = work[a].run /\ w.phase = work[a].phase
      /\ w.todo \subseteq work[a].todo /\ w.target = f /\ w.draft = draft
  BY <1>0, <1>1 DEF Works, Steps
<1>3. Sound(w)
  BY <1>0, <1>1, <1>2 DEF Sound, IInv
<1>4. work' = [work EXCEPT ![a] = w]
  BY DEF draft
<1>5. UNCHANGED <<ledger, runs, resume, recorded, crashes>>
  BY DEF Draft
<1> HIDE DEF w
<1> QED
  BY <1>2, <1>3, <1>4, <1>5, SameRunsIInv DEF IInv, TypeOK

\* An actor raises: it drops its work.
LEMMA RaiseIInv == ASSUME IInv, NEW a \in Actors, Raise(a) PROVE IInv'
<1>1. Idle \in Works /\ Idle.run <= Len(runs) /\ Sound(Idle)
  BY IdleWorks DEF Idle, Sound, IInv, TypeOK
<1>2. work' = [work EXCEPT ![a] = Idle] /\ UNCHANGED <<ledger, runs, resume, recorded, crashes>>
  BY DEF Raise
<1> QED
  BY <1>1, <1>2, SameRunsIInv DEF IInv, TypeOK

\* The version is read again; the row keeps its evidence.
LEMMA NumberIInv == ASSUME IInv, NEW a \in Actors, Number(a) PROVE IInv'
<1> DEFINE draft == [work[a].draft EXCEPT !.version = ledger[work[a].target].version + 1]
           w == [work[a] EXCEPT !.step = "insert", !.draft = draft]
<1>0. work[a] \in Works /\ work[a].step = "number" /\ work[a].target \in Findings
  BY DEF IInv, TypeOK, Number, At, Sound
<1>1. /\ draft \in Rows /\ draft.state = work[a].draft.state
      /\ draft.repairs = work[a].draft.repairs /\ draft.reviews = work[a].draft.reviews
  <2>1. work[a].draft \in Rows /\ ledger[work[a].target] \in Rows
    BY <1>0 DEF Works, IInv, TypeOK
  <2>2. ledger[work[a].target].version + 1 \in Nat
    BY <2>1 DEF Rows
  <2> QED
    BY <2>1, <2>2, NumberedRow
<1>2. work' = [work EXCEPT ![a] = w] /\ UNCHANGED <<ledger, runs, resume, recorded, crashes>>
  BY <1>0 DEF Number
<1> HIDE DEF draft
<1>3. /\ w \in Works /\ w.run = work[a].run /\ w.phase = work[a].phase
      /\ w.todo = work[a].todo /\ w.target = work[a].target /\ w.draft = draft
  BY <1>0, <1>1 DEF Works, Steps
<1> HIDE DEF w
<1>4. Sound(w)
  BY <1>0, <1>1, <1>3 DEF Sound, Reviewed, IInv
<1> QED
  BY <1>2, <1>3, <1>4, SameRunsIInv DEF IInv, TypeOK

\* A sound row is inserted.
LEMMA InsertIInv == ASSUME IInv, NEW a \in Actors, Insert(a) PROVE IInv'
<1> DEFINE w == [work[a] EXCEPT !.step = "choose", !.target = NoFinding, !.draft = NoRow]
<1>0. work[a] \in Works /\ work[a].step = "insert" /\ work[a].target \in Findings
  BY DEF IInv, TypeOK, Insert, At, Sound
<1>1. /\ ledger' \in [Findings -> Rows]
      /\ \A f \in Findings : Reviewed(f, ledger'[f])
  <2>1. work[a].draft \in Rows /\ Reviewed(work[a].target, work[a].draft)
    BY <1>0 DEF Works, IInv, Sound
  <2> QED
    BY <1>0, <2>1 DEF Insert, IInv, TypeOK
<1>2. /\ w \in Works /\ w.run = work[a].run /\ w.phase = work[a].phase
      /\ w.todo = work[a].todo /\ w.step = "choose"
  BY <1>0, IdleWorks DEF Works, Steps
<1>3. work' = [work EXCEPT ![a] = w] /\ UNCHANGED <<runs, resume, recorded, crashes>>
  BY DEF Insert
<1> HIDE DEF w
<1>4. Sound(w)
  BY <1>2 DEF Sound, IInv
<1> QED
  BY <1>1, <1>2, <1>3, <1>4, SameRunsIInv DEF IInv, TypeOK

\* An actor goes on to the next phase of its observation.
LEMMA ContinueIInv == ASSUME IInv, NEW a \in Actors, Continue(a) PROVE IInv'
<1> DEFINE next == NextPhase[work[a].phase]
<1>0. work[a].phase \in Phases \ {"idle"} /\ work[a].run \in DOMAIN runs
  BY DEF IInv, TypeOK, Continue, At, Works, Sound
<1>1. next \in Phases
  BY <1>0 DEF NextPhase, Phases
<1>2. CASE next = "idle"
  <2>1. Idle \in Works /\ Idle.run <= Len(runs) /\ Sound(Idle)
    BY IdleWorks DEF Idle, Sound, IInv, TypeOK
  <2>2. /\ work' = [work EXCEPT ![a] = Idle] /\ recorded' = recorded \cup {work[a].run}
        /\ UNCHANGED <<ledger, runs, resume, crashes>>
    BY <1>2 DEF Continue
  <2> QED
    BY <1>0, <2>1, <2>2, SameRunsIInv DEF IInv, TypeOK
<1>3. CASE next # "idle"
  <2>1. Begin(a, next, work[a].run) /\ UNCHANGED <<ledger, runs, resume, recorded, crashes>>
    BY <1>3 DEF Continue
  <2> QED
    BY <1>0, <1>1, <2>1, BeginIInv
<1> QED
  BY <1>2, <1>3

\* A crash leaves the ledger and drops all work.
LEMMA CrashIInv == ASSUME IInv, Crash PROVE IInv'
<1>1. TypeOK'
  <2>1. work' \in [Actors -> Works] /\ \A b \in Actors : work'[b].run <= Len(runs')
    BY IdleWorks DEF Crash, Idle, IInv, TypeOK
  <2>2. resume' \in 0 .. Len(runs') /\ crashes' \in 0 .. MaxCrashes
    BY LedgerAssumption DEF Crash, PromptRuns, IInv, TypeOK
  <2> QED
    BY <2>1, <2>2 DEF Crash, IInv, TypeOK
<1>2. \A f \in Findings : Reviewed(f, ledger[f])'
  BY DEF Crash, IInv, Reviewed, Clean, CodesOf
<1>3. \A a \in Actors : Sound(work[a])'
  BY DEF Crash, Sound, Idle
<1> QED
  BY <1>1, <1>2, <1>3 DEF IInv

\* Every step keeps the invariant.
LEMMA NextIInv == ASSUME IInv, [Next]_vars PROVE IInv'
<1>1. ASSUME NEW p \in Prompts, Observe(p) PROVE IInv'
  <2> PICK found \in SUBSET Findings, pass \in BOOLEAN :
        NewRun(Loop, p, found, pass, FirstPhase(pass))
    BY <1>1 DEF Observe
  <2> QED
    BY <1>1, NewRunIInv DEF Observe, FirstPhase, Phases, Actors
<1>2. CASE ObserveAgain
  <2>1. resume \in DOMAIN runs
    BY <1>2 DEF ObserveAgain, IInv, TypeOK
  <2>2. FirstPhase(runs[resume].pass) \in Phases
    BY DEF FirstPhase, Phases
  <2>3. resume' = 0 /\ UNCHANGED <<ledger, runs, recorded, crashes>>
    BY <1>2 DEF ObserveAgain
  <2>4. Begin(Loop, FirstPhase(runs[resume].pass), resume) /\ Loop \in Actors
    BY <1>2 DEF ObserveAgain, Actors
  <2> QED
    BY <2>1, <2>2, <2>3, <2>4, BeginIInv
<1>3. CASE RepairTargeted
  <2>1. runs[Len(runs)].found \in SUBSET Findings
    BY <1>3, RunTyped DEF RepairTargeted, IInv, TypeOK
  <2> PICK repairable \in SUBSET Findings :
        NewRun(Loop, TargetedRepair, repairable, TRUE, "targeted") /\ resume' = resume
    BY <1>3, <2>1 DEF RepairTargeted
  <2> QED
    BY NewRunIInv DEF Phases, Actors
<1>4. ASSUME NEW t \in Threads, Ingest(t) PROVE IInv'
  <2> PICK found \in SUBSET Findings : NewRun(t, Validator, found, found = {}, "record")
    BY <1>4 DEF Ingest
  <2> QED
    BY <1>4, NewRunIInv DEF Ingest, Phases, Actors
<1>5. ASSUME NEW a \in Actors, Progress(a) PROVE IInv'
  BY <1>5, EnterIInv, DraftIInv, RaiseIInv, NumberIInv, InsertIInv, ContinueIInv DEF Progress
<1>6. CASE Crash
  BY <1>6, CrashIInv
<1>7. CASE UNCHANGED vars
  BY <1>7 DEF vars, IInv, TypeOK, Sound, Reviewed, Clean, CodesOf
<1> QED
  BY <1>1, <1>2, <1>3, <1>4, <1>5, <1>6, <1>7 DEF Next

\* The inductive invariant: whatever rows are in the ledger, in the snapshots
\* and drafts of actors, a row that closes a finding carries its evidence.
THEOREM LedgerInductive == Spec => []IInv
  BY InitIInv, NextIInv, PTL DEF Spec

\* The variables have their types.
THEOREM LedgerTyped == Spec => []TypeOK
<1>1. IInv => TypeOK
  BY DEF IInv
<1> QED
  BY <1>1, LedgerInductive, PTL

\* However submissions and observations overlap, and wherever the process dies,
\* no finding is closed without a repair and a different, clean run of its critic.
THEOREM ReviewIndependent == Spec => []IndependentReview
<1>1. IInv => IndependentReview
  BY DEF IInv, IndependentReview, Reviewed
<1> QED
  BY <1>1, LedgerInductive, PTL
-----------------------------------------------------------------------------
(***************************************************************************)
(* One request at a time.  Nothing in the code enforces it; what follows   *)
(* holds of clients that keep it.                                          *)
(***************************************************************************)

\* No run of a prompt is later than run i.
Last(i) == \A j \in PromptRuns : j <= i

\* A run reports what its prompt reports; a targeted repair takes up what the review
\* right before it has found; and it is the last run of a prompt that is observed again.
Ordered ==
    /\ \A i \in DOMAIN runs :
          /\ runs[i].prompt # TargetedRepair =>
                \A f \in runs[i].found : runs[i].prompt \in Finders[f]
          /\ runs[i].prompt = TargetedRepair =>
                i - 1 \in PromptRuns /\ runs[i].found \subseteq runs[i - 1].found
    /\ resume # 0 => resume \in PromptRuns /\ Last(resume)
    /\ crashes = 0 => resume = 0

\* Only one actor is at work, on the last run, or on the last of a prompt once more.
Alone == \A a, b \in Actors : a = b \/ work[a] = Idle \/ work[b] = Idle
Due(w) ==
    w.phase # "idle" =>
        /\ w.phase \in {"repair", "absent"} => w.run \in PromptRuns
        /\ w.phase = "targeted" <=> runs[w.run].prompt = TargetedRepair
        /\ w.run \in PromptRuns => Last(w.run)
        /\ crashes = 0 => w.run = Len(runs)

\* What the actor has read still stands in the ledger, so the row it is about to insert
\* is the change its phase makes of the latest one.
Alike(r, s) ==
    /\ r.state = s.state /\ r.opened = s.opened /\ r.seen = s.seen
    /\ r.repairs = s.repairs /\ r.reviews = s.reviews
Changed(phase, r, i) ==
    CASE phase \in {"repair", "targeted"} -> WithRepair(r, i)
      [] phase = "absent" -> WithReview(r, i)
      [] phase = "record" -> WithSighting(r, i)
Target(w) == IF w.step \in {"number", "insert"} THEN {w.target} ELSE {}
Fresh(w) ==
    /\ w.phase # "idle" /\ w.step # "enter" =>
          /\ w.todo \cup Target(w) \subseteq Todo(w.phase, w.run)
          /\ \A f \in w.todo : w.snap[f] = ledger[f]
    /\ w.step \in {"number", "insert"} =>
          w.target \notin w.todo /\ Alike(w.draft, Changed(w.phase, ledger[w.target], w.run))
    /\ w.step = "insert" => w.draft.version = ledger[w.target].version + 1

\* Nothing the phase is about is left out.
Complete(w) ==
    w.phase # "idle" /\ w.step # "enter" =>
        Todo(w.phase, w.run) \subseteq
            w.todo \cup Target(w) \cup (IF w.phase = "record" THEN OpenFindings ELSE {})

\* The evidence of row r of finding f while it is open.
Evidence(f, r) ==
    IsOpen(r) =>
        /\ \A k \in r.repairs :
              \/ k \in PromptRuns /\ runs[k].prompt \in Stages[f]
              \/ k \in DOMAIN runs /\ runs[k].prompt = TargetedRepair /\ Code[f] \in CodesOf(k)
        /\ r.opened \in r.seen
        /\ \A s \in r.seen :
              s \in DOMAIN runs /\ f \in runs[s].found /\ runs[s].prompt # TargetedRepair

\* What ClosedByLaterReview says of a row that closes.
ClosedLater(f, r) ==
    r.state = "VERIFIED" =>
        \E v \in r.reviews :
            /\ v \in DOMAIN runs /\ Clean(v, f)
            /\ \E k \in r.repairs : k < v
            /\ \A s \in Sightings(f) : s < v \/ (crashes > 0 /\ runs[s].prompt = Validator)

\* Run i is past some phases of its observation.
Past(i, phases) == i \in recorded \/ \E a \in Actors : work[a].run = i /\ work[a].phase \in phases
\* Run k is a repair of a stage after the row was last seen.
Repairer(k, f, r) ==
    /\ k \in PromptRuns /\ runs[k].prompt \in Stages[f] /\ runs[k].pass
    /\ \A s \in r.seen : s < k

\* The prompts a finding is sent to run in its scope, and its reviewer is none of them.
Routable(f) ==
    /\ Reported(f) /\ Reviewer[f] \notin Stages[f]
    /\ \A p \in Stages[f] \cup {Reviewer[f]} : ScopesMatch(f, p)

\* An open row has the repairs of the stages that ran since it was last seen, and no
\* review of its critic came after one of them.
Repaired(f, r) ==
    IsOpen(r) => \A k \in PromptRuns :
        Repairer(k, f, r) /\ Past(k, {"absent", "record"}) => k \in r.repairs
Unreviewed(f, r) ==
    IsOpen(r) => \A k \in recorded, v \in PromptRuns :
        ~(Repairer(k, f, r) /\ k < v /\ Clean(v, f) /\ Past(v, {"record"}))

Working == Alone /\ \A a \in Actors : Due(work[a]) /\ Fresh(work[a]) /\ Complete(work[a])
Closed == \A f \in Findings : Evidence(f, ledger[f]) /\ ClosedLater(f, ledger[f])
Waiting ==
    \A f \in Findings : Routable(f) => Repaired(f, ledger[f]) /\ Unreviewed(f, ledger[f])
SerialInv == IInv /\ Ordered /\ Working /\ Closed /\ Waiting

-----------------------------------------------------------------------------
(* Frames                                                                   *)

\* What is said of runs, and of rows by their runs, stands while the runs do.
LEMMA RunsSame ==
    ASSUME UNCHANGED runs
    PROVE  /\ PromptRuns' = PromptRuns /\ \A i : Last(i)' <=> Last(i)
           /\ \A f, i : Clean(i, f)' <=> Clean(i, f)
           /\ \A f, r : Evidence(f, r)' <=> Evidence(f, r)
           /\ \A k, f, r : Repairer(k, f, r)' <=> Repairer(k, f, r)
<1>1. PromptRuns' = PromptRuns
  BY DEF PromptRuns
<1>2. \A i : CodesOf(i)' = CodesOf(i)
  BY DEF CodesOf
<1>3. \A f, i : Clean(i, f)' <=> Clean(i, f)
  BY <1>2 DEF Clean
<1>4. \A i : Last(i)' <=> Last(i)
  BY <1>1 DEF Last
<1>5. \A f, r : Evidence(f, r)' <=> Evidence(f, r)
  BY <1>1, <1>2 DEF Evidence
<1>6. \A k, f, r : Repairer(k, f, r)' <=> Repairer(k, f, r)
  BY <1>1 DEF Repairer
<1> QED
  BY <1>1, <1>3, <1>4, <1>5, <1>6

\* What is said of closed rows depends on what was recorded besides.
LEMMA RunsKept ==
    ASSUME UNCHANGED <<runs, recorded, crashes>>
    PROVE  /\ PromptRuns' = PromptRuns /\ \A i : Last(i)' <=> Last(i)
           /\ \A f, i : Clean(i, f)' <=> Clean(i, f)
           /\ \A f, r : Evidence(f, r)' <=> Evidence(f, r)
           /\ \A f, r : ClosedLater(f, r)' <=> ClosedLater(f, r)
           /\ \A k, f, r : Repairer(k, f, r)' <=> Repairer(k, f, r)
<1>1. \A f : Sightings(f)' = Sightings(f)
  BY DEF Sightings
<1>2. \A f, r : ClosedLater(f, r)' <=> ClosedLater(f, r)
  BY <1>1, RunsSame DEF ClosedLater
<1> QED
  BY <1>2, RunsSame

\* What a phase is about stands while runs and ledger do.
LEMMA TodoKept ==
    ASSUME UNCHANGED <<ledger, runs>>
    PROVE  OpenFindings' = OpenFindings /\ \A phase, i : Todo(phase, i)' = Todo(phase, i)
<1>1. OpenFindings' = OpenFindings
  BY DEF OpenFindings
<1>2. \A i : CodesOf(i)' = CodesOf(i)
  BY DEF CodesOf
<1>3. \A i : RepairedBy(i)' = RepairedBy(i)
  BY <1>1 DEF RepairedBy
<1>4. \A i : TargetedBy(i)' = TargetedBy(i)
  BY <1>1, <1>2 DEF TargetedBy
<1>5. \A i : AbsentIn(i)' = AbsentIn(i)
  BY <1>1, <1>2 DEF AbsentIn
<1>6. \A phase, i : Todo(phase, i)' = Todo(phase, i)
  BY <1>3, <1>4, <1>5 DEF Todo
<1> QED
  BY <1>1, <1>6

\* So does what is said of an actor's work.
LEMMA WorkKept ==
    ASSUME UNCHANGED <<ledger, runs, recorded, crashes>>, NEW w, Due(w), Fresh(w), Complete(w)
    PROVE  Due(w)' /\ Fresh(w)' /\ Complete(w)'
<1>1. Due(w)'
  BY RunsKept DEF Due
<1>2. Fresh(w)'
  BY TodoKept DEF Fresh, Alike
<1>3. Complete(w)'
  BY TodoKept DEF Complete
<1> QED
  BY <1>1, <1>2, <1>3

\* Nothing is due of an actor that is idle.
LEMMA IdleWork == Due(Idle) /\ Fresh(Idle) /\ Complete(Idle)
BY DEF Due, Fresh, Complete, Idle

\* When one actor's work changes and no other is at work, that one is what matters.
LEMMA OneWorks ==
    ASSUME IInv, Working, NEW a \in Actors, work[a] # Idle \/ AllIdle, NEW w,
           work' = [work EXCEPT ![a] = w], Due(w)', Fresh(w)', Complete(w)'
    PROVE  Working'
<1>1. \A b \in Actors : work'[b] = IF b = a THEN w ELSE Idle
  BY DEF Working, Alone, AllIdle, IInv, TypeOK
<1>2. Due(Idle)' /\ Fresh(Idle)' /\ Complete(Idle)'
  BY DEF Due, Fresh, Complete, Idle
<1>3. ASSUME NEW b \in Actors PROVE (Due(work[b]) /\ Fresh(work[b]) /\ Complete(work[b]))'
  <2>1. CASE b = a
    BY <1>1, <2>1 DEF Due, Fresh, Complete
  <2>2. CASE b # a
    BY <1>1, <1>2, <2>2 DEF Due, Fresh, Complete
  <2> QED
    BY <2>1, <2>2
<1>4. Alone'
  BY <1>1 DEF Alone, Idle
<1> QED
  BY <1>3, <1>4 DEF Working

\* A step that writes no row and gets no run further keeps what holds of the rows.
LEMMA RowsKept ==
    ASSUME Closed, Waiting, UNCHANGED <<ledger, runs, recorded, crashes>>,
           \A i : Past(i, {"absent", "record"})' => Past(i, {"absent", "record"}),
           \A i : Past(i, {"record"})' => Past(i, {"record"})
    PROVE  Closed' /\ Waiting'
<1>1. Closed'
  BY RunsKept DEF Closed
<1>2. \A f \in Findings : Repaired(f, ledger[f]) => Repaired(f, ledger[f])'
  BY RunsKept DEF Repaired
<1>3. \A f \in Findings : Unreviewed(f, ledger[f]) => Unreviewed(f, ledger[f])'
  BY RunsKept DEF Unreviewed
<1> QED
  BY <1>1, <1>2, <1>3 DEF Waiting

-----------------------------------------------------------------------------
(* One step at a time                                                       *)

\* It holds of the empty ledger.
LEMMA InitSerial == ASSUME Init PROVE SerialInv
<1>1. IInv
  BY InitIInv
<1>2. Ordered
  BY DEF Init, Ordered
<1>3. Working
  BY IdleWork DEF Init, Working, Alone
<1>4. Closed /\ Waiting
  BY DEF Init, Closed, Waiting, Evidence, ClosedLater, Repaired, Unreviewed, NoRow, IsOpen
<1> QED
  BY <1>1, <1>2, <1>3, <1>4 DEF SerialInv

\* A run is added, of a prompt, of a validation, or of a targeted repair of what the last
\* review has found.
LEMMA NewRunSerial ==
    ASSUME SerialInv, Serial, NEW a \in Actors,
           NEW prompt \in Prompts \cup {Validator, TargetedRepair},
           NEW found \in SUBSET Findings, NEW pass \in BOOLEAN, NEW phase \in Phases \ {"idle"},
           NewRun(a, prompt, found, pass, phase),
           prompt \in Prompts => resume' = 0 /\ phase = FirstPhase(pass),
           prompt \notin Prompts => resume' = resume /\ phase \in {"targeted", "record"},
           phase = "targeted" <=> prompt = TargetedRepair,
           prompt # TargetedRepair => \A f \in found : prompt \in Finders[f],
           prompt = TargetedRepair =>
               Len(runs) \in PromptRuns /\ found \subseteq runs[Len(runs)].found
    PROVE  SerialInv'
<1> DEFINE run == [prompt |-> prompt, found |-> found, pass |-> pass]
<1> PICK n : n = Len(runs) + 1
  OBVIOUS
<1> PICK w : w = [Idle EXCEPT !.phase = phase, !.run = n]
  OBVIOUS
<1>0. /\ runs' = Append(runs, run) /\ AllIdle
      /\ work' = [work EXCEPT ![a] = w]
      /\ UNCHANGED <<ledger, recorded, crashes>>
  BY DEF NewRun, Begin, Admitted
<1>1. /\ n \in Nat /\ Len(runs') = n /\ DOMAIN runs' = DOMAIN runs \cup {n} /\ DOMAIN runs = 1 .. (n - 1)
      /\ runs'[n].prompt = prompt /\ runs'[n].found = found /\ runs'[n].pass = pass
      /\ \A i \in DOMAIN runs : runs'[i] = runs[i]
  BY <1>0 DEF SerialInv, IInv, TypeOK
<1>2. IInv'
  BY NewRunIInv DEF SerialInv
<1>3. PromptRuns' = PromptRuns \cup (IF prompt \in Prompts THEN {n} ELSE {})
  BY <1>1 DEF PromptRuns
<1>4. \A i \in DOMAIN runs : /\ i \in Nat /\ n # i /\ i < n /\ CodesOf(i)' = CodesOf(i)
                             /\ \A f : Clean(i, f)' <=> Clean(i, f)
  BY <1>1 DEF CodesOf, Clean
<1>5. prompt = TargetedRepair => prompt \notin Prompts
  BY LedgerAssumption
<1>6. recorded \subseteq DOMAIN runs /\ PromptRuns \subseteq DOMAIN runs
  BY DEF SerialInv, IInv, TypeOK, PromptRuns
<1>13. w.phase = phase /\ w.run = n /\ w.step = "enter"
  BY DEF Idle
<1> HIDE DEF run
<1>7. Ordered'
  <2>1. ASSUME NEW i \in DOMAIN runs'
        PROVE  /\ runs'[i].prompt # TargetedRepair =>
                     \A f \in runs'[i].found : runs'[i].prompt \in Finders[f]
               /\ runs'[i].prompt = TargetedRepair =>
                     i - 1 \in PromptRuns' /\ runs'[i].found \subseteq runs'[i - 1].found
    <3>1. CASE i = n
      <4>1. CASE prompt = TargetedRepair
        <5>1. Len(runs) \in PromptRuns /\ found \subseteq runs[Len(runs)].found
          BY <4>1
        <5>2. n - 1 = Len(runs)
          BY DEF SerialInv, IInv, TypeOK
        <5>3. n - 1 \in PromptRuns' /\ runs'[n - 1] = runs[n - 1]
          BY <1>1, <1>3, <1>6, <5>1, <5>2
        <5> QED
          BY <1>1, <3>1, <4>1, <5>1, <5>2, <5>3
      <4>2. CASE prompt # TargetedRepair
        BY <1>1, <3>1, <4>2
      <4> QED
        BY <4>1, <4>2
    <3>2. CASE i \in DOMAIN runs
      BY <1>1, <1>3, <1>6, <3>2 DEF SerialInv, Ordered
    <3> QED
      BY <1>1, <3>1, <3>2
  <2>2. resume' # 0 => resume' \in PromptRuns' /\ Last(resume)'
    BY <1>3 DEF SerialInv, Ordered, Last
  <2>3. crashes' = 0 => resume' = 0
    BY <1>0 DEF SerialInv, Ordered
  <2> QED
    BY <2>1, <2>2, <2>3 DEF Ordered
<1>8. Working'
  <2>2. Fresh(w)' /\ Complete(w)'
    BY <1>13 DEF Fresh, Complete
  <2>3. Due(w)'
    <3>1. phase \in {"repair", "absent"} => n \in PromptRuns'
      BY <1>3
    <3>2. Last(n)'
      <4>1. \A j \in PromptRuns' : j = n \/ j \in DOMAIN runs
        BY <1>3, <1>6
      <4> QED
        BY <1>1, <1>4, <4>1 DEF Last
    <3>3. runs'[n].prompt = prompt
      BY <1>1
    <3> QED
      BY <1>1, <1>13, <3>1, <3>2, <3>3 DEF Due
  <2> QED
    BY <1>0, <2>2, <2>3, OneWorks DEF SerialInv
<1>9. Closed'
  <2> SUFFICES ASSUME NEW f \in Findings
               PROVE  Evidence(f, ledger[f])' /\ ClosedLater(f, ledger[f])'
    BY DEF Closed
  <2>1. Evidence(f, ledger[f])'
    BY <1>0, <1>1, <1>3, <1>4, <1>6 DEF SerialInv, Closed, Evidence
  <2>2. Sightings(f)' = Sightings(f)
    BY <1>0, <1>1, <1>6 DEF Sightings
  <2>3. \A s \in Sightings(f) : s \in DOMAIN runs
    BY <1>6 DEF Sightings
  <2>4. ClosedLater(f, ledger[f])'
    BY <1>0, <1>1, <1>4, <2>2, <2>3 DEF SerialInv, Closed, ClosedLater
  <2> QED
    BY <2>1, <2>4
<1>10. ASSUME NEW i \in PromptRuns', NEW phases, Past(i, phases)', phases \subseteq {"absent", "record"}
       PROVE  (i \in recorded) \/ (i = n /\ phase \in phases)
  <2>1. \A b \in Actors : work'[b] = IF b = a THEN w ELSE Idle
    BY <1>0 DEF AllIdle, SerialInv, IInv, TypeOK
  <2>2. Idle.phase \notin phases
    BY <1>10 DEF Idle
  <2> QED
    BY <1>0, <1>10, <1>13, <2>1, <2>2 DEF Past
<1>11. \A i \in recorded : \A f, r : Repairer(i, f, r)' <=> Repairer(i, f, r)
  BY <1>1, <1>3, <1>4, <1>6 DEF Repairer
<1>12. Waiting'
  <2> SUFFICES ASSUME NEW f \in Findings, Routable(f)
               PROVE  Repaired(f, ledger[f])' /\ Unreviewed(f, ledger[f])'
    BY DEF Waiting, Routable, Reported
  <2>1. Repaired(f, ledger[f])'
    <3> SUFFICES ASSUME IsOpen(ledger[f]), NEW k \in PromptRuns', Repairer(k, f, ledger[f])',
                        Past(k, {"absent", "record"})'
                 PROVE  k \in ledger[f].repairs
      BY <1>0 DEF Repaired
    <3>1. CASE k \in recorded
      <4>1. k \in PromptRuns /\ Repairer(k, f, ledger[f]) /\ Past(k, {"absent", "record"})
        BY <1>0, <1>3, <1>4, <1>6, <1>11, <3>1 DEF Past
      <4> QED
        BY <4>1 DEF SerialInv, Waiting, Repaired
    <3>2. CASE k = n /\ phase \in {"absent", "record"}
      <4>1. prompt \in Prompts /\ pass
        BY <1>1, <1>3, <1>4, <1>6, <3>2 DEF Repairer
      <4> QED
        BY <3>2, <4>1 DEF FirstPhase
    <3> QED
      BY <1>10, <3>1, <3>2
  <2>2. Unreviewed(f, ledger[f])'
    <3> SUFFICES ASSUME IsOpen(ledger[f]), NEW k \in recorded, NEW v \in PromptRuns',
                        Repairer(k, f, ledger[f])', k < v, Clean(v, f)', Past(v, {"record"})'
                 PROVE  FALSE
      BY <1>0 DEF Unreviewed
    <3>1. CASE v \in recorded
      BY <1>0, <1>3, <1>4, <1>6, <1>11, <3>1 DEF SerialInv, Waiting, Unreviewed, Past
    <3>2. CASE v = n /\ phase = "record"
      <4>1. prompt \in Prompts
        BY <1>3, <1>4, <1>6, <3>2
      <4> QED
        BY <3>2, <4>1 DEF FirstPhase
    <3> QED
      BY <1>10, <3>1, <3>2
  <2> QED
    BY <2>1, <2>2
<1> QED
  BY <1>2, <1>7, <1>8, <1>9, <1>12 DEF SerialInv

\* An observation starts on a run, or goes on to its next phase.
LEMMA BeginSerial ==
    ASSUME SerialInv, IInv', NEW a \in Actors, work[a] # Idle \/ AllIdle,
           NEW phase \in Phases \ {"idle"}, NEW i \in DOMAIN runs, Begin(a, phase, i),
           UNCHANGED <<ledger, runs, recorded, crashes>>, resume' \in {0, resume},
           Due([Idle EXCEPT !.phase = phase, !.run = i]),
           \A f \in Findings : Routable(f) => Repaired(f, ledger[f])' /\ Unreviewed(f, ledger[f])'
    PROVE  SerialInv'
<1> PICK w : w = [Idle EXCEPT !.phase = phase, !.run = i]
  OBVIOUS
<1>1. w.step = "enter" /\ Due(w)
  BY DEF Idle
<1>2. Fresh(w) /\ Complete(w)
  BY <1>1 DEF Fresh, Complete
<1>3. Due(w)' /\ Fresh(w)' /\ Complete(w)'
  BY <1>1, <1>2, WorkKept
<1>4. work' = [work EXCEPT ![a] = w]
  BY DEF Begin
<1>5. Working'
  BY <1>3, <1>4, OneWorks DEF SerialInv
<1>6. Ordered'
  BY RunsKept DEF SerialInv, Ordered
<1>7. Closed'
  BY RunsKept DEF SerialInv, Closed
<1>8. Waiting'
  BY DEF Waiting, Routable, Reported
<1> QED
  BY <1>5, <1>6, <1>7, <1>8 DEF SerialInv

\* The last run is observed again.
LEMMA AgainSerial == ASSUME SerialInv, IInv', Serial, ObserveAgain PROVE SerialInv'
<1> PICK phase : phase = FirstPhase(runs[resume].pass)
  OBVIOUS
<1>0. /\ resume # 0 /\ resume' = 0 /\ AllIdle /\ Loop \in Actors /\ Begin(Loop, phase, resume)
      /\ UNCHANGED <<ledger, runs, recorded, crashes>>
  BY DEF ObserveAgain, Admitted, Actors
<1> PICK i : i = resume
  OBVIOUS
<1>1. i \in PromptRuns /\ Last(i) /\ i \in DOMAIN runs /\ crashes # 0
  BY <1>0 DEF SerialInv, Ordered, PromptRuns
<1>2. phase \in {"repair", "absent"} /\ (phase = "absent" => ~runs[i].pass)
  BY DEF FirstPhase
<1> PICK w : w = [Idle EXCEPT !.phase = phase, !.run = i]
  OBVIOUS
<1>3. w.phase = phase /\ w.run = i
  BY DEF Idle
<1>4. Due(w)
  <2>1. runs[i].prompt # TargetedRepair
    BY <1>1, LedgerAssumption DEF PromptRuns
  <2> QED
    BY <1>1, <1>2, <1>3, <2>1 DEF Due
<1>5. ASSUME NEW j, NEW phases, Past(j, phases)', phases \subseteq {"absent", "record"}
      PROVE  j \in recorded \/ (j = i /\ phase \in phases)
  <2>1. \A b \in Actors : work'[b] = IF b = Loop THEN w ELSE Idle
    BY <1>0 DEF AllIdle, Begin, SerialInv, IInv, TypeOK
  <2>2. Idle.phase \notin phases
    BY <1>5 DEF Idle
  <2> QED
    BY <1>0, <1>3, <1>5, <2>1, <2>2 DEF Past
<1>6. ASSUME NEW f \in Findings, Routable(f)
      PROVE  Repaired(f, ledger[f])' /\ Unreviewed(f, ledger[f])'
  <2>1. Repaired(f, ledger[f])'
    <3> SUFFICES ASSUME IsOpen(ledger[f]), NEW k \in PromptRuns, Repairer(k, f, ledger[f]),
                        Past(k, {"absent", "record"})'
                 PROVE  k \in ledger[f].repairs
      BY <1>0, RunsKept DEF Repaired
    <3>1. k \in recorded
      BY <1>2, <1>5 DEF Repairer
    <3> QED
      BY <1>6, <3>1 DEF SerialInv, Waiting, Repaired, Past
  <2>2. Unreviewed(f, ledger[f])'
    <3> SUFFICES ASSUME IsOpen(ledger[f]), NEW k \in recorded, NEW v \in PromptRuns,
                        Repairer(k, f, ledger[f]), k < v, Clean(v, f), Past(v, {"record"})'
                 PROVE  FALSE
      BY <1>0, RunsKept DEF Unreviewed
    <3>1. v \in recorded
      BY <1>2, <1>5
    <3> QED
      BY <1>6, <3>1 DEF SerialInv, Waiting, Unreviewed, Past
  <2> QED
    BY <2>1, <2>2
<1>7. Due([Idle EXCEPT !.phase = phase, !.run = i]) /\ Begin(Loop, phase, i)
  BY <1>0, <1>4
<1> QED
  BY <1>0, <1>1, <1>2, <1>6, <1>7, BeginSerial DEF Phases

\* A step of one actor that reads, drafts or gives up writes nothing and is past nothing.
LEMMA ReadingSerial ==
    ASSUME SerialInv, IInv', NEW a \in Actors, work[a] # Idle, NEW w,
           work' = [work EXCEPT ![a] = w],
           (w.run = work[a].run /\ w.phase = work[a].phase) \/ w = Idle,
           UNCHANGED <<ledger, runs, resume, recorded, crashes>>,
           Due(w), Fresh(w), Complete(w)
    PROVE  SerialInv'
<1>1. Working'
  <2>1. Due(w)' /\ Fresh(w)' /\ Complete(w)'
    BY WorkKept
  <2> QED
    BY <2>1, OneWorks DEF SerialInv
<1>2. Ordered'
  BY RunsKept DEF SerialInv, Ordered
<1>3. \A i : Past(i, {"absent", "record"})' => Past(i, {"absent", "record"})
  BY DEF Past, Idle, SerialInv, IInv, TypeOK
<1>4. \A i : Past(i, {"record"})' => Past(i, {"record"})
  BY DEF Past, Idle, SerialInv, IInv, TypeOK
<1>5. Closed' /\ Waiting'
  BY <1>3, <1>4, RowsKept DEF SerialInv
<1> QED
  BY <1>1, <1>2, <1>5 DEF SerialInv

\* Entering a phase: what it is about is all that is due, since no other request writes.
LEMMA EnterSerial == ASSUME SerialInv, IInv', NEW a \in Actors, Enter(a) PROVE SerialInv'
<1> PICK w : w = [work[a] EXCEPT !.step = "choose", !.snap = ledger,
                                 !.todo = Todo(work[a].phase, work[a].run)]
  OBVIOUS
<1>0. work[a] \in Works /\ work[a].phase # "idle" /\ work[a] # Idle
  BY DEF Enter, At, Idle, SerialInv, IInv, TypeOK
<1>1. /\ work' = [work EXCEPT ![a] = w]
      /\ UNCHANGED <<ledger, runs, resume, recorded, crashes>>
  BY DEF Enter
<1>2. /\ w.phase = work[a].phase /\ w.run = work[a].run /\ w.step = "choose"
      /\ w.snap = ledger /\ w.todo = Todo(w.phase, w.run)
  BY <1>0 DEF Works
<1>3. Due(w)
  BY <1>2 DEF SerialInv, Working, Due
<1>4. Fresh(w) /\ Complete(w)
  BY <1>2 DEF Fresh, Complete, Target
<1> QED
  BY <1>0, <1>1, <1>2, <1>3, <1>4, ReadingSerial

\* Drafting: the row is the change of the latest one that its phase makes.
LEMMA DraftSerial == ASSUME SerialInv, IInv', NEW a \in Actors, Draft(a) PROVE SerialInv'
<1> PICK f \in work[a].todo :
      work' = [work EXCEPT ![a] = [work[a] EXCEPT !.step = "number", !.target = f,
                  !.todo = work[a].todo \ {f}, !.draft = DraftOf(f, work[a])]]
  BY DEF Draft
<1> PICK w : w = [work[a] EXCEPT !.step = "number", !.target = f,
                      !.todo = work[a].todo \ {f}, !.draft = DraftOf(f, work[a])]
  OBVIOUS
<1>0. /\ work[a] \in Works /\ work[a].phase \in Phases \ {"idle"} /\ work[a] # Idle
      /\ work[a].step = "choose"
  BY DEF Draft, At, Idle, SerialInv, IInv, TypeOK, Works
<1>1. /\ work' = [work EXCEPT ![a] = w]
      /\ UNCHANGED <<ledger, runs, resume, recorded, crashes>>
  BY DEF Draft
<1>2. /\ w.phase = work[a].phase /\ w.run = work[a].run /\ w.step = "number" /\ w.target = f
      /\ w.todo = work[a].todo \ {f} /\ w.draft = DraftOf(f, work[a]) /\ w.snap = work[a].snap
  BY <1>0 DEF Works
<1>3. Due(w)
  BY <1>2 DEF SerialInv, Working, Due
<1>4. /\ work[a].todo \subseteq Todo(w.phase, w.run)
      /\ \A g \in work[a].todo : work[a].snap[g] = ledger[g]
      /\ Complete(work[a])
  BY <1>0, <1>2 DEF SerialInv, Working, Fresh
<1>5. DraftOf(f, work[a]) = Changed(w.phase, ledger[f], w.run)
  BY <1>0, <1>2, <1>4 DEF DraftOf, Changed, Phases
<1>6. Fresh(w)
  BY <1>2, <1>4, <1>5 DEF Fresh, Target, Alike
<1>7. Complete(w)
  BY <1>0, <1>2, <1>4 DEF Complete, Target
<1> QED
  BY <1>0, <1>1, <1>2, <1>3, <1>6, <1>7, ReadingSerial

\* Raising: the work is dropped with nothing written.
LEMMA RaiseSerial == ASSUME SerialInv, IInv', NEW a \in Actors, Raise(a) PROVE SerialInv'
<1>1. work[a] # Idle
  BY DEF Raise, At, Idle
<1> PICK w : w = Idle
  OBVIOUS
<1>2. Due(w) /\ Fresh(w) /\ Complete(w)
  BY IdleWork
<1>3. work' = [work EXCEPT ![a] = w] /\ UNCHANGED <<ledger, runs, resume, recorded, crashes>>
  BY DEF Raise
<1> QED
  BY <1>1, <1>2, <1>3, ReadingSerial

\* Numbering: the version read is that of the latest row.
LEMMA NumberSerial == ASSUME SerialInv, IInv', NEW a \in Actors, Number(a) PROVE SerialInv'
<1> PICK d : d = [work[a].draft EXCEPT !.version = ledger[work[a].target].version + 1]
  OBVIOUS
<1> PICK w : w = [work[a] EXCEPT !.step = "insert", !.draft = d]
  OBVIOUS
<1>0. /\ work[a] \in Works /\ work[a].phase # "idle" /\ work[a] # Idle /\ work[a].step = "number"
      /\ work[a].draft \in Rows
  BY DEF Number, At, Idle, SerialInv, IInv, TypeOK, Works
<1>1. /\ work' = [work EXCEPT ![a] = w]
      /\ UNCHANGED <<ledger, runs, resume, recorded, crashes>>
  BY <1>0 DEF Number
<1>2. /\ w.phase = work[a].phase /\ w.run = work[a].run /\ w.step = "insert"
      /\ w.target = work[a].target /\ w.todo = work[a].todo /\ w.draft = d /\ w.snap = work[a].snap
  BY <1>0 DEF Works
<1>3. d.version = ledger[w.target].version + 1 /\ Alike(d, work[a].draft)
  BY <1>0, <1>2 DEF Rows, Alike
<1>4. Due(w) /\ Complete(w)
  BY <1>0, <1>2 DEF SerialInv, Working, Due, Complete, Target
<1>5. Fresh(w)
  <2>1. Fresh(work[a])
    BY DEF SerialInv, Working
  <2>2. Target(w) = Target(work[a])
    BY <1>0, <1>2 DEF Target
  <2>3. /\ w.todo \cup Target(w) \subseteq Todo(w.phase, w.run)
        /\ \A f \in w.todo : w.snap[f] = ledger[f]
        /\ w.target \notin w.todo
    BY <1>0, <1>2, <2>1, <2>2 DEF Fresh
  <2>4. Alike(work[a].draft, Changed(w.phase, ledger[w.target], w.run))
    BY <1>0, <1>2, <2>1 DEF Fresh
  <2>5. Alike(d, Changed(w.phase, ledger[w.target], w.run))
    BY <1>3, <2>4 DEF Alike
  <2> QED
    BY <1>2, <1>3, <2>3, <2>5 DEF Fresh
<1> QED
  BY <1>0, <1>1, <1>2, <1>4, <1>5, ReadingSerial

\* What a change makes of a row that its phase is about.
LEMMA ChangedHow ==
    ASSUME NEW r \in Rows, NEW i \in RunIds
    PROVE  /\ \A phase \in {"repair", "targeted"} :
                 LET s == Changed(phase, r, i) IN
                 /\ s.state = "REPAIR_RECORDED" /\ s.opened = r.opened /\ s.seen = r.seen
                 /\ s.repairs = r.repairs \cup {i} /\ s.reviews = r.reviews
           /\ LET s == Changed("absent", r, i) IN
                 /\ s.state = "VERIFIED" /\ s.opened = r.opened /\ s.seen = r.seen
                 /\ s.repairs = r.repairs /\ s.reviews = r.reviews \cup {i}
           /\ LET s == Changed("record", r, i) IN
                 /\ s.state = "OPEN" /\ i \in s.seen
                 /\ IsOpen(r) =>
                       /\ s.seen = r.seen \cup {i} /\ s.opened = r.opened /\ s.repairs = r.repairs
                 /\ ~IsOpen(r) => s.seen = {i} /\ s.opened = i /\ s.repairs = {}
<1>1. ASSUME NEW phase \in {"repair", "targeted"}
      PROVE  Changed(phase, r, i) = WithRepair(r, i)
  BY <1>1 DEF Changed
<1>2. Changed("absent", r, i) = WithReview(r, i) /\ Changed("record", r, i) = WithSighting(r, i)
  BY DEF Changed
<1>3. /\ WithRepair(r, i).state = "REPAIR_RECORDED" /\ WithRepair(r, i).opened = r.opened
      /\ WithRepair(r, i).seen = r.seen /\ WithRepair(r, i).repairs = r.repairs \cup {i}
      /\ WithRepair(r, i).reviews = r.reviews
  BY DEF WithRepair, Rows
<1>4. /\ WithReview(r, i).state = "VERIFIED" /\ WithReview(r, i).opened = r.opened
      /\ WithReview(r, i).seen = r.seen /\ WithReview(r, i).repairs = r.repairs
      /\ WithReview(r, i).reviews = r.reviews \cup {i}
  BY DEF WithReview, Rows
<1>5. CASE IsOpen(r)
  <2>1. WithSighting(r, i) = [r EXCEPT !.state = "OPEN", !.seen = @ \cup {i}]
    BY <1>5 DEF WithSighting
  <2> QED
    BY <1>1, <1>2, <1>3, <1>4, <1>5, <2>1 DEF Rows
<1>6. CASE ~IsOpen(r)
  <2>1. WithSighting(r, i) = NewLifecycle(i)
    BY <1>6 DEF WithSighting
  <2> QED
    BY <1>1, <1>2, <1>3, <1>4, <1>6, <2>1 DEF NewLifecycle
<1> QED
  BY <1>5, <1>6

\* What each phase is about.
LEMMA InTodo ==
    ASSUME NEW f \in Findings, NEW i, NEW phase \in Phases \ {"idle"}, f \in Todo(phase, i)
    PROVE  /\ phase \in {"repair", "targeted", "absent"} =>
                 IsOpen(ledger[f]) /\ i \notin ledger[f].repairs
           /\ phase = "repair" => runs[i].prompt \in Stages[f]
           /\ phase = "targeted" => Code[f] \in CodesOf(i)
           /\ phase = "absent" => Clean(i, f) /\ ledger[f].repairs # {}
           /\ phase = "record" => f \in runs[i].found
BY DEF Todo, RepairedBy, TargetedBy, AbsentIn, OpenFindings, Phases, Clean

\* What the row of one finding becomes is nothing to what a phase asks of another.
LEMMA TodoElse ==
    ASSUME UNCHANGED runs, NEW g \in Findings, ledger'[g] = ledger[g], NEW i, NEW phase \in Phases \ {"idle"}
    PROVE  /\ g \in Todo(phase, i) => g \in Todo(phase, i)'
           /\ g \in Todo(phase, i)' => g \in Todo(phase, i)
           /\ g \in OpenFindings => g \in OpenFindings'
<1>1. CodesOf(i)' = CodesOf(i)
  BY DEF CodesOf
<1>2. CASE phase = "repair"
  BY <1>2 DEF Todo, RepairedBy, OpenFindings
<1>3. CASE phase = "targeted"
  BY <1>1, <1>3 DEF Todo, TargetedBy, OpenFindings
<1>4. CASE phase = "absent"
  BY <1>1, <1>4 DEF Todo, AbsentIn, OpenFindings
<1>5. CASE phase = "record"
  BY <1>5 DEF Todo, OpenFindings
<1> QED
  BY <1>2, <1>3, <1>4, <1>5 DEF Phases

\* The row that is inserted has its evidence, and closes only what a later review allows.
LEMMA InsertedRow ==
    ASSUME SerialInv, NEW f \in Findings, NEW i \in DOMAIN runs, NEW phase \in Phases \ {"idle"},
           f \in Todo(phase, i), NEW d, Alike(d, Changed(phase, ledger[f], i)),
           phase \in {"repair", "absent"} => i \in PromptRuns,
           phase = "targeted" <=> runs[i].prompt = TargetedRepair,
           i \in PromptRuns => Last(i), crashes = 0 => i = Len(runs)
    PROVE  Evidence(f, d) /\ ClosedLater(f, d)
<1> PICK r : r = ledger[f]
  OBVIOUS
<1>0. /\ r \in Rows /\ i \in RunIds /\ i \in Nat /\ DOMAIN runs = 1 .. Len(runs)
      /\ Evidence(f, r)
      /\ PromptRuns \subseteq DOMAIN runs
  BY LedgerAssumption DEF SerialInv, IInv, TypeOK, RunIds, Closed, PromptRuns
<1>1. CASE phase \in {"repair", "targeted"}
  <2>1. /\ d.state = "REPAIR_RECORDED" /\ d.opened = r.opened /\ d.seen = r.seen
        /\ d.repairs = r.repairs \cup {i}
    BY <1>0, <1>1, ChangedHow DEF Alike
  <2>2. IsOpen(r) /\ (phase = "repair" => runs[i].prompt \in Stages[f])
        /\ (phase = "targeted" => Code[f] \in CodesOf(i))
    BY <1>1, InTodo
  <2>3. ClosedLater(f, d)
    BY <2>1 DEF ClosedLater
  <2>4. Evidence(f, d)
    BY <1>0, <1>1, <2>1, <2>2 DEF Evidence
  <2> QED
    BY <2>3, <2>4
<1>2. CASE phase = "absent"
  <2>1. /\ d.state = "VERIFIED" /\ d.repairs = r.repairs /\ i \in d.reviews
    BY <1>0, <1>2, ChangedHow DEF Alike
  <2>2. IsOpen(r) /\ i \notin r.repairs /\ Clean(i, f) /\ r.repairs # {}
    BY <1>2, InTodo
  <2>3. i \in PromptRuns /\ \A j \in PromptRuns : j <= i
    BY <1>2 DEF Last
  <2>4. \E k \in d.repairs : k < i
    <3>1. PICK k \in r.repairs : TRUE
      BY <2>2
    <3>2. k # i
      BY <2>2
    <3>3. CASE k \in PromptRuns
      BY <1>0, <2>1, <2>3, <3>1, <3>2, <3>3
    <3>4. CASE k \in DOMAIN runs /\ runs[k].prompt = TargetedRepair /\ Code[f] \in CodesOf(k)
      <4>1. k - 1 \in PromptRuns /\ runs[k].found \subseteq runs[k - 1].found
        BY <3>4 DEF SerialInv, Ordered
      <4>2. k - 1 # i
        <5>1. Code[f] \in CodesOf(k - 1)
          BY <3>4, <4>1 DEF CodesOf
        <5> QED
          BY <2>2, <5>1 DEF Clean
      <4>3. k - 1 <= i /\ k \in Nat
        BY <1>0, <2>3, <3>4, <4>1
      <4> QED
        BY <1>0, <2>1, <3>2, <4>2, <4>3
    <3> QED
      BY <1>0, <2>2, <3>1, <3>3, <3>4 DEF Evidence
  <2>5. ASSUME NEW s \in Sightings(f) PROVE s < i \/ (crashes > 0 /\ runs[s].prompt = Validator)
    <3>1. s \in DOMAIN runs /\ f \in runs[s].found /\ runs[s].prompt \in Prompts \cup {Validator}
      BY RunTyped DEF Sightings, SerialInv, IInv, TypeOK
    <3>2. s # i
      BY <2>2, <3>1 DEF Clean, CodesOf
    <3>3. CASE runs[s].prompt \in Prompts
      BY <1>0, <2>3, <3>1, <3>2, <3>3 DEF PromptRuns
    <3>4. CASE runs[s].prompt = Validator
      BY <1>0, <3>1, <3>2, <3>4, LedgerAssumption DEF SerialInv, IInv, TypeOK
    <3> QED
      BY <3>1, <3>3, <3>4
  <2> QED
    BY <2>1, <2>2, <2>4, <2>5 DEF ClosedLater, Evidence, IsOpen
<1>3. CASE phase = "record"
  <2>1. /\ d.state = "OPEN"
        /\ IsOpen(r) => d.seen = r.seen \cup {i} /\ d.opened = r.opened /\ d.repairs = r.repairs
        /\ ~IsOpen(r) => d.seen = {i} /\ d.opened = i /\ d.repairs = {}
    BY <1>0, <1>3, ChangedHow DEF Alike
  <2>2. f \in runs[i].found /\ runs[i].prompt # TargetedRepair
    BY <1>3, InTodo
  <2>3. ClosedLater(f, d)
    BY <2>1 DEF ClosedLater
  <2>4. Evidence(f, d)
    BY <1>0, <2>1, <2>2 DEF Evidence
  <2> QED
    BY <2>3, <2>4
<1> QED
  BY <1>1, <1>2, <1>3 DEF Phases

\* It is as much repaired, and as little reviewed, as the row before it.
LEMMA InsertedWaits ==
    ASSUME SerialInv, NEW f \in Findings, NEW i \in DOMAIN runs, NEW phase \in Phases \ {"idle"},
           f \in Todo(phase, i), NEW d, Alike(d, Changed(phase, ledger[f], i)),
           phase = "targeted" <=> runs[i].prompt = TargetedRepair,
           i \in PromptRuns => Last(i), Routable(f)
    PROVE  Repaired(f, d) /\ Unreviewed(f, d)
<1> PICK r : r = ledger[f]
  OBVIOUS
<1>0. /\ r \in Rows /\ i \in RunIds /\ i \in Nat /\ PromptRuns \subseteq Nat
      /\ Repaired(f, r) /\ Unreviewed(f, r)
  BY LedgerAssumption DEF SerialInv, IInv, TypeOK, RunIds, Waiting, PromptRuns
<1>1. CASE phase = "absent"
  <2>1. d.state = "VERIFIED"
    BY <1>0, <1>1, ChangedHow DEF Alike
  <2> QED
    BY <2>1 DEF Repaired, Unreviewed, IsOpen
<1>2. CASE phase # "absent" /\ IsOpen(r)
  <2>1. r.seen \subseteq d.seen /\ r.repairs \subseteq d.repairs
    <3>1. CASE phase \in {"repair", "targeted"}
      BY <1>0, <3>1, ChangedHow DEF Alike
    <3>2. CASE phase = "record"
      BY <1>0, <1>2, <3>2, ChangedHow DEF Alike
    <3> QED
      BY <1>2, <3>1, <3>2 DEF Phases
  <2>2. \A k : Repairer(k, f, d) => Repairer(k, f, r)
    BY <2>1 DEF Repairer
  <2> QED
    BY <1>0, <1>2, <2>1, <2>2 DEF Repaired, Unreviewed
<1>3. CASE phase # "absent" /\ ~IsOpen(r)
  <2>1. phase = "record"
    BY <1>3, InTodo DEF Phases
  <2>2. d.seen = {i}
    BY <1>0, <1>3, <2>1, ChangedHow DEF Alike
  <2>3. i \in PromptRuns
    <3>1. f \in runs[i].found /\ runs[i].prompt # TargetedRepair
      BY <2>1, InTodo
    <3>2. runs[i].prompt \in Finders[f] /\ Finders[f] \subseteq Prompts
      BY <3>1 DEF SerialInv, Ordered, Routable, Reported
    <3> QED
      BY <3>2 DEF PromptRuns
  <2>4. \A k \in PromptRuns : ~Repairer(k, f, d)
    BY <1>0, <2>2, <2>3 DEF Repairer, Last
  <2> QED
    BY <2>4 DEF Repaired, Unreviewed, Repairer
<1> QED
  BY <1>1, <1>2, <1>3

\* Inserting: the new latest row keeps its evidence, and others are untouched.
LEMMA InsertSerial == ASSUME SerialInv, IInv', NEW a \in Actors, Insert(a) PROVE SerialInv'
<1> PICK v : v = work[a]
  OBVIOUS
<1> PICK f : f = v.target
  OBVIOUS
<1> PICK d : d = v.draft
  OBVIOUS
<1> PICK w : w = [v EXCEPT !.step = "choose", !.target = NoFinding, !.draft = NoRow]
  OBVIOUS
<1>0. /\ v \in Works /\ v.phase \in Phases \ {"idle"} /\ v # Idle /\ v.step = "insert"
      /\ f \in Findings /\ v.run \in DOMAIN runs
  BY DEF Insert, At, Idle, SerialInv, IInv, TypeOK, Works, Sound
<1>1. Due(v) /\ Fresh(v) /\ Complete(v)
  BY DEF SerialInv, Working
<1>2. /\ f \in Todo(v.phase, v.run) /\ f \notin v.todo
      /\ Alike(d, Changed(v.phase, ledger[f], v.run))
      /\ d.version = ledger[f].version + 1
  BY <1>0, <1>1 DEF Fresh, Target
<1>3. /\ ledger' = [ledger EXCEPT ![f] = d] /\ work' = [work EXCEPT ![a] = w]
      /\ UNCHANGED <<runs, resume, recorded, crashes>>
  <2>1. ledger[f].version \in Nat
    BY <1>0 DEF SerialInv, IInv, TypeOK, Rows
  <2>2. d.version >= ledger[f].version
    BY <1>2, <2>1
  <2> QED
    BY <2>2 DEF Insert
<1>4. ledger'[f] = d /\ \A g \in Findings : g # f => ledger'[g] = ledger[g]
  BY <1>0, <1>3 DEF SerialInv, IInv, TypeOK
<1>5. /\ w.phase = v.phase /\ w.run = v.run /\ w.step = "choose" /\ w.todo = v.todo
      /\ w.snap = v.snap /\ Target(w) = {}
  BY <1>0 DEF Works, Target
<1>6. Ordered'
  BY <1>3, RunsKept DEF SerialInv, Ordered
<1>7. Working'
  <2>1. Due(w)'
    BY <1>1, <1>3, <1>5, RunsKept DEF Due
  <2>2. v.todo \in SUBSET Findings
    BY <1>0 DEF Works
  <2>3. Fresh(w)'
    <3>1. \A g \in v.todo : g \in Todo(v.phase, v.run)' /\ v.snap[g] = ledger'[g]
      <4> TAKE g \in v.todo
      <4>1. g \in Findings /\ g # f /\ ledger'[g] = ledger[g]
        BY <1>2, <1>4, <2>2
      <4>2. g \in Todo(v.phase, v.run) /\ v.snap[g] = ledger[g]
        BY <1>0, <1>1 DEF Fresh
      <4> QED
        BY <1>0, <1>3, <4>1, <4>2, TodoElse
    <3> QED
      BY <1>5, <3>1 DEF Fresh, Target
  <2>4. Complete(w)'
    <3> SUFFICES ASSUME NEW g \in Todo(v.phase, v.run)'
                 PROVE  g \in v.todo \/ (v.phase = "record" /\ g \in OpenFindings')
      BY <1>5 DEF Complete, Target
    <3>1. g \in Findings
      <4>1. runs[v.run].found \in SUBSET Findings
        BY <1>0, RunTyped DEF SerialInv, IInv
      <4> QED
        BY <1>0, <1>3, <4>1 DEF Todo, RepairedBy, TargetedBy, AbsentIn, OpenFindings, Phases
    <3>2. CASE g # f
      <4>1. g \in Todo(v.phase, v.run)
        BY <1>0, <1>3, <1>4, <3>1, <3>2, TodoElse
      <4>2. g \in v.todo \/ (v.phase = "record" /\ g \in OpenFindings)
        BY <1>0, <1>1, <3>2, <4>1 DEF Complete, Target
      <4> QED
        BY <1>0, <1>3, <1>4, <3>1, <3>2, <4>2, TodoElse
    <3>3. CASE g = f
      <4>0. ledger[f] \in Rows /\ v.run \in RunIds
        BY <1>0, LedgerAssumption DEF SerialInv, IInv, TypeOK, RunIds
      <4>1. CASE v.phase = "record"
        <5>1. d.state = "OPEN"
          BY <1>2, <4>0, <4>1, ChangedHow DEF Alike
        <5> QED
          BY <1>0, <1>4, <3>3, <4>1, <5>1 DEF OpenFindings, IsOpen
      <4>2. CASE v.phase = "absent"
        <5>1. d.state = "VERIFIED"
          BY <1>2, <4>0, <4>2, ChangedHow DEF Alike
        <5>2. IsOpen(d)
          BY <1>4, <3>3, <4>2 DEF Todo, AbsentIn, OpenFindings
        <5> QED
          BY <5>1, <5>2 DEF IsOpen
      <4>3. CASE v.phase \in {"repair", "targeted"}
        <5>1. v.run \in d.repairs
          BY <1>2, <4>0, <4>3, ChangedHow DEF Alike
        <5>2. v.run \notin d.repairs
          BY <1>4, <3>3, <4>3 DEF Todo, RepairedBy, TargetedBy
        <5> QED
          BY <5>1, <5>2
      <4> QED
        BY <1>0, <4>1, <4>2, <4>3 DEF Phases
    <3> QED
      BY <3>2, <3>3
  <2> QED
    BY <1>0, <1>3, <2>1, <2>3, <2>4, OneWorks DEF SerialInv
<1>8. Closed'
  <2> SUFFICES ASSUME NEW g \in Findings
               PROVE  Evidence(g, ledger[g])' /\ ClosedLater(g, ledger[g])'
    BY DEF Closed
  <2>1. CASE g = f
    <3>1. Evidence(f, d) /\ ClosedLater(f, d)
      BY <1>0, <1>1, <1>2, InsertedRow DEF Due
    <3>2. Evidence(f, d)' /\ ClosedLater(f, d)'
      BY <1>3, <3>1, RunsKept
    <3> QED
      BY <1>4, <2>1, <3>2 DEF Evidence, ClosedLater
  <2>2. CASE g # f
    <3>1. ledger'[g] = ledger[g] /\ Evidence(g, ledger[g]) /\ ClosedLater(g, ledger[g])
      BY <1>4, <2>2 DEF SerialInv, Closed
    <3> QED
      BY <1>3, <3>1, RunsKept
  <2> QED
    BY <2>1, <2>2
<1>9. Waiting'
  <2>1. \A k, phases : Past(k, phases)' <=> Past(k, phases)
    BY <1>3, <1>5 DEF Past, SerialInv, IInv, TypeOK
  <2>2. \A g, r : Repaired(g, r)' <=> Repaired(g, r)
    BY <1>3, <2>1, RunsKept DEF Repaired
  <2>3. \A g, r : Unreviewed(g, r)' <=> Unreviewed(g, r)
    BY <1>3, <2>1, RunsKept DEF Unreviewed
  <2>4. ASSUME NEW g \in Findings, Routable(g)
        PROVE  Repaired(g, ledger'[g]) /\ Unreviewed(g, ledger'[g])
    <3>1. CASE g = f
      <4>1. Repaired(f, d) /\ Unreviewed(f, d)
        BY <1>0, <1>1, <1>2, <2>4, <3>1, InsertedWaits DEF Due
      <4> QED
        BY <1>4, <3>1, <4>1
    <3>2. CASE g # f
      BY <1>4, <2>4, <3>2 DEF SerialInv, Waiting
    <3> QED
      BY <3>1, <3>2
  <2>5. ASSUME NEW g \in Findings, Routable(g)
        PROVE  Repaired(g, ledger[g])' /\ Unreviewed(g, ledger[g])'
    <3> PICK r : r = ledger'[g]
      OBVIOUS
    <3>1. Repaired(g, r)' /\ Unreviewed(g, r)'
      BY <2>2, <2>3, <2>4, <2>5
    <3> QED
      BY <3>1 DEF Repaired, Unreviewed
  <2> QED
    BY <2>5 DEF Waiting, Routable, Reported
<1> QED
  BY <1>6, <1>7, <1>8, <1>9 DEF SerialInv

\* An observation that is through is recorded.
LEMMA RecordedSerial ==
    ASSUME SerialInv, IInv', NEW a \in Actors, At(a, "choose"), work[a].todo = {},
           work[a].phase \in {"record", "targeted"}, work' = [work EXCEPT ![a] = Idle],
           recorded' = recorded \cup {work[a].run}, UNCHANGED <<ledger, runs, resume, crashes>>
    PROVE  SerialInv'
<1> PICK v : v = work[a]
  OBVIOUS
<1> PICK w : w = Idle
  OBVIOUS
<1>0. /\ v.phase # "idle" /\ v.step = "choose" /\ v.todo = {} /\ v # Idle
      /\ v.run \in DOMAIN runs /\ Target(v) = {} /\ PromptRuns \subseteq Nat /\ v.run \in Nat
  BY DEF At, Idle, SerialInv, IInv, Sound, Target, PromptRuns, TypeOK
<1>1. Due(v) /\ Complete(v)
  BY DEF SerialInv, Working
<1>2. Working'
  <2>1. Due(w)' /\ Fresh(w)' /\ Complete(w)'
    BY DEF Due, Fresh, Complete, Idle
  <2>2. work' = [work EXCEPT ![a] = w]
    OBVIOUS
  <2> QED
    BY <1>0, <2>1, <2>2, OneWorks DEF SerialInv
<1>3. Ordered'
  BY RunsSame DEF SerialInv, Ordered
<1>4. Closed'
  <2> SUFFICES ASSUME NEW f \in Findings
               PROVE  Evidence(f, ledger[f])' /\ ClosedLater(f, ledger[f])'
    BY DEF Closed
  <2>1. Evidence(f, ledger[f])'
    BY RunsSame DEF SerialInv, Closed
  <2>2. ClosedLater(f, ledger[f])'
    <3> SUFFICES ASSUME ledger[f].state = "VERIFIED" PROVE ClosedLater(f, ledger[f])'
      BY DEF ClosedLater
    <3>1. ASSUME NEW s \in Sightings(f)' PROVE s \in Sightings(f)
      <4>1. CASE s = v.run
        <5>1. f \in runs[v.run].found /\ runs[v.run].prompt # TargetedRepair
          BY <3>1, <4>1 DEF Sightings
        <5>2. v.phase = "record"
          BY <1>0, <1>1, <5>1 DEF Due
        <5>3. f \in OpenFindings
          BY <1>0, <1>1, <5>1, <5>2 DEF Complete, Todo
        <5> QED
          BY <5>3 DEF OpenFindings, IsOpen
      <4>2. CASE s # v.run
        BY <3>1, <4>2 DEF Sightings
      <4> QED
        BY <4>1, <4>2
    <3>2. ClosedLater(f, ledger[f])
      BY DEF SerialInv, Closed
    <3> QED
      BY <3>1, <3>2, RunsSame DEF ClosedLater
  <2> QED
    BY <2>1, <2>2
<1>5. ASSUME NEW i \in PromptRuns, NEW phases, Past(i, phases)', "idle" \notin phases,
             "record" \in phases
      PROVE  Past(i, phases)
  <2>1. v.run \in PromptRuns => v.phase = "record"
    <3>1. TargetedRepair \notin Prompts
      BY LedgerAssumption
    <3> QED
      BY <1>0, <1>1, <3>1 DEF Due, PromptRuns
  <2>2. \A b \in Actors : work'[b] = work[b] \/ work'[b] = Idle
    BY DEF SerialInv, IInv, TypeOK
  <2>3. Idle.phase = "idle"
    BY DEF Idle
  <2> QED
    BY <1>5, <2>1, <2>2, <2>3 DEF Past
<1>6. Waiting'
  <2> SUFFICES ASSUME NEW f \in Findings, Routable(f)
               PROVE  Repaired(f, ledger[f])' /\ Unreviewed(f, ledger[f])'
    BY DEF Waiting, Routable, Reported
  <2>0. Repaired(f, ledger[f]) /\ Unreviewed(f, ledger[f])
    BY DEF SerialInv, Waiting
  <2>1. Repaired(f, ledger[f])'
    BY <1>5, <2>0, RunsSame DEF Repaired
  <2>2. Unreviewed(f, ledger[f])'
    <3> SUFFICES ASSUME IsOpen(ledger[f]), NEW k \in recorded', NEW i \in PromptRuns,
                        Repairer(k, f, ledger[f]), k < i, Clean(i, f), Past(i, {"record"})'
                 PROVE  FALSE
      BY RunsSame DEF Unreviewed
    <3>1. CASE k = v.run
      <4>1. i <= k /\ k \in Nat /\ i \in Nat
        BY <1>0, <1>1, <3>1 DEF Repairer, Due, Last
      <4> QED
        BY <4>1
    <3>2. CASE k # v.run
      BY <1>5, <2>0, <3>2 DEF Unreviewed
    <3> QED
      BY <3>1, <3>2
  <2> QED
    BY <2>1, <2>2
<1> QED
  BY <1>2, <1>3, <1>4, <1>6 DEF SerialInv

\* Past the repairs, or past the review, nothing is left that they should have done.
LEMMA NextPhaseSerial ==
    ASSUME SerialInv, IInv', NEW a \in Actors, At(a, "choose"), work[a].todo = {},
           work[a].phase \in {"repair", "absent"},
           Begin(a, NextPhase[work[a].phase], work[a].run),
           UNCHANGED <<ledger, runs, resume, recorded, crashes>>
    PROVE  SerialInv'
<1> PICK v : v = work[a]
  OBVIOUS
<1> PICK i : i = v.run
  OBVIOUS
<1> PICK next : next = NextPhase[v.phase]
  OBVIOUS
<1> PICK w : w = [Idle EXCEPT !.phase = next, !.run = i]
  OBVIOUS
<1>0. /\ v.phase \in {"repair", "absent"} /\ v.step = "choose" /\ v.todo = {} /\ v # Idle
      /\ i \in DOMAIN runs /\ Target(v) = {}
  BY DEF At, Idle, SerialInv, IInv, Sound, Target
<1>1. Due(v) /\ Complete(v)
  BY DEF SerialInv, Working
<1>2. /\ v.phase = "repair" => next = "absent"
      /\ v.phase = "absent" => next = "record"
  BY DEF NextPhase
<1>3. i \in PromptRuns /\ Last(i) /\ (crashes = 0 => i = Len(runs))
      /\ runs[i].prompt \in Prompts /\ runs[i].prompt # TargetedRepair
  BY <1>0, <1>1, LedgerAssumption DEF Due, PromptRuns
<1>4. w.phase = next /\ w.run = i
  BY DEF Idle
<1>5. Due(w)
  BY <1>0, <1>2, <1>3, <1>4 DEF Due
<1>6. ASSUME NEW j, NEW phases, Past(j, phases)', phases \subseteq {"absent", "record"}
      PROVE  j \in recorded \/ (j = i /\ next \in phases)
  <2>1. \A b \in Actors : work'[b] = IF b = a THEN w ELSE Idle
    BY <1>0 DEF Begin, SerialInv, Working, Alone, IInv, TypeOK
  <2>2. Idle.phase \notin phases
    BY <1>6 DEF Idle
  <2> QED
    BY <1>4, <1>6, <2>1, <2>2 DEF Past
<1>7. ASSUME NEW f \in Findings, Routable(f)
      PROVE  Repaired(f, ledger[f])' /\ Unreviewed(f, ledger[f])'
  <2>0. Repaired(f, ledger[f]) /\ Unreviewed(f, ledger[f]) /\ Evidence(f, ledger[f])
    BY <1>7 DEF SerialInv, Waiting, Closed
  <2>1. Repaired(f, ledger[f])'
    <3> SUFFICES ASSUME IsOpen(ledger[f]), NEW k \in PromptRuns, Repairer(k, f, ledger[f]),
                        Past(k, {"absent", "record"})'
                 PROVE  k \in ledger[f].repairs
      BY RunsKept DEF Repaired
    <3>1. CASE k \in recorded \/ v.phase = "absent"
      <4>1. Past(k, {"absent", "record"})
        BY <1>6, <3>1 DEF Past
      <4> QED
        BY <2>0, <4>1 DEF Repaired
    <3>2. CASE k = i /\ v.phase = "repair"
      <4>1. f \notin RepairedBy(k)
        BY <1>0, <1>1, <3>2 DEF Complete, Todo
      <4>2. ledger[f].opened # k
        <5>1. ledger[f].opened < k /\ k \in Nat
          BY <2>0 DEF Evidence, Repairer, PromptRuns, SerialInv, IInv, TypeOK
        <5> QED
          BY <5>1
      <4>3. runs[k].prompt \in Stages[f] /\ ScopesMatch(f, runs[k].prompt)
        BY <1>7 DEF Repairer, Routable
      <4> QED
        BY <4>1, <4>2, <4>3 DEF RepairedBy, OpenFindings
    <3> QED
      BY <1>0, <1>6, <3>1, <3>2
  <2>2. Unreviewed(f, ledger[f])'
    <3> SUFFICES ASSUME IsOpen(ledger[f]), NEW k \in recorded, NEW u \in PromptRuns,
                        Repairer(k, f, ledger[f]), k < u, Clean(u, f), Past(u, {"record"})'
                 PROVE  FALSE
      BY RunsKept DEF Unreviewed
    <3>1. CASE u \in recorded
      BY <2>0, <3>1 DEF Unreviewed, Past
    <3>2. CASE u = i /\ next = "record"
      <4>1. f \notin AbsentIn(u)
        BY <1>0, <1>1, <1>2, <3>2 DEF Complete, Todo
      <4>2. k \in ledger[f].repairs
        BY <2>0 DEF Repaired, Repairer, Past
      <4>3. Reviewer[f] = runs[u].prompt /\ Code[f] \notin CodesOf(u)
        BY DEF Clean
      <4>4. ScopesMatch(f, runs[u].prompt)
        BY <1>7, <4>3 DEF Routable
      <4>5. u \notin ledger[f].repairs
        BY <1>3, <1>7, <2>0, <3>2, <4>3 DEF Evidence, Routable
      <4> QED
        BY <4>1, <4>2, <4>3, <4>4, <4>5 DEF AbsentIn, OpenFindings
    <3> QED
      BY <1>6, <3>1, <3>2
  <2> QED
    BY <2>1, <2>2
<1>8. Due([Idle EXCEPT !.phase = next, !.run = i]) /\ Begin(a, next, i) /\ next \in Phases \ {"idle"}
  BY <1>0, <1>2, <1>5 DEF Phases
<1> QED
  BY <1>0, <1>7, <1>8, BeginSerial

\* Going on: nothing is left that the phase should have done.
LEMMA ContinueSerial == ASSUME SerialInv, IInv', NEW a \in Actors, Continue(a) PROVE SerialInv'
<1>0. /\ At(a, "choose") /\ work[a].todo = {} /\ work[a].phase \in Phases \ {"idle"}
      /\ UNCHANGED <<ledger, runs, resume, crashes>>
  BY DEF Continue, At, SerialInv, IInv, TypeOK, Works
<1>1. CASE work[a].phase \in {"repair", "absent"}
  <2>1. Begin(a, NextPhase[work[a].phase], work[a].run) /\ UNCHANGED recorded
    BY <1>1 DEF Continue, NextPhase
  <2> QED
    BY <1>0, <1>1, <2>1, NextPhaseSerial
<1>2. CASE work[a].phase \in {"record", "targeted"}
  <2>1. work' = [work EXCEPT ![a] = Idle] /\ recorded' = recorded \cup {work[a].run}
    BY <1>2 DEF Continue, NextPhase
  <2> QED
    BY <1>0, <1>2, <2>1, RecordedSerial
<1> QED
  BY <1>0, <1>1, <1>2 DEF Phases

\* A crash: the runs that were observed in part are not recorded.
LEMMA CrashSerial == ASSUME SerialInv, IInv', Crash PROVE SerialInv'
<1>0. UNCHANGED <<ledger, runs, recorded>> /\ crashes \in Nat /\ crashes' = crashes + 1
  BY DEF Crash, SerialInv, IInv, TypeOK
<1>1. Ordered'
  <2>1. resume' # 0 => resume' \in PromptRuns /\ \A j \in PromptRuns : j <= resume'
    BY DEF Crash
  <2>2. crashes' # 0
    BY <1>0
  <2>3. PromptRuns' = PromptRuns
    BY <1>0, RunsSame
  <2> QED
    BY <1>0, <2>1, <2>2, <2>3 DEF SerialInv, Ordered, Last
<1>2. Working'
  BY DEF Crash, Working, Alone, Due, Fresh, Complete, Idle
<1>3. \A i, phases : "idle" \notin phases /\ Past(i, phases)' => i \in recorded
  BY DEF Crash, Past, Idle
<1>4. Closed'
  <2>1. \A f \in Findings : Sightings(f)' = Sightings(f)
    BY <1>0 DEF Sightings
  <2>2. \A f \in Findings : ClosedLater(f, ledger[f]) => ClosedLater(f, ledger[f])'
    BY <1>0, <2>1, RunsSame DEF ClosedLater
  <2> QED
    BY <1>0, <2>2, RunsSame DEF SerialInv, Closed
<1>5. Waiting'
  <2>1. \A f \in Findings : Repaired(f, ledger[f]) => Repaired(f, ledger[f])'
    BY <1>0, <1>3, RunsSame DEF Repaired, Past
  <2>2. \A f \in Findings : Unreviewed(f, ledger[f]) => Unreviewed(f, ledger[f])'
    BY <1>0, <1>3, RunsSame DEF Unreviewed, Past
  <2> QED
    BY <2>1, <2>2 DEF SerialInv, Waiting, Routable, Reported
<1> QED
  BY <1>1, <1>2, <1>4, <1>5 DEF SerialInv

\* Every step keeps the invariant.
LEMMA NextSerial == ASSUME SerialInv, Serial, [Next]_vars PROVE SerialInv'
<1>0. IInv'
  BY NextIInv DEF SerialInv
<1>1. ASSUME NEW p \in Prompts, Observe(p) PROVE SerialInv'
  <2>1. PICK found \in SUBSET {f \in Findings : p \in Finders[f]}, pass \in BOOLEAN :
          NewRun(Loop, p, found, pass, FirstPhase(pass))
    BY <1>1 DEF Observe
  <2> PICK phase : phase = FirstPhase(pass)
    OBVIOUS
  <2>2. /\ phase \in {"repair", "absent"} /\ Loop \in Actors /\ resume' = 0
        /\ p # TargetedRepair /\ \A f \in found : p \in Finders[f]
        /\ found \in SUBSET Findings /\ NewRun(Loop, p, found, pass, phase)
    BY <1>1, <2>1, LedgerAssumption DEF FirstPhase, Actors, Observe
  <2> QED
    BY <2>2, NewRunSerial DEF Phases
<1>2. CASE ObserveAgain
  BY <1>0, <1>2, AgainSerial
<1>3. CASE RepairTargeted
  <2>1. /\ Len(runs) \in PromptRuns /\ runs[Len(runs)].found \in SUBSET Findings
        /\ Loop \in Actors /\ TargetedRepair \notin Prompts /\ resume' = resume
    <3>1. Len(runs) \in DOMAIN runs
      BY <1>3 DEF RepairTargeted, SerialInv, IInv, TypeOK
    <3> QED
      BY <1>3, <3>1, RunTyped, LedgerAssumption
      DEF RepairTargeted, SerialInv, IInv, PromptRuns, Actors
  <2>2. PICK repairable \in SUBSET runs[Len(runs)].found :
          NewRun(Loop, TargetedRepair, repairable, TRUE, "targeted")
    BY <1>3 DEF RepairTargeted
  <2>3. repairable \in SUBSET Findings
    BY <2>1
  <2> QED
    BY <2>1, <2>2, <2>3, NewRunSerial DEF Phases
<1>4. ASSUME NEW t \in Threads, Ingest(t) PROVE SerialInv'
  <2>1. PICK found \in SUBSET {f \in Findings : Validator \in Finders[f]} :
          NewRun(t, Validator, found, found = {}, "record")
    BY <1>4 DEF Ingest
  <2> PICK pass \in BOOLEAN : pass <=> found = {}
    OBVIOUS
  <2>2. NewRun(t, Validator, found, pass, "record")
    <3>1. pass = (found = {})
      OBVIOUS
    <3> QED
      BY <2>1, <3>1
  <2>3. /\ t \in Actors /\ Validator \notin Prompts /\ Validator # TargetedRepair
        /\ \A f \in found : Validator \in Finders[f]
        /\ found \in SUBSET Findings /\ resume' = resume
    BY <1>4, LedgerAssumption DEF Actors, Ingest
  <2> QED
    BY <2>2, <2>3, NewRunSerial DEF Phases
<1>5. ASSUME NEW a \in Actors, Progress(a) PROVE SerialInv'
  BY <1>0, <1>5, EnterSerial, DraftSerial, RaiseSerial, NumberSerial, InsertSerial,
     ContinueSerial DEF Progress
<1>6. CASE Crash
  BY <1>0, <1>6, CrashSerial
<1>7. CASE UNCHANGED vars
  <2>1. UNCHANGED <<ledger, runs, work, resume, recorded, crashes>>
    BY <1>7 DEF vars
  <2>2. Ordered'
    BY <2>1, RunsKept DEF SerialInv, Ordered
  <2>3. Working'
    <3>1. \A w : Due(w) /\ Fresh(w) /\ Complete(w) => Due(w)' /\ Fresh(w)' /\ Complete(w)'
      BY <2>1, WorkKept
    <3>2. ASSUME NEW b \in Actors PROVE (Due(work[b]) /\ Fresh(work[b]) /\ Complete(work[b]))'
      <4> PICK w : w = work[b]
        OBVIOUS
      <4>1. Due(w)' /\ Fresh(w)' /\ Complete(w)'
        BY <3>1 DEF SerialInv, Working
      <4> QED
        BY <2>1, <4>1 DEF Due, Fresh, Complete
    <3> QED
      BY <2>1, <3>2 DEF SerialInv, Working, Alone
  <2>4. Closed' /\ Waiting'
    BY <2>1, RowsKept DEF SerialInv, Past
  <2> QED
    BY <1>0, <2>2, <2>3, <2>4 DEF SerialInv
<1> QED
  BY <1>1, <1>2, <1>3, <1>4, <1>5, <1>6, <1>7 DEF Next

\* The inductive invariant of clients that keep one request in flight.
THEOREM SerialInductive == ASSUME Serial PROVE Spec => []SerialInv
<1>1. Init => SerialInv
  BY InitSerial
<1>2. SerialInv /\ [Next]_vars => SerialInv'
  BY NextSerial
<1> QED
  BY <1>1, <1>2, PTL DEF Spec

\* One request at a time, a finding that is closed stays so only until it is reported
\* again: the review that closes it is later than a repair and than every sighting that
\* _open_or_refresh has recorded.
THEOREM LedgerClosedLater == ASSUME Serial PROVE Spec => []ClosedByLaterReview
<1>1. SerialInv => ClosedByLaterReview
  BY DEF SerialInv, Closed, ClosedLater, ClosedByLaterReview
<1> QED
  BY <1>1, SerialInductive, PTL

\* Where routes name prompts of the finding's scope and a reviewer that is none of the
\* stages, a finding that was repaired and then found gone is not left open.
THEOREM LedgerStrandsNone ==
    ASSUME Serial, \A f \in Findings : Reported(f) => Routable(f)
    PROVE  Spec => []NoneStranded
<1>1. SerialInv => NoneStranded
  <2> SUFFICES ASSUME SerialInv, NEW f \in Findings, Reported(f), Addressed(f), IsOpen(ledger[f])
               PROVE  FALSE
    BY DEF NoneStranded
  <2>1. PICK k \in recorded, v \in recorded :
          /\ runs[k].prompt \in Stages[f] /\ runs[k].pass
          /\ k < v /\ Clean(v, f)
          /\ \A s \in ledger[f].seen : s < k
    BY DEF Addressed
  <2>2. k \in PromptRuns /\ v \in PromptRuns
    BY <2>1, LedgerAssumption DEF PromptRuns, Clean, SerialInv, IInv, TypeOK
  <2>3. Unreviewed(f, ledger[f])
    BY DEF SerialInv, Waiting
  <2> QED
    BY <2>1, <2>2, <2>3 DEF Unreviewed, Repairer, Past
<1> QED
  BY <1>1, SerialInductive, PTL

\* One request at a time, no version of an open finding drops a sighting or a repair: what
\* _persist inserts was changed from the latest version.
THEOREM LedgerLosesNothing == ASSUME Serial PROVE Spec => NothingLost
<1> DEFINE Kept == \A f \in Findings : IsOpen(ledger[f]) =>
                       /\ ledger[f].seen \subseteq ledger'[f].seen
                       /\ ledger[f].repairs \subseteq ledger'[f].repairs
<1>1. ASSUME SerialInv, [Next]_vars PROVE Kept \/ UNCHANGED vars
  <2>1. CASE UNCHANGED ledger
    BY <2>1
  <2>2. ASSUME NEW a \in Actors, Insert(a) PROVE Kept
    <3> PICK v : v = work[a]
      OBVIOUS
    <3> PICK f : f = v.target
      OBVIOUS
    <3>1. /\ v.phase \in Phases \ {"idle"} /\ v.step = "insert" /\ f \in Findings
          /\ ledger[f] \in Rows /\ v.run \in RunIds /\ v.draft \in Rows
      <4>1. /\ v \in Works /\ v.phase \in Phases \ {"idle"} /\ v.step = "insert"
            /\ f \in Findings /\ v.run \in DOMAIN runs
        BY <1>1, <2>2 DEF Insert, At, SerialInv, IInv, TypeOK, Works, Sound
      <4> QED
        BY <1>1, <4>1, LedgerAssumption DEF SerialInv, IInv, TypeOK, Works, RunIds
    <3>2. Alike(v.draft, Changed(v.phase, ledger[f], v.run))
      <4>1. Fresh(v)
        BY <1>1 DEF SerialInv, Working
      <4> QED
        BY <3>1, <4>1 DEF Fresh
    <3>3. \A g \in Findings : ledger'[g] = ledger[g] \/ (g = f /\ ledger'[g] = v.draft)
      BY <1>1, <2>2, <3>1 DEF Insert, SerialInv, IInv, TypeOK
    <3>4. IsOpen(ledger[f]) => /\ ledger[f].seen \subseteq v.draft.seen
                               /\ ledger[f].repairs \subseteq v.draft.repairs
      <4>1. CASE v.phase \in {"repair", "targeted"}
        BY <3>1, <3>2, <4>1, ChangedHow DEF Alike
      <4>2. CASE v.phase = "absent"
        BY <3>1, <3>2, <4>2, ChangedHow DEF Alike
      <4>3. CASE v.phase = "record"
        BY <3>1, <3>2, <4>3, ChangedHow DEF Alike
      <4> QED
        BY <3>1, <4>1, <4>2, <4>3 DEF Phases
    <3> QED
      BY <3>3, <3>4
  <2>3. UNCHANGED ledger \/ \E a \in Actors : Insert(a)
    BY <1>1 DEF Next, Observe, ObserveAgain, RepairTargeted, Ingest, NewRun, Progress, Enter,
                Draft, Raise, Number, Continue, Crash, vars
  <2> QED
    BY <2>1, <2>2, <2>3
<1>2. ASSUME SerialInv, [Next]_vars PROVE [Kept]_vars
  BY <1>1, <1>2
<1> QED
  BY <1>2, SerialInductive, PTL DEF Spec, NothingLost
=============================================================================
