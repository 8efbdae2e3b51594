------------------------ MODULE WorkflowEngineProofs ------------------------
(***************************************************************************)
(* What holds of WorkflowEngine for every number of requests, steps, gates,*)
(* crashes and failures: first whether or not requests overlap, then for   *)
(* clients that keep one request in flight.                                *)
(***************************************************************************)
EXTENDS WorkflowEngine, SequenceTheorems, FiniteSetTheorems, TLAPS

\* Every prompt before r's step is in P, and only a finished row is COMPLETED.
Sound(r, P) ==
    /\ \A s \in PromptSteps : s < r.step => s \in P
    /\ r.status = "COMPLETED" => r.step = NSteps

\* All copies of the row are sound: a stale one may undo progress, never skip.
Copies ==
    /\ Sound(row, passed)
    /\ \A w \in Workers : Sound(mem[w], passed)
    /\ \A d \in Deciders : Sound(dcopy[d], passed)

\* What a program counter says of the locals beside it.
Positions ==
    /\ \A w \in Workers :
          /\ pc[w] \in {"await", "answered", "repair"} => mem[w].step \in Steps
          /\ pc[w] = "repair" => res[w] # "PASS"
          /\ pc[w] = "gate" => NewGate(w).step \in Steps
          /\ pc[w] = "answered" /\ res[w] = "PASS" => mem[w].step \in passed
    /\ \A d \in Deciders : dpc[d] = "decide" => dgate[d] \in DOMAIN gates

\* Nothing was called ahead of a prompt that had not passed.
CallsInOrder == \A t \in executed, s \in PromptSteps : s < t => s \in passed

IInv == TypeOK /\ Positions /\ Copies /\ CallsInOrder

\* Abbreviations, visible in every proof below.
USE DEF At, Goto, Save, Leave, vars, coroutine, decision, history, budgets

\* The assumptions on the constants, one fact each.
LEMMA Constants ==
    /\ NSteps \in Nat /\ NSteps > 0
    /\ MaxAsks \in Nat /\ MaxGates \in Nat /\ MaxCrashes \in Nat /\ MaxFaults \in Nat
    /\ Kind \in [Steps -> {"PROMPT", "SEARCH", "GATE"}]
BY ConstantsAssumption

\* The fields of a workflow row.
LEMMA RowFields ==
    \A r \in Rows : /\ r.status \in Statuses /\ r.step \in 0 .. NSteps
                    /\ r.repaired \subseteq Steps
                    /\ r.recoverable \in BOOLEAN /\ r.injected \in BOOLEAN
BY DEF Rows

\* Every edit that the engine makes to a row leaves a row.
LEMMA RowEdits ==
    /\ StartRow \in Rows
    /\ \A r \in Rows, x \in Statuses : [r EXCEPT !.status = x] \in Rows
    /\ \A r \in Rows, n \in 0 .. NSteps : [r EXCEPT !.step = n] \in Rows
    /\ \A r \in Rows, S \in SUBSET Steps : [r EXCEPT !.repaired = S] \in Rows
    /\ \A r \in Rows, b \in BOOLEAN : [r EXCEPT !.recoverable = b] \in Rows
    /\ \A r \in Rows, b \in BOOLEAN : [r EXCEPT !.injected = b] \in Rows
BY ConstantsAssumption DEF Rows, StartRow, Statuses

\* The engine starts well typed.
LEMMA TypeInit == Init => TypeOK
BY ConstantsAssumption, RowEdits DEF Init, TypeOK, PCs, DPCs, Answers, Verdicts, Steps, GateRows

\* TypeOK, in parts that are proved apart.
TypedRows ==
    /\ row \in Rows
    /\ mem \in [Workers -> Rows]
    /\ dcopy \in [Deciders -> Rows]
TypedGates == gates \in Seq(GateRows) /\ dgate \in [Deciders -> Nat]
TypedControl ==
    /\ loop \in Workers \cup {NoWorker}
    /\ pc \in [Workers -> PCs]
    /\ res \in [Workers -> Answers]
    /\ dpc \in [Deciders -> DPCs]
    /\ dverdict \in [Deciders -> Verdicts]
TypedHistory ==
    /\ passed \subseteq Steps
    /\ executed \subseteq Steps
    /\ repairRuns \in [Steps -> Nat]
    /\ asks \in 0 .. MaxAsks
    /\ crashes \in 0 .. MaxCrashes
    /\ faults \in 0 .. MaxFaults

\* Every step leaves rows in the database and in every copy of them: in
\* particular no request advances past the last step.
LEMMA RowsStep == ASSUME TypeOK, Positions, [Next]_vars PROVE TypedRows'
<1> USE Constants, RowFields, RowEdits DEF TypeOK, Positions, TypedRows, Steps, Statuses
<1>1. ASSUME NEW w \in Workers, Begin(w) PROVE TypedRows'
  BY <1>1 DEF Begin
<1>2. ASSUME NEW w \in Workers, Recover(w) PROVE TypedRows'
  <2>1. Recovered(mem[w]) \in Rows
    BY DEF Recovered
  <2>2. row' \in {row, Recovered(mem[w])}
    BY <1>2 DEF Recover
  <2>3. \E r \in {mem[w], Recovered(mem[w]), StartRow} : mem' = [mem EXCEPT ![w] = r]
    <3>1. CASE mem' = mem
      BY <3>1
    <3>2. CASE mem' # mem
      BY <1>2, <3>2 DEF Recover
    <3> QED
      BY <3>1, <3>2
  <2>4. dcopy' = dcopy
    BY <1>2 DEF Recover
  <2> QED
    BY SMTT(20), <2>1, <2>2, <2>3, <2>4
<1>3. ASSUME NEW w \in Workers, Enter(w) PROVE TypedRows'
  BY ZenonT(40), <1>3 DEF Enter
<1>4. ASSUME NEW w \in Workers, Call(w) PROVE TypedRows'
  BY <1>4 DEF Call
<1>5. ASSUME NEW w \in Workers, Answer(w) PROVE TypedRows'
  BY <1>5 DEF Answer
<1>6. ASSUME NEW w \in Workers, Pass(w) PROVE TypedRows'
  <2>1. mem[w].step \in Steps
    BY <1>6 DEF Pass, GateStep
  <2>2. [mem[w] EXCEPT !.status = "RUNNING"] \in Rows
    OBVIOUS
  <2>3. mem[w].step + 1 \in 0 .. NSteps
    BY SMTT(20), <2>1
  <2>4. PassedRow(w) \in Rows
    BY <2>2, <2>3 DEF PassedRow
  <2> QED
    BY <1>6, <2>4 DEF Pass, GateStep
<1>7. ASSUME NEW w \in Workers, GateStep(w) PROVE TypedRows'
  <2>1. mem[w].step \in Steps
    BY <1>7 DEF Pass, GateStep
  <2>2. [mem[w] EXCEPT !.status = "RUNNING"] \in Rows
    OBVIOUS
  <2>3. mem[w].step + 1 \in 0 .. NSteps
    BY SMTT(20), <2>1
  <2>4. PassedRow(w) \in Rows
    BY <2>2, <2>3 DEF PassedRow
  <2> QED
    BY <1>7, <2>4 DEF Pass, GateStep
<1>8. ASSUME NEW w \in Workers, Refuse(w) PROVE TypedRows'
  BY <1>8 DEF Refuse
<1>9. ASSUME NEW w \in Workers, RequestRepair(w) PROVE TypedRows'
  BY <1>9 DEF RequestRepair, CanAutoRepair
<1>10. ASSUME NEW w \in Workers, Repaired(w) PROVE TypedRows'
  <2>1. [mem[w] EXCEPT !.status = "RUNNING"] \in Rows
    OBVIOUS
  <2> QED
    BY ZenonT(40), <1>10, <2>1 DEF Repaired
<1>11. ASSUME NEW w \in Workers, Ask(w) PROVE TypedRows'
  BY <1>11 DEF Ask
<1>12. ASSUME NEW w \in Workers, CreateGate(w) PROVE TypedRows'
  BY <1>12 DEF CreateGate
<1>13. ASSUME NEW w \in Workers, Park(w) PROVE TypedRows'
  BY <1>13 DEF Park
<1>14. ASSUME NEW w \in Workers, Finish(w) PROVE TypedRows'
  <2>1. [mem[w] EXCEPT !.status = "COMPLETED"] \in Rows
    OBVIOUS
  <2>2. [mem[w] EXCEPT !.status = "BLOCKED", !.injected = FALSE] \in Rows
    <3>1. [mem[w] EXCEPT !.status = "BLOCKED"] \in Rows
      OBVIOUS
    <3> QED
      BY <3>1
  <2> QED
    BY ZenonT(40), <1>14, <2>1, <2>2 DEF Finish
<1>15. ASSUME NEW w \in Workers, Return(w) PROVE TypedRows'
  <2>1. [mem[w] EXCEPT !.recoverable = TRUE] \in Rows
    OBVIOUS
  <2> QED
    BY <1>15, <2>1 DEF Return
<1>16. ASSUME NEW w \in Workers, Escape(w) PROVE TypedRows'
  BY <1>16 DEF Escape
<1>17. ASSUME NEW w \in Workers, Fault(w) PROVE TypedRows'
  BY <1>17 DEF Fault
<1>18. ASSUME NEW d \in Deciders, Review(d) PROVE TypedRows'
  BY <1>18 DEF Review
<1>19. ASSUME NEW d \in Deciders, Decide(d) PROVE TypedRows'
  BY <1>19 DEF Decide
<1>20. ASSUME NEW d \in Deciders, Load(d) PROVE TypedRows'
  BY <1>20 DEF Load
<1>21. ASSUME NEW d \in Deciders, Store(d) PROVE TypedRows'
  BY <1>21 DEF Store
<1>22. CASE Crash
  BY <1>22 DEF Crash
<1>23. CASE UNCHANGED vars
  BY <1>23
<1> QED
  BY <1>1, <1>2, <1>3, <1>4, <1>5, <1>6, <1>7, <1>8, <1>9, <1>10, <1>11, <1>12,
     <1>13, <1>14, <1>15, <1>16, <1>17, <1>18, <1>19, <1>20, <1>21, <1>22, <1>23
     DEF Next, Progress, Deciding

\* Every step leaves a sequence of gates.
LEMMA GatesStep == ASSUME TypeOK, Positions, [Next]_vars PROVE TypedGates'
<1> USE Constants DEF TypeOK, Positions, TypedGates
<1>1. ASSUME NEW w \in Workers, Begin(w) PROVE TypedGates'
  BY <1>1 DEF Begin
<1>2. ASSUME NEW w \in Workers, Recover(w) PROVE TypedGates'
  BY <1>2 DEF Recover
<1>3. ASSUME NEW w \in Workers, Enter(w) PROVE TypedGates'
  BY <1>3 DEF Enter
<1>4. ASSUME NEW w \in Workers, Call(w) PROVE TypedGates'
  BY <1>4 DEF Call
<1>5. ASSUME NEW w \in Workers, Answer(w) PROVE TypedGates'
  BY <1>5 DEF Answer
<1>6. ASSUME NEW w \in Workers, Pass(w) PROVE TypedGates'
  BY <1>6 DEF Pass
<1>7. ASSUME NEW w \in Workers, GateStep(w) PROVE TypedGates'
  BY <1>7 DEF GateStep
<1>8. ASSUME NEW w \in Workers, Refuse(w) PROVE TypedGates'
  BY <1>8 DEF Refuse
<1>9. ASSUME NEW w \in Workers, RequestRepair(w) PROVE TypedGates'
  BY <1>9 DEF RequestRepair
<1>10. ASSUME NEW w \in Workers, Repaired(w) PROVE TypedGates'
  BY <1>10 DEF Repaired
<1>11. ASSUME NEW w \in Workers, Ask(w) PROVE TypedGates'
  BY <1>11 DEF Ask
<1>12. ASSUME NEW w \in Workers, CreateGate(w) PROVE TypedGates'
  <2>1. NewGate(w) \in GateRows
    BY <1>12 DEF CreateGate, NewGate, GateRows
  <2>2. Append(gates, NewGate(w)) \in Seq(GateRows)
    BY <2>1, AppendProperties
  <2> QED
    BY <1>12, <2>2 DEF CreateGate
<1>13. ASSUME NEW w \in Workers, Park(w) PROVE TypedGates'
  BY <1>13 DEF Park
<1>14. ASSUME NEW w \in Workers, Finish(w) PROVE TypedGates'
  BY <1>14 DEF Finish
<1>15. ASSUME NEW w \in Workers, Return(w) PROVE TypedGates'
  BY <1>15 DEF Return
<1>16. ASSUME NEW w \in Workers, Escape(w) PROVE TypedGates'
  BY <1>16 DEF Escape
<1>17. ASSUME NEW w \in Workers, Fault(w) PROVE TypedGates'
  BY <1>17 DEF Fault
<1>18. ASSUME NEW d \in Deciders, Review(d) PROVE TypedGates'
  BY <1>18 DEF Review, OpenGates
<1>19. ASSUME NEW d \in Deciders, Decide(d) PROVE TypedGates'
  <2> DEFINE g == dgate[d]
  <2>1. g \in 1 .. Len(gates) /\ gates[g] \in GateRows
    BY <1>19 DEF Decide
  <2>2. [gates[g] EXCEPT !.status = dverdict[d]] \in GateRows
    BY <2>1 DEF GateRows
  <2> QED
    BY <1>19, <2>1, <2>2, ExceptSeq DEF Decide
<1>20. ASSUME NEW d \in Deciders, Load(d) PROVE TypedGates'
  BY <1>20 DEF Load
<1>21. ASSUME NEW d \in Deciders, Store(d) PROVE TypedGates'
  BY <1>21 DEF Store
<1>22. CASE Crash
  BY <1>22 DEF Crash
<1>23. CASE UNCHANGED vars
  BY <1>23
<1> QED
  BY <1>1, <1>2, <1>3, <1>4, <1>5, <1>6, <1>7, <1>8, <1>9, <1>10, <1>11, <1>12,
     <1>13, <1>14, <1>15, <1>16, <1>17, <1>18, <1>19, <1>20, <1>21, <1>22, <1>23
     DEF Next, Progress, Deciding

\* Every step keeps program counters, answers and verdicts well typed.
LEMMA ControlStep == ASSUME TypeOK, [Next]_vars PROVE TypedControl'
<1> USE Constants DEF TypeOK, TypedControl, PCs, DPCs, Answers, Verdicts
<1>1. ASSUME NEW w \in Workers, Begin(w) PROVE TypedControl'
  BY <1>1 DEF Begin
<1>2. ASSUME NEW w \in Workers, Recover(w) PROVE TypedControl'
  BY <1>2 DEF Recover
<1>3. ASSUME NEW w \in Workers, Enter(w) PROVE TypedControl'
  BY <1>3 DEF Enter
<1>4. ASSUME NEW w \in Workers, Call(w) PROVE TypedControl'
  BY <1>4 DEF Call
<1>5. ASSUME NEW w \in Workers, Answer(w) PROVE TypedControl'
  BY <1>5 DEF Answer
<1>6. ASSUME NEW w \in Workers, Pass(w) PROVE TypedControl'
  BY <1>6 DEF Pass
<1>7. ASSUME NEW w \in Workers, GateStep(w) PROVE TypedControl'
  BY <1>7 DEF GateStep
<1>8. ASSUME NEW w \in Workers, Refuse(w) PROVE TypedControl'
  BY <1>8 DEF Refuse
<1>9. ASSUME NEW w \in Workers, RequestRepair(w) PROVE TypedControl'
  BY <1>9 DEF RequestRepair
<1>10. ASSUME NEW w \in Workers, Repaired(w) PROVE TypedControl'
  BY <1>10 DEF Repaired
<1>11. ASSUME NEW w \in Workers, Ask(w) PROVE TypedControl'
  BY <1>11 DEF Ask
<1>12. ASSUME NEW w \in Workers, CreateGate(w) PROVE TypedControl'
  BY <1>12 DEF CreateGate
<1>13. ASSUME NEW w \in Workers, Park(w) PROVE TypedControl'
  BY <1>13 DEF Park
<1>14. ASSUME NEW w \in Workers, Finish(w) PROVE TypedControl'
  BY <1>14 DEF Finish
<1>15. ASSUME NEW w \in Workers, Return(w) PROVE TypedControl'
  BY <1>15 DEF Return
<1>16. ASSUME NEW w \in Workers, Escape(w) PROVE TypedControl'
  BY <1>16 DEF Escape
<1>17. ASSUME NEW w \in Workers, Fault(w) PROVE TypedControl'
  BY <1>17 DEF Fault
<1>18. ASSUME NEW d \in Deciders, Review(d) PROVE TypedControl'
  BY <1>18 DEF Review
<1>19. ASSUME NEW d \in Deciders, Decide(d) PROVE TypedControl'
  BY <1>19 DEF Decide
<1>20. ASSUME NEW d \in Deciders, Load(d) PROVE TypedControl'
  BY <1>20 DEF Load
<1>21. ASSUME NEW d \in Deciders, Store(d) PROVE TypedControl'
  BY <1>21 DEF Store
<1>22. CASE Crash
  BY <1>22 DEF Crash
<1>23. CASE UNCHANGED vars
  BY <1>23
<1> QED
  BY <1>1, <1>2, <1>3, <1>4, <1>5, <1>6, <1>7, <1>8, <1>9, <1>10, <1>11, <1>12,
     <1>13, <1>14, <1>15, <1>16, <1>17, <1>18, <1>19, <1>20, <1>21, <1>22, <1>23
     DEF Next, Progress, Deciding

\* Every step keeps the history and the budgets well typed.
LEMMA HistoryStep == ASSUME TypeOK, Positions, [Next]_vars PROVE TypedHistory'
<1> USE Constants DEF TypeOK, Positions, TypedHistory
<1>1. ASSUME NEW w \in Workers, Begin(w) PROVE TypedHistory'
  BY <1>1 DEF Begin
<1>2. ASSUME NEW w \in Workers, Recover(w) PROVE TypedHistory'
  BY <1>2 DEF Recover
<1>3. ASSUME NEW w \in Workers, Enter(w) PROVE TypedHistory'
  BY <1>3 DEF Enter
<1>4. ASSUME NEW w \in Workers, Call(w) PROVE TypedHistory'
  BY <1>4 DEF Call
<1>5. ASSUME NEW w \in Workers, Answer(w) PROVE TypedHistory'
  BY <1>5 DEF Answer
<1>6. ASSUME NEW w \in Workers, Pass(w) PROVE TypedHistory'
  BY <1>6 DEF Pass
<1>7. ASSUME NEW w \in Workers, GateStep(w) PROVE TypedHistory'
  BY <1>7 DEF GateStep
<1>8. ASSUME NEW w \in Workers, Refuse(w) PROVE TypedHistory'
  BY <1>8 DEF Refuse
<1>9. ASSUME NEW w \in Workers, RequestRepair(w) PROVE TypedHistory'
  BY <1>9 DEF RequestRepair
<1>10. ASSUME NEW w \in Workers, Repaired(w) PROVE TypedHistory'
  BY <1>10 DEF Repaired
<1>11. ASSUME NEW w \in Workers, Ask(w) PROVE TypedHistory'
  BY <1>11 DEF Ask
<1>12. ASSUME NEW w \in Workers, CreateGate(w) PROVE TypedHistory'
  BY <1>12 DEF CreateGate
<1>13. ASSUME NEW w \in Workers, Park(w) PROVE TypedHistory'
  BY <1>13 DEF Park
<1>14. ASSUME NEW w \in Workers, Finish(w) PROVE TypedHistory'
  BY <1>14 DEF Finish
<1>15. ASSUME NEW w \in Workers, Return(w) PROVE TypedHistory'
  BY <1>15 DEF Return
<1>16. ASSUME NEW w \in Workers, Escape(w) PROVE TypedHistory'
  BY <1>16 DEF Escape
<1>17. ASSUME NEW w \in Workers, Fault(w) PROVE TypedHistory'
  BY <1>17 DEF Fault
<1>18. ASSUME NEW d \in Deciders, Review(d) PROVE TypedHistory'
  BY <1>18 DEF Review
<1>19. ASSUME NEW d \in Deciders, Decide(d) PROVE TypedHistory'
  BY <1>19 DEF Decide
<1>20. ASSUME NEW d \in Deciders, Load(d) PROVE TypedHistory'
  BY <1>20 DEF Load
<1>21. ASSUME NEW d \in Deciders, Store(d) PROVE TypedHistory'
  BY <1>21 DEF Store
<1>22. CASE Crash
  BY <1>22 DEF Crash
<1>23. CASE UNCHANGED vars
  BY <1>23
<1> QED
  BY <1>1, <1>2, <1>3, <1>4, <1>5, <1>6, <1>7, <1>8, <1>9, <1>10, <1>11, <1>12,
     <1>13, <1>14, <1>15, <1>16, <1>17, <1>18, <1>19, <1>20, <1>21, <1>22, <1>23
     DEF Next, Progress, Deciding

\* Every step preserves TypeOK.
LEMMA TypeStep == ASSUME TypeOK, Positions, [Next]_vars PROVE TypeOK'
<1>1. TypedRows' /\ TypedGates' /\ TypedControl' /\ TypedHistory'
  BY RowsStep, GatesStep, ControlStep, HistoryStep
<1> QED
  BY <1>1 DEF TypeOK, TypedRows, TypedGates, TypedControl, TypedHistory

\* Initially nothing is under way.
LEMMA PositionsInit == Init => Positions
BY DEF Init, Positions

\* Every step keeps program counters and locals in agreement.
LEMMA PositionsStep == ASSUME TypeOK, Positions, [Next]_vars PROVE Positions'
<1> USE Constants, RowFields DEF TypeOK, Positions, NewGate, Steps
<1>1. ASSUME NEW w \in Workers, Begin(w) PROVE Positions'
  BY <1>1 DEF Begin
<1>2. ASSUME NEW w \in Workers, Recover(w) PROVE Positions'
  BY <1>2 DEF Recover, Recovered
<1>3. ASSUME NEW w \in Workers, Enter(w) PROVE Positions'
  BY SMTT(20), <1>3 DEF Enter
<1>4. ASSUME NEW w \in Workers, Call(w) PROVE Positions'
  BY <1>4 DEF Call
<1>5. ASSUME NEW w \in Workers, Answer(w) PROVE Positions'
  BY <1>5 DEF Answer
<1>6. ASSUME NEW w \in Workers, Pass(w) PROVE Positions'
  BY <1>6 DEF Pass, PassedRow
<1>7. ASSUME NEW w \in Workers, GateStep(w) PROVE Positions'
  BY <1>7 DEF GateStep, PassedRow
<1>8. ASSUME NEW w \in Workers, Refuse(w) PROVE Positions'
  BY <1>8 DEF Refuse
<1>9. ASSUME NEW w \in Workers, RequestRepair(w) PROVE Positions'
  BY <1>9 DEF RequestRepair, CanAutoRepair
<1>10. ASSUME NEW w \in Workers, Repaired(w) PROVE Positions'
  BY <1>10 DEF Repaired
<1>11. ASSUME NEW w \in Workers, Ask(w) PROVE Positions'
  BY <1>11 DEF Ask
<1>12. ASSUME NEW w \in Workers, CreateGate(w) PROVE Positions'
  BY <1>12 DEF CreateGate
<1>13. ASSUME NEW w \in Workers, Park(w) PROVE Positions'
  BY <1>13 DEF Park
<1>14. ASSUME NEW w \in Workers, Finish(w) PROVE Positions'
  BY <1>14 DEF Finish
<1>15. ASSUME NEW w \in Workers, Return(w) PROVE Positions'
  BY <1>15 DEF Return
<1>16. ASSUME NEW w \in Workers, Escape(w) PROVE Positions'
  BY <1>16 DEF Escape
<1>17. ASSUME NEW w \in Workers, Fault(w) PROVE Positions'
  BY <1>17 DEF Fault
<1>18. ASSUME NEW d \in Deciders, Review(d) PROVE Positions'
  BY <1>18 DEF Review, OpenGates
<1>19. ASSUME NEW d \in Deciders, Decide(d) PROVE Positions'
  BY <1>19 DEF Decide
<1>20. ASSUME NEW d \in Deciders, Load(d) PROVE Positions'
  BY <1>20 DEF Load
<1>21. ASSUME NEW d \in Deciders, Store(d) PROVE Positions'
  BY <1>21 DEF Store
<1>22. CASE Crash
  BY <1>22 DEF Crash
<1>23. CASE UNCHANGED vars
  BY <1>23
<1> QED
  BY <1>1, <1>2, <1>3, <1>4, <1>5, <1>6, <1>7, <1>8, <1>9, <1>10, <1>11, <1>12,
     <1>13, <1>14, <1>15, <1>16, <1>17, <1>18, <1>19, <1>20, <1>21, <1>22, <1>23
     DEF Next, Progress, Deciding

\* A new row is sound.
LEMMA SoundStart == ASSUME NEW P PROVE Sound(StartRow, P)
BY DEF Sound, StartRow, PromptSteps, Steps

\* A sound row stays sound as more prompts pass.
LEMMA SoundGrows ==
    ASSUME NEW r, NEW P, NEW Q, P \subseteq Q, Sound(r, P) PROVE Sound(r, Q)
BY DEF Sound

\* Edits that leave the step alone keep a row sound; COMPLETED needs the last step.
LEMMA SoundEdits ==
    ASSUME NEW r \in Rows, NEW P, Sound(r, P)
    PROVE  /\ \A x \in Statuses \ {"COMPLETED"} : Sound([r EXCEPT !.status = x], P)
           /\ \A S \in SUBSET Steps : Sound([r EXCEPT !.repaired = S], P)
           /\ \A b \in BOOLEAN : Sound([r EXCEPT !.recoverable = b], P)
           /\ \A b \in BOOLEAN : Sound([r EXCEPT !.injected = b], P)
           /\ r.step = NSteps => Sound([r EXCEPT !.status = "COMPLETED"], P)
BY DEF Sound, Rows

\* Advancing past a step that passed, or past a gate, keeps a row sound.
LEMMA SoundNext ==
    ASSUME NEW r \in Rows, NEW P, Sound(r, P), r.step \in Steps,
           Kind[r.step] = "GATE" \/ r.step \in P
    PROVE  Sound([r EXCEPT !.status = "RUNNING", !.step = @ + 1], P)
BY Constants DEF Sound, Rows, PromptSteps, Steps

\* Initially every copy of the row is sound.
LEMMA CopiesInit == Init => Copies
BY SoundStart DEF Init, Copies

\* Every step, overlapping or not, leaves every copy of the row sound.
LEMMA CopiesStep == ASSUME TypeOK, Positions, Copies, [Next]_vars PROVE Copies'
<1> USE RowEdits, RowFields DEF TypeOK, Copies, Statuses
<1>1. ASSUME NEW w \in Workers, Begin(w) PROVE Copies'
  BY <1>1 DEF Begin
<1>2. ASSUME NEW w \in Workers, Recover(w) PROVE Copies'
  <2>1. Sound([mem[w] EXCEPT !.status = "RUNNING"], passed)
    BY SoundEdits
  <2>2. Sound([mem[w] EXCEPT !.status = "RUNNING", !.recoverable = FALSE], passed)
    BY <2>1, SoundEdits
  <2>3. Sound([mem[w] EXCEPT !.status = "RUNNING", !.recoverable = FALSE,
                             !.injected = FALSE], passed)
    BY <2>2, SoundEdits
  <2>4. Sound(row', passed)
    BY <1>2, <2>1, <2>3 DEF Recover, Recovered, Copies
  <2>5. \/ mem'[w] = mem[w] \/ mem'[w] = StartRow
        \/ mem'[w] = [mem[w] EXCEPT !.status = "RUNNING"]
        \/ mem'[w] = [mem[w] EXCEPT !.status = "RUNNING", !.recoverable = FALSE,
                                    !.injected = FALSE]
    BY <1>2 DEF Recover, Recovered
  <2>6. Sound(mem'[w], passed)
    BY <2>1, <2>3, <2>5, SoundStart
  <2> QED
    BY <1>2, <2>4, <2>6 DEF Recover
<1>3. ASSUME NEW w \in Workers, Enter(w) PROVE Copies'
  <2>1. Sound([row EXCEPT !.status = "RUNNING"], passed)
    BY SoundEdits
  <2> QED
    BY <1>3, <2>1 DEF Enter
<1>4. ASSUME NEW w \in Workers, Call(w) PROVE Copies'
  BY <1>4 DEF Call
<1>5. ASSUME NEW w \in Workers, Answer(w) PROVE Copies'
  <2>1. passed \subseteq passed'
    BY <1>5 DEF Answer
  <2>2. Sound(row, passed')
    BY <2>1, SoundGrows
  <2>3. \A v \in Workers : Sound(mem[v], passed')
    BY <2>1, SoundGrows
  <2>4. \A d \in Deciders : Sound(dcopy[d], passed')
    BY <2>1, SoundGrows
  <2> QED
    BY <1>5, <2>2, <2>3, <2>4 DEF Answer
<1>6. ASSUME NEW w \in Workers, Pass(w) PROVE Copies'
  <2>1. Sound(PassedRow(w), passed)
    BY <1>6, SoundNext DEF Pass, GateStep, PassedRow, Positions
  <2> QED
    BY <1>6, <2>1 DEF Pass, GateStep
<1>7. ASSUME NEW w \in Workers, GateStep(w) PROVE Copies'
  <2>1. Sound(PassedRow(w), passed)
    BY <1>7, SoundNext DEF Pass, GateStep, PassedRow, Positions
  <2> QED
    BY <1>7, <2>1 DEF Pass, GateStep
<1>8. ASSUME NEW w \in Workers, Refuse(w) PROVE Copies'
  <2> DEFINE b == IF res[w] = "BLOCK" THEN mem[w].injected ELSE res[w] = "INJECTED"
  <2>1. Sound([mem[w] EXCEPT !.status = "BLOCKED"], passed)
    BY SoundEdits
  <2>2. Sound([mem[w] EXCEPT !.status = "BLOCKED", !.injected = b], passed)
    BY <2>1, SoundEdits
  <2> QED
    BY <1>8, <2>2 DEF Refuse
<1>9. ASSUME NEW w \in Workers, RequestRepair(w) PROVE Copies'
  <2>1. mem[w].repaired \cup {mem[w].step} \in SUBSET Steps
    BY <1>9 DEF RequestRepair, Positions
  <2>2. Sound([mem[w] EXCEPT !.repaired = @ \cup {mem[w].step}], passed)
    BY <2>1, SoundEdits
  <2> QED
    BY <1>9, <2>2 DEF RequestRepair
<1>10. ASSUME NEW w \in Workers, Repaired(w) PROVE Copies'
  <2>1. Sound([mem[w] EXCEPT !.status = "RUNNING"], passed)
    BY SoundEdits
  <2> QED
    BY <1>10, <2>1 DEF Repaired
<1>11. ASSUME NEW w \in Workers, Ask(w) PROVE Copies'
  BY <1>11 DEF Ask
<1>12. ASSUME NEW w \in Workers, CreateGate(w) PROVE Copies'
  BY <1>12 DEF CreateGate
<1>13. ASSUME NEW w \in Workers, Park(w) PROVE Copies'
  <2>1. Sound([mem[w] EXCEPT !.status = "WAITING_GATE"], passed)
    BY SoundEdits
  <2> QED
    BY <1>13, <2>1 DEF Park
<1>14. ASSUME NEW w \in Workers, Finish(w) PROVE Copies'
  <2>1. Sound([mem[w] EXCEPT !.status = "COMPLETED"], passed)
    BY <1>14, SoundEdits DEF Finish
  <2>2. Sound([mem[w] EXCEPT !.status = "BLOCKED"], passed)
    BY SoundEdits
  <2>3. Sound([mem[w] EXCEPT !.status = "BLOCKED", !.injected = FALSE], passed)
    BY <2>2, SoundEdits
  <2> QED
    BY <1>14, <2>1, <2>3 DEF Finish
<1>15. ASSUME NEW w \in Workers, Return(w) PROVE Copies'
  <2>1. Sound([mem[w] EXCEPT !.recoverable = TRUE], passed)
    BY SoundEdits
  <2> QED
    BY <1>15, <2>1, SoundStart DEF Return
<1>16. ASSUME NEW w \in Workers, Escape(w) PROVE Copies'
  BY <1>16, SoundStart DEF Escape
<1>17. ASSUME NEW w \in Workers, Fault(w) PROVE Copies'
  <2>1. Sound([row EXCEPT !.status = "BLOCKED"], passed)
    BY SoundEdits
  <2>2. Sound([row EXCEPT !.status = "BLOCKED", !.recoverable = TRUE], passed)
    BY <2>1, SoundEdits
  <2>3. Sound([row EXCEPT !.status = "BLOCKED", !.recoverable = TRUE, !.injected = TRUE], passed)
    BY <2>2, SoundEdits
  <2> QED
    BY <1>17, <2>3, SoundStart DEF Fault
<1>18. ASSUME NEW d \in Deciders, Review(d) PROVE Copies'
  BY <1>18 DEF Review
<1>19. ASSUME NEW d \in Deciders, Decide(d) PROVE Copies'
  BY <1>19 DEF Decide
<1>20. ASSUME NEW d \in Deciders, Load(d) PROVE Copies'
  BY <1>20 DEF Load
<1>21. ASSUME NEW d \in Deciders, Store(d) PROVE Copies'
  <2>1. Sound(row', passed)
    BY <1>21, SoundEdits DEF Store
  <2> QED
    BY <1>21, <2>1, SoundStart DEF Store
<1>22. CASE Crash
  BY <1>22, SoundStart DEF Crash
<1>23. CASE UNCHANGED vars
  BY <1>23
<1> QED
  BY <1>1, <1>2, <1>3, <1>4, <1>5, <1>6, <1>7, <1>8, <1>9, <1>10, <1>11, <1>12,
     <1>13, <1>14, <1>15, <1>16, <1>17, <1>18, <1>19, <1>20, <1>21, <1>22, <1>23
     DEF Next, Progress, Deciding

\* Initially nothing has been called.
LEMMA CallsInit == Init => CallsInOrder
BY DEF Init, CallsInOrder

\* Every step keeps the calls in order: a call is made from a sound copy.
LEMMA CallsStep == ASSUME TypeOK, Copies, CallsInOrder, [Next]_vars PROVE CallsInOrder'
<1> USE RowFields DEF TypeOK, CallsInOrder
<1>1. ASSUME NEW w \in Workers, Begin(w) PROVE CallsInOrder'
  BY <1>1 DEF Begin
<1>2. ASSUME NEW w \in Workers, Recover(w) PROVE CallsInOrder'
  BY <1>2 DEF Recover
<1>3. ASSUME NEW w \in Workers, Enter(w) PROVE CallsInOrder'
  BY <1>3 DEF Enter
<1>4. ASSUME NEW w \in Workers, Call(w) PROVE CallsInOrder'
  <2>1. Sound(mem[w], passed)
    BY DEF Copies
  <2> QED
    BY <1>4, <2>1 DEF Call, Sound
<1>5. ASSUME NEW w \in Workers, Answer(w) PROVE CallsInOrder'
  BY <1>5 DEF Answer
<1>6. ASSUME NEW w \in Workers, Pass(w) PROVE CallsInOrder'
  BY <1>6 DEF Pass
<1>7. ASSUME NEW w \in Workers, GateStep(w) PROVE CallsInOrder'
  BY <1>7 DEF GateStep
<1>8. ASSUME NEW w \in Workers, Refuse(w) PROVE CallsInOrder'
  BY <1>8 DEF Refuse
<1>9. ASSUME NEW w \in Workers, RequestRepair(w) PROVE CallsInOrder'
  BY <1>9 DEF RequestRepair
<1>10. ASSUME NEW w \in Workers, Repaired(w) PROVE CallsInOrder'
  BY <1>10 DEF Repaired
<1>11. ASSUME NEW w \in Workers, Ask(w) PROVE CallsInOrder'
  BY <1>11 DEF Ask
<1>12. ASSUME NEW w \in Workers, CreateGate(w) PROVE CallsInOrder'
  BY <1>12 DEF CreateGate
<1>13. ASSUME NEW w \in Workers, Park(w) PROVE CallsInOrder'
  BY <1>13 DEF Park
<1>14. ASSUME NEW w \in Workers, Finish(w) PROVE CallsInOrder'
  BY <1>14 DEF Finish
<1>15. ASSUME NEW w \in Workers, Return(w) PROVE CallsInOrder'
  BY <1>15 DEF Return
<1>16. ASSUME NEW w \in Workers, Escape(w) PROVE CallsInOrder'
  BY <1>16 DEF Escape
<1>17. ASSUME NEW w \in Workers, Fault(w) PROVE CallsInOrder'
  BY <1>17 DEF Fault
<1>18. ASSUME NEW d \in Deciders, Review(d) PROVE CallsInOrder'
  BY <1>18 DEF Review
<1>19. ASSUME NEW d \in Deciders, Decide(d) PROVE CallsInOrder'
  BY <1>19 DEF Decide
<1>20. ASSUME NEW d \in Deciders, Load(d) PROVE CallsInOrder'
  BY <1>20 DEF Load
<1>21. ASSUME NEW d \in Deciders, Store(d) PROVE CallsInOrder'
  BY <1>21 DEF Store
<1>22. CASE Crash
  BY <1>22 DEF Crash
<1>23. CASE UNCHANGED vars
  BY <1>23
<1> QED
  BY <1>1, <1>2, <1>3, <1>4, <1>5, <1>6, <1>7, <1>8, <1>9, <1>10, <1>11, <1>12,
     <1>13, <1>14, <1>15, <1>16, <1>17, <1>18, <1>19, <1>20, <1>21, <1>22, <1>23
     DEF Next, Progress, Deciding

\* The strengthened invariant, from which the rest follows.
THEOREM Inductive == Spec => []IInv
<1>1. Init => IInv
  BY TypeInit, PositionsInit, CopiesInit, CallsInit DEF IInv
<1>2. IInv /\ [Next]_vars => IInv'
  BY TypeStep, PositionsStep, CopiesStep, CallsStep DEF IInv
<1> QED
  BY <1>1, <1>2, PTL DEF Spec

\* The workflow's row, gates, requests and counters always have their types.
THEOREM TypeCorrect == Spec => []TypeOK
<1>1. IInv => TypeOK
  BY DEF IInv
<1> QED
  BY <1>1, Inductive, PTL

\* ReviewedInOrder holds of every behaviour.
THEOREM OrderKept == Spec => []ReviewedInOrder
<1>1. IInv => ReviewedInOrder
  BY DEF IInv, Copies, Sound, CallsInOrder, ReviewedInOrder
<1> QED
  BY <1>1, Inductive, PTL

\* CompletedIsReviewed holds of every behaviour.
THEOREM CompletionSound == Spec => []CompletedIsReviewed
<1>1. IInv => CompletedIsReviewed
  BY Constants DEF IInv, Copies, Sound, CompletedIsReviewed, PromptSteps, Steps
<1> QED
  BY <1>1, Inductive, PTL

-----------------------------------------------------------------------------
(* What holds for clients that keep one request in flight: the code does   *)
(* not enforce it, and without it this fails.                              *)

\* One request, be it an advance or a decision, is being served at most.
Exclusive ==
    /\ \A w, v \in Workers : pc[w] # "idle" /\ pc[v] # "idle" => w = v
    /\ \A d, e \in Deciders : dpc[d] # "idle" /\ dpc[e] # "idle" => d = e
    /\ \A w \in Workers, d \in Deciders : pc[w] = "idle" \/ dpc[d] = "idle"

\* An advance that got past Enter works on while no gate is open.
Beyond == {"step", "await", "answered", "repair", "gate"}
Unwatched == \A w \in Workers : pc[w] \in Beyond => OpenGates = {}

AtMostOne == \A g, h \in OpenGates : g = h

GateInv == Exclusive /\ Unwatched /\ AtMostOne

\* Nothing is under way and no gate open in the beginning.
LEMMA GateInit == Init => GateInv
  BY DEF Init, GateInv, Exclusive, Unwatched, AtMostOne, OpenGates, Beyond

\* Only an idle system admits a request.
LEMMA ExclusiveStep == ASSUME Serial, TypeOK, Exclusive, [Next]_vars PROVE Exclusive'
<1> USE DEF TypeOK, Exclusive
<1>1. ASSUME NEW w \in Workers, Begin(w) PROVE Exclusive'
  BY <1>1 DEF Begin, Admitted, AllIdle
<1>2. ASSUME NEW w \in Workers, pc[w] # "idle", NEW p \in PCs, Goto(w, p), UNCHANGED dpc
      PROVE  Exclusive'
  BY <1>2
<1>3. ASSUME NEW w \in Workers, Progress(w) \/ Escape(w) \/ Fault(w) PROVE Exclusive'
  <2>1. pc[w] # "idle" /\ UNCHANGED dpc
    BY <1>3 DEF Progress, Recover, Enter, Call, Answer, Pass, GateStep, Refuse, RequestRepair,
                Repaired, Ask, CreateGate, Park, Finish, Return, Escape, Fault
  <2>2. \E p \in PCs : Goto(w, p)
    BY <1>3 DEF Progress, Recover, Enter, Call, Answer, Pass, GateStep, Refuse, RequestRepair,
                Repaired, Ask, CreateGate, Park, Finish, Return, Escape, Fault, PCs
  <2> QED
    BY <2>1, <2>2, <1>2
<1>4. ASSUME NEW d \in Deciders, Review(d) PROVE Exclusive'
  BY <1>4 DEF Review, Admitted, AllIdle
<1>5. ASSUME NEW d \in Deciders, Deciding(d) PROVE Exclusive'
  BY <1>5 DEF Deciding, Decide, Load, Store
<1>6. CASE Crash
  BY <1>6 DEF Crash
<1>7. CASE UNCHANGED vars
  BY <1>7
<1> QED
  BY <1>1, <1>3, <1>4, <1>5, <1>6, <1>7 DEF Next

\* Where no gate opens and no advance gets past Enter, nothing changes.
LEMMA GatesKept ==
    ASSUME TypeOK, GateInv, UNCHANGED gates,
           \A w \in Workers : pc'[w] \in Beyond => pc[w] \in Beyond \/ OpenGates = {}
    PROVE  Unwatched' /\ AtMostOne'
  BY DEF GateInv, Unwatched, AtMostOne, OpenGates

\* Advances open a gate only where none is open; decisions close one.
LEMMA GateStepInv == ASSUME Serial, TypeOK, GateInv, [Next]_vars PROVE Unwatched' /\ AtMostOne'
<1> USE DEF TypeOK
<1>0. Exclusive'
  BY ExclusiveStep DEF GateInv
<1>1. ASSUME NEW w \in Workers, Begin(w) PROVE Unwatched' /\ AtMostOne'
  BY <1>1, GatesKept DEF Begin, Beyond
<1>2. ASSUME NEW w \in Workers, Recover(w) PROVE Unwatched' /\ AtMostOne'
  BY <1>2, GatesKept DEF Recover, Beyond
<1>3. ASSUME NEW w \in Workers, Enter(w) PROVE Unwatched' /\ AtMostOne'
  BY <1>3, GatesKept DEF Enter, Beyond
<1>4. ASSUME NEW w \in Workers, pc[w] \in Beyond, UNCHANGED gates,
             \/ Call(w) \/ Answer(w) \/ Pass(w) \/ GateStep(w) \/ Refuse(w)
             \/ RequestRepair(w) \/ Repaired(w) \/ Ask(w) \/ Finish(w) \/ Escape(w)
      PROVE  Unwatched' /\ AtMostOne'
  <2>1. \A v \in Workers : v # w => pc'[v] = pc[v]
    BY <1>4 DEF Call, Answer, Pass, GateStep, Refuse, RequestRepair, Repaired, Ask, Finish, Escape
  <2> QED
    BY <1>4, <2>1, GatesKept
<1>5. ASSUME NEW w \in Workers, CreateGate(w) PROVE Unwatched' /\ AtMostOne'
  <2>1. OpenGates = {} /\ pc[w] = "gate"
    BY <1>5 DEF CreateGate, GateInv, Unwatched, Beyond
  <2>2. gates' = Append(gates, NewGate(w))
    BY <1>5, <2>1 DEF CreateGate
  <2>3. OpenGates' \subseteq {Len(gates) + 1}
    BY <2>1, <2>2 DEF OpenGates
  <2>4. \A v \in Workers : pc'[v] \notin Beyond
    <3> TAKE v \in Workers
    <3>1. pc' = [pc EXCEPT ![w] = "park"]
      BY <1>5 DEF CreateGate
    <3>2. v # w => pc[v] = "idle"
      BY <2>1 DEF GateInv, Exclusive
    <3> QED
      BY <3>1, <3>2 DEF Beyond
  <2> QED
    BY <2>3, <2>4 DEF Unwatched, AtMostOne
<1>6. ASSUME NEW w \in Workers, Park(w) \/ Return(w) \/ Fault(w) PROVE Unwatched' /\ AtMostOne'
  BY <1>6, GatesKept DEF Park, Return, Fault, Beyond
<1>7. ASSUME NEW d \in Deciders, Review(d) \/ Load(d) \/ Store(d) PROVE Unwatched' /\ AtMostOne'
  BY <1>7, GatesKept DEF Review, Load, Store
<1>8. ASSUME NEW d \in Deciders, Decide(d) PROVE Unwatched' /\ AtMostOne'
  <2>1. \A w \in Workers : pc[w] = "idle" /\ pc'[w] = pc[w]
    BY <1>8 DEF Decide, GateInv, Exclusive
  <2>2. OpenGates' \subseteq OpenGates
    <3>1. gates' = [gates EXCEPT ![dgate[d]].status = dverdict[d]] /\ dverdict[d] \in Verdicts
      BY <1>8 DEF Decide
    <3>2. dverdict[d] # "OPEN"
      BY <3>1 DEF Verdicts
    <3>3. DOMAIN gates' = DOMAIN gates
      BY <3>1
    <3>4. ASSUME NEW g \in OpenGates' PROVE g \in OpenGates
      <4>1. g \in DOMAIN gates /\ gates'[g].status = "OPEN"
        BY <3>3, <3>4 DEF OpenGates
      <4>2. gates[g] \in GateRows
        BY <4>1
      <4>3. g # dgate[d]
        BY <3>1, <3>2, <4>1, <4>2 DEF GateRows
      <4> QED
        BY <3>1, <4>1, <4>3 DEF OpenGates
    <3> QED
      BY <3>4
  <2> QED
    BY <2>1, <2>2 DEF GateInv, Unwatched, AtMostOne, Beyond
<1>9. CASE Crash
  BY <1>9, GatesKept DEF Crash, Beyond
<1>10. CASE UNCHANGED vars
  BY <1>10, GatesKept
<1>11. ASSUME NEW w \in Workers,
              \/ Call(w) \/ Answer(w) \/ Pass(w) \/ GateStep(w) \/ Refuse(w)
              \/ RequestRepair(w) \/ Repaired(w) \/ Ask(w) \/ Finish(w) \/ Escape(w)
       PROVE  pc[w] \in Beyond /\ UNCHANGED gates
  BY <1>11 DEF Call, Answer, Pass, GateStep, Refuse, RequestRepair, Repaired, Ask, Finish,
               Escape, Beyond
<1> QED
  BY <1>1, <1>2, <1>3, <1>4, <1>5, <1>6, <1>7, <1>8, <1>9, <1>10, <1>11
     DEF Next, Progress, Deciding

\* Under Serial, requests exclude each other, an advance beyond the look for
\* open gates finds none, and there is at most one.
THEOREM SerialGates == ASSUME Serial PROVE Spec => []GateInv
<1>1. Init => GateInv
  BY GateInit
<1>2. TypeOK /\ GateInv /\ [Next]_vars => GateInv'
  BY ExclusiveStep, GateStepInv, Serial DEF GateInv
<1> QED
  BY <1>1, <1>2, TypeCorrect, PTL DEF Spec

\* OneOpenGate holds of every behaviour in which clients keep one request in
\* flight, whatever crashes and failures come in between.
THEOREM OneGateAtATime == ASSUME Serial PROVE Spec => []OneOpenGate
<1>1. AtMostOne => OneOpenGate
  <2> SUFFICES ASSUME AtMostOne PROVE OneOpenGate
    OBVIOUS
  <2>1. CASE OpenGates = {}
    BY <2>1, FS_EmptySet DEF OneOpenGate
  <2>2. ASSUME NEW g \in OpenGates PROVE OneOpenGate
    <3>1. OpenGates = {g}
      BY <2>2 DEF AtMostOne
    <3>2. Cardinality({g}) = 1
      BY FS_Singleton
    <3> QED
      BY <3>1, <3>2 DEF OneOpenGate
  <2> QED
    BY <2>1, <2>2
<1> QED
  BY <1>1, SerialGates, PTL DEF GateInv

-----------------------------------------------------------------------------
(* What the one request that is being served knows.                         *)

\* Where an advance holds more than the database does.
Holding == {"step", "await", "answered", "repair", "gate", "park"}
Quiet == \A w \in Workers : pc[w] \notin Holding

\* Elsewhere its copy, and the one a decision writes back, is the row.
Current ==
    /\ \A w \in Workers : pc[w] \in {"recover", "wrap"} => mem[w] = row
    /\ \A d \in Deciders : dpc[d] = "store" => dcopy[d] = row

\* A repair that a row has not counted was paid for by a crash or a failure.
CountedIn(r) == \A s \in Steps : s \notin r.repaired => repairRuns[s] <= crashes + faults
Budgeted ==
    /\ RepairBudget
    /\ Quiet => CountedIn(row)
    /\ \A w \in Workers : pc[w] \in Holding => CountedIn(mem[w])

BudgetInv == Exclusive /\ Current /\ Budgeted

\* Who is served is alone.
LEMMA Alone ==
    ASSUME Exclusive
    PROVE  /\ \A w \in Workers : pc[w] # "idle" =>
                 (\A v \in Workers : v # w => pc[v] = "idle") /\ \A d \in Deciders : dpc[d] = "idle"
           /\ \A d \in Deciders : dpc[d] # "idle" =>
                 (\A e \in Deciders : e # d => dpc[e] = "idle") /\ \A w \in Workers : pc[w] = "idle"
BY DEF Exclusive

\* What is kept of the row outside an advance is the row.
LEMMA CurrentStep ==
    ASSUME Serial, TypeOK, Exclusive, Current, [Next]_vars
    PROVE  Current'
<1> USE Alone DEF TypeOK, Current
<1>1. ASSUME NEW w \in Workers, Begin(w) PROVE Current'
  BY <1>1 DEF Begin, Admitted, AllIdle
<1>2. ASSUME NEW w \in Workers, Recover(w) PROVE Current'
  BY ZenonT(40), <1>2 DEF Recover
<1>3. ASSUME NEW w \in Workers, Enter(w) PROVE Current'
  BY ZenonT(40), <1>3 DEF Enter
<1>4. ASSUME NEW w \in Workers, Call(w) PROVE Current'
  BY <1>4 DEF Call
<1>5. ASSUME NEW w \in Workers, Answer(w) PROVE Current'
  BY <1>5 DEF Answer
<1>6. ASSUME NEW w \in Workers, Pass(w) PROVE Current'
  BY <1>6 DEF Pass
<1>7. ASSUME NEW w \in Workers, GateStep(w) PROVE Current'
  BY <1>7 DEF GateStep
<1>8. ASSUME NEW w \in Workers, Refuse(w) PROVE Current'
  BY <1>8 DEF Refuse
<1>9. ASSUME NEW w \in Workers, RequestRepair(w) PROVE Current'
  BY <1>9 DEF RequestRepair
<1>10. ASSUME NEW w \in Workers, Repaired(w) PROVE Current'
  BY ZenonT(40), <1>10 DEF Repaired
<1>11. ASSUME NEW w \in Workers, Ask(w) PROVE Current'
  BY <1>11 DEF Ask
<1>12. ASSUME NEW w \in Workers, CreateGate(w) PROVE Current'
  BY <1>12 DEF CreateGate
<1>13. ASSUME NEW w \in Workers, Park(w) PROVE Current'
  BY <1>13 DEF Park
<1>14. ASSUME NEW w \in Workers, Finish(w) PROVE Current'
  BY <1>14 DEF Finish
<1>15. ASSUME NEW w \in Workers, Return(w) PROVE Current'
  BY <1>15 DEF Return
<1>16. ASSUME NEW w \in Workers, Escape(w) PROVE Current'
  BY <1>16 DEF Escape
<1>17. ASSUME NEW w \in Workers, Fault(w) PROVE Current'
  BY <1>17 DEF Fault
<1>18. ASSUME NEW d \in Deciders, Review(d) PROVE Current'
  BY <1>18 DEF Review, Admitted, AllIdle
<1>19. ASSUME NEW d \in Deciders, Decide(d) PROVE Current'
  BY <1>19 DEF Decide
<1>20. ASSUME NEW d \in Deciders, Load(d) PROVE Current'
  BY <1>20 DEF Load
<1>21. ASSUME NEW d \in Deciders, Store(d) PROVE Current'
  BY <1>21 DEF Store
<1>22. CASE Crash
  BY <1>22 DEF Crash
<1>23. CASE UNCHANGED vars
  BY <1>23
<1> QED
  BY <1>1, <1>2, <1>3, <1>4, <1>5, <1>6, <1>7, <1>8, <1>9, <1>10, <1>11, <1>12,
     <1>13, <1>14, <1>15, <1>16, <1>17, <1>18, <1>19, <1>20, <1>21, <1>22, <1>23
     DEF Next, Progress, Deciding

\* An advance takes the counts along when it begins to hold more than the row, and
\* leaves them in the row when it has stored what it holds.
LEMMA BudgetKept ==
    ASSUME TypeOK, BudgetInv, NEW w \in Workers, pc[w] # "idle", NEW p \in PCs,
           pc' = [pc EXCEPT ![w] = p], UNCHANGED <<repairRuns, crashes, faults>>,
           LET held == IF pc[w] \in Holding THEN mem[w].repaired ELSE row.repaired
           IN  IF p \in Holding THEN mem'[w].repaired = held ELSE row'.repaired = held
    PROVE  Budgeted'
<1>1. \A v \in Workers : v # w => pc[v] = "idle"
  BY Alone DEF BudgetInv
<1>2. RepairBudget'
  BY DEF BudgetInv, Budgeted, RepairBudget
<1>3. pc[w] \notin Holding => Quiet
  BY <1>1 DEF Quiet, Holding
<1>4. \A s \in Steps :
         s \notin (IF pc[w] \in Holding THEN mem[w].repaired ELSE row.repaired) =>
            repairRuns[s] <= crashes + faults
  BY <1>3 DEF BudgetInv, Budgeted, CountedIn
<1>5. pc'[w] = p /\ \A v \in Workers : v # w => pc'[v] = "idle"
  BY <1>1 DEF TypeOK
<1>6. ASSUME Quiet' PROVE CountedIn(row)'
  BY <1>4, <1>5, <1>6 DEF CountedIn, Quiet
<1>7. ASSUME NEW v \in Workers, pc'[v] \in Holding PROVE CountedIn(mem[v])'
  <2>1. v = w
    BY <1>5, <1>7 DEF Holding
  <2> QED
    BY <1>4, <1>5, <1>7, <2>1 DEF CountedIn
<1> QED
  BY <1>2, <1>6, <1>7 DEF Budgeted

\* A repair is counted in the copy at once, and lost only with a crash or a failure.
LEMMA BudgetStep ==
    ASSUME Serial, TypeOK, Positions, BudgetInv, [Next]_vars
    PROVE  Budgeted'
<1>1. ASSUME NEW w \in Workers, Begin(w) PROVE Budgeted'
  BY <1>1, RowFields DEF Begin, Admitted, AllIdle, TypeOK, BudgetInv, Current, Budgeted, CountedIn,
     RepairBudget, Quiet, Holding
<1>2. ASSUME NEW w \in Workers, Recover(w) PROVE Budgeted'
  <2>1. mem[w] = row /\ Recovered(mem[w]).repaired = mem[w].repaired
    BY <1>2, RowFields DEF Recover, Recovered, BudgetInv, Current, TypeOK, Rows
  <2>2. row'.repaired = row.repaired
    BY <1>2, <2>1 DEF Recover
  <2>3. \E p \in {"idle", "enter"} : pc' = [pc EXCEPT ![w] = p]
    BY <1>2 DEF Recover
  <2> QED
    BY <1>2, <2>2, <2>3, BudgetKept DEF Recover, PCs, Holding
<1>3. ASSUME NEW w \in Workers, Enter(w) PROVE Budgeted'
  <2>1. mem'[w].repaired = row.repaired /\ row' = row
    BY <1>3, RowFields DEF Enter, TypeOK, Rows
  <2>2. \E p \in {"wrap", "park", "step"} : pc' = [pc EXCEPT ![w] = p]
    BY <1>3 DEF Enter
  <2> QED
    BY <1>3, <2>1, <2>2, BudgetKept DEF Enter, PCs, Holding
<1>4. ASSUME NEW w \in Workers, Call(w) PROVE Budgeted'
  BY <1>4, Alone, RowFields DEF Call, TypeOK, BudgetInv, Current, Budgeted, CountedIn, RepairBudget, Quiet,
     Holding
<1>5. ASSUME NEW w \in Workers, Answer(w) PROVE Budgeted'
  BY <1>5, Alone, RowFields DEF Answer, TypeOK, BudgetInv, Current, Budgeted, CountedIn, RepairBudget, Quiet,
     Holding
<1>6. ASSUME NEW w \in Workers, Pass(w) PROVE Budgeted'
  <2>1. PassedRow(w).repaired = mem[w].repaired
    BY DEF PassedRow, TypeOK, Rows
  <2>2. mem'[w].repaired = mem[w].repaired
    BY <1>6, <2>1 DEF Pass, TypeOK
  <2>3. \E p \in {"gate", "step"} : pc' = [pc EXCEPT ![w] = p]
    BY <1>6 DEF Pass
  <2> QED
    BY <1>6, <2>2, <2>3, BudgetKept DEF Pass, PCs, Holding
<1>7. ASSUME NEW w \in Workers, GateStep(w) PROVE Budgeted'
  <2>1. PassedRow(w).repaired = mem[w].repaired
    BY DEF PassedRow, TypeOK, Rows
  <2>2. mem'[w].repaired = mem[w].repaired
    BY <1>7, <2>1 DEF GateStep, TypeOK
  <2> QED
    BY <1>7, <2>2, BudgetKept DEF GateStep, PCs, Holding
<1>8. ASSUME NEW w \in Workers, Refuse(w) PROVE Budgeted'
  BY <1>8, Alone, RowFields DEF Refuse, TypeOK, BudgetInv, Current, Budgeted, CountedIn, RepairBudget, Quiet,
     Holding
<1>9. ASSUME NEW w \in Workers, RequestRepair(w) PROVE Budgeted'
  <2> DEFINE s == mem[w].step
  <2>1. s \in Steps /\ s \notin mem[w].repaired /\ CountedIn(mem[w])
    BY <1>9 DEF RequestRepair, CanAutoRepair, Positions, BudgetInv, Budgeted, Holding
  <2>2. /\ repairRuns' = [repairRuns EXCEPT ![s] = @ + 1]
        /\ mem'[w].repaired = mem[w].repaired \cup {s}
    BY <1>9 DEF RequestRepair, TypeOK, Rows
  <2>3. repairRuns[s] <= crashes + faults
    BY <2>1 DEF CountedIn
  <2> HIDE DEF s
  <2>4. RepairBudget'
    BY <1>9, <2>2, <2>3 DEF RequestRepair, TypeOK, BudgetInv, Budgeted, RepairBudget
  <2>5. CountedIn(mem[w])'
    BY <1>9, <2>1, <2>2 DEF RequestRepair, TypeOK, CountedIn
  <2>6. pc'[w] = "repair" /\ \A v \in Workers : v # w => pc'[v] = "idle"
    BY <1>9, Alone DEF RequestRepair, TypeOK, BudgetInv
  <2> QED
    BY <2>4, <2>5, <2>6 DEF Budgeted, Quiet, Holding
<1>10. ASSUME NEW w \in Workers, Repaired(w) PROVE Budgeted'
  <2>1. mem'[w].repaired = mem[w].repaired
    BY <1>10 DEF Repaired, TypeOK, Rows
  <2>2. \E p \in {"step", "answered"} : pc' = [pc EXCEPT ![w] = p]
    BY <1>10 DEF Repaired
  <2> QED
    BY <1>10, <2>1, <2>2, BudgetKept DEF Repaired, PCs, Holding
<1>11. ASSUME NEW w \in Workers, Ask(w) PROVE Budgeted'
  BY <1>11, Alone, RowFields DEF Ask, TypeOK, BudgetInv, Current, Budgeted, CountedIn, RepairBudget, Quiet,
     Holding
<1>12. ASSUME NEW w \in Workers, CreateGate(w) PROVE Budgeted'
  BY <1>12, Alone, RowFields DEF CreateGate, TypeOK, BudgetInv, Current, Budgeted, CountedIn, RepairBudget, Quiet,
     Holding
<1>13. ASSUME NEW w \in Workers, Park(w) PROVE Budgeted'
  BY <1>13, Alone, RowFields DEF Park, TypeOK, BudgetInv, Current, Budgeted, CountedIn, RepairBudget, Quiet,
     Holding
<1>14. ASSUME NEW w \in Workers, Finish(w) PROVE Budgeted'
  <2>1. row'.repaired = mem[w].repaired
    BY <1>14 DEF Finish, TypeOK, Rows
  <2> QED
    BY <1>14, <2>1, BudgetKept DEF Finish, PCs, Holding
<1>15. ASSUME NEW w \in Workers, Return(w) PROVE Budgeted'
  <2>1. row'.repaired = row.repaired
    BY <1>15 DEF Return, TypeOK, Rows, BudgetInv, Current
  <2> QED
    BY <1>15, <2>1, BudgetKept DEF Return, PCs, Holding
<1>16. ASSUME NEW w \in Workers, Escape(w) PROVE Budgeted'
  BY <1>16, Alone, RowFields DEF Escape, TypeOK, BudgetInv, Current, Budgeted, CountedIn, RepairBudget, Quiet,
     Holding
<1>17. ASSUME NEW w \in Workers, Fault(w) PROVE Budgeted'
  BY <1>17, Alone, RowFields DEF Fault, TypeOK, BudgetInv, Current, Budgeted, CountedIn, RepairBudget, Quiet,
     Holding
<1>18. ASSUME NEW d \in Deciders, Review(d) PROVE Budgeted'
  BY <1>18, Alone, RowFields DEF Review, TypeOK, BudgetInv, Current, Budgeted, CountedIn, RepairBudget, Quiet,
     Holding, Admitted, AllIdle
<1>19. ASSUME NEW d \in Deciders, Decide(d) PROVE Budgeted'
  BY <1>19, Alone, RowFields DEF Decide, TypeOK, BudgetInv, Current, Budgeted, CountedIn, RepairBudget, Quiet,
     Holding, Admitted, AllIdle
<1>20. ASSUME NEW d \in Deciders, Load(d) PROVE Budgeted'
  BY <1>20, Alone, RowFields DEF Load, TypeOK, BudgetInv, Current, Budgeted, CountedIn, RepairBudget, Quiet,
     Holding, Admitted, AllIdle
<1>21. ASSUME NEW d \in Deciders, Store(d) PROVE Budgeted'
  BY <1>21, Alone, RowFields DEF Store, TypeOK, BudgetInv, Current, Budgeted, CountedIn, RepairBudget, Quiet,
     Holding, Admitted, AllIdle
<1>22. CASE Crash
  BY <1>22 DEF Crash, TypeOK, BudgetInv, Budgeted, CountedIn, RepairBudget, Quiet, Holding
<1>23. CASE UNCHANGED vars
  BY <1>23 DEF BudgetInv, Budgeted, CountedIn, RepairBudget, Quiet
<1> QED
  BY <1>1, <1>2, <1>3, <1>4, <1>5, <1>6, <1>7, <1>8, <1>9, <1>10, <1>11, <1>12,
     <1>13, <1>14, <1>15, <1>16, <1>17, <1>18, <1>19, <1>20, <1>21, <1>22, <1>23
     DEF Next, Progress, Deciding

\* Nothing has been repaired in the beginning.
LEMMA BudgetInit == Init => BudgetInv
<1>1. Init => Exclusive
  BY DEF Init, Exclusive
<1>2. Init => Current /\ Budgeted
  BY Constants DEF Init, Current, Budgeted, RepairBudget, CountedIn, Holding
<1> QED
  BY <1>1, <1>2 DEF BudgetInv

\* One request at a time repairs what a critic rejects once, and once more for each
\* crash or failure that lost the count (_can_auto_repair, _auto_repair).
THEOREM RepairsCounted == ASSUME Serial PROVE Spec => []RepairBudget
<1>1. TypeOK /\ Positions /\ BudgetInv /\ [Next]_vars => BudgetInv'
  BY ExclusiveStep, CurrentStep, BudgetStep, Serial DEF BudgetInv
<1>2. IInv => TypeOK /\ Positions
  BY DEF IInv
<1>3. BudgetInv => RepairBudget
  BY DEF BudgetInv, Budgeted
<1> QED
  BY BudgetInit, <1>1, <1>2, <1>3, Inductive, PTL DEF Spec

-----------------------------------------------------------------------------
(* What the gates guard while nothing crashes and nothing fails.            *)

\* Of a table of gates: those that are open, and which steps have been approved.
OpenOf(gs) == {g \in DOMAIN gs : gs[g].status = "OPEN"}
ApprovedIn(gs, s) ==
    \E g \in DOMAIN gs : gs[g].step = s /\ gs[g].after /\ gs[g].status = "APPROVED"
Cleared(gs, n) == \A s \in Gated : s < n => ApprovedIn(gs, s)

\* A row that waits: its gate is open, and all the steps before this gate are approved.
Held(gs, r) ==
    \E g \in OpenOf(gs) :
       /\ Cleared(gs, gs[g].step)
       /\ r.step = IF gs[g].after THEN gs[g].step + 1 ELSE gs[g].step

\* No row is marked for a recovery that only failures call for.
Clean(r) == ~r.recoverable /\ ~r.injected
Spotless == Clean(row) /\ \A w \in Workers : Clean(mem[w]) /\ res[w] # "INJECTED"

\* An advance works at a step whose gates are all behind it.
WatchedAt(w) ==
    /\ pc[w] \in {"step", "await", "answered", "repair"} => Cleared(gates, mem[w].step)
    /\ pc[w] \in {"await", "answered", "repair"} => Kind[mem[w].step] # "GATE"
    /\ pc[w] = "gate" => Cleared(gates, NewGate(w).step)
    /\ pc[w] = "park" => Held(gates, mem[w])
    /\ pc[w] \in Holding => row.status # "COMPLETED"
Watched == \A w \in Workers : WatchedAt(w)

\* A decision is about the open gate, and its approval clears the row's step.
DecidedAt(d) ==
    /\ dpc[d] = "decide" => dgate[d] \in OpenOf(gates)
    /\ dpc[d] \in {"load", "store"} =>
          /\ OpenOf(gates) = {} /\ row.status # "COMPLETED"
          /\ dverdict[d] = "APPROVED" => Cleared(gates, row.step)
Decided == \A d \in Deciders : DecidedAt(d)

\* Between requests the row tells how far it is cleared.
Settled(gs, r) ==
    /\ r.status # "WAITING_GATE" => OpenOf(gs) = {}
    /\ r.status = "WAITING_GATE" => Held(gs, r)
    /\ r.status \in {"RUNNING", "COMPLETED"} => Cleared(gs, r.step)
Rest ==
    Quiet /\ (\A d \in Deciders : dpc[d] \in {"idle", "decide"}) => Settled(gates, row)

\* A rejection is on its way into the row, or the row is blocked for good.
Final ==
    Rejected =>
       /\ Quiet
       /\ \/ row.status = "BLOCKED" /\ \A d \in Deciders : dpc[d] = "idle"
          \/ \E d \in Deciders : dpc[d] \in {"load", "store"} /\ dverdict[d] = "REJECTED"

\* What was called was cleared.
CalledCleared == \A t \in executed : Cleared(gates, t)

Guarded == Spotless /\ Watched /\ Decided /\ Rest /\ Final /\ CalledCleared

GuardInv == GateInv /\ Current /\ (NoFailure => Guarded)

\* The gates of the engine are such a table.
LEMMA GateTables ==
    OpenGates = OpenOf(gates) /\ \A s : GateApproved(s) <=> ApprovedIn(gates, s)
BY DEF OpenGates, OpenOf, GateApproved, ApprovedIn

\* A gate that is raised where none is open.
LEMMA GateRaised ==
    ASSUME NEW gs \in Seq(GateRows), NEW row_ \in GateRows, row_.status = "OPEN", OpenOf(gs) = {}
    PROVE  /\ OpenOf(Append(gs, row_)) = {Len(gs) + 1}
           /\ Append(gs, row_)[Len(gs) + 1] = row_
           /\ \A n : Cleared(gs, n) => Cleared(Append(gs, row_), n)
           /\ (\E g \in DOMAIN Append(gs, row_) : Append(gs, row_)[g].status = "REJECTED") =>
                 \E g \in DOMAIN gs : gs[g].status = "REJECTED"
<1> DEFINE hs == Append(gs, row_)
<1>1. /\ Len(gs) \in Nat /\ DOMAIN gs = 1 .. Len(gs) /\ DOMAIN hs = 1 .. Len(gs) + 1
      /\ hs[Len(gs) + 1] = row_ /\ \A g \in 1 .. Len(gs) : hs[g] = gs[g]
  BY AppendProperties, LenProperties
<1> HIDE DEF hs
<1>2. OpenOf(hs) = {Len(gs) + 1}
  <2>1. \A g \in OpenOf(hs) : g = Len(gs) + 1
    BY <1>1 DEF OpenOf
  <2>2. Len(gs) + 1 \in OpenOf(hs)
    BY <1>1 DEF OpenOf
  <2> QED
    BY <2>1, <2>2
<1>3. \A s : ApprovedIn(gs, s) => ApprovedIn(hs, s)
  BY <1>1 DEF ApprovedIn
<1>4. \A n : Cleared(gs, n) => Cleared(hs, n)
  BY <1>3 DEF Cleared
<1>5. (\E g \in DOMAIN hs : hs[g].status = "REJECTED") =>
         \E g \in DOMAIN gs : gs[g].status = "REJECTED"
  BY <1>1
<1> QED
  BY <1>1, <1>2, <1>4, <1>5 DEF hs

\* The open gate is decided.
LEMMA GateDecided ==
    ASSUME NEW gs \in Seq(GateRows), NEW g \in OpenOf(gs), \A h \in OpenOf(gs) : h = g,
           NEW v \in Verdicts
    PROVE  LET hs == [gs EXCEPT ![g].status = v]
           IN  /\ OpenOf(hs) = {}
               /\ \A n : Cleared(gs, n) => Cleared(hs, n)
               /\ v = "APPROVED" /\ gs[g].after => ApprovedIn(hs, gs[g].step)
               /\ v = "APPROVED" /\ (\E h \in DOMAIN hs : hs[h].status = "REJECTED") =>
                     \E h \in DOMAIN gs : gs[h].status = "REJECTED"
<1> DEFINE hs == [gs EXCEPT ![g].status = v]
<1>1. g \in DOMAIN gs /\ gs[g] \in GateRows /\ gs[g].status = "OPEN"
  BY ElementOfSeq, LenProperties DEF OpenOf
<1>2. /\ DOMAIN hs = DOMAIN gs
      /\ \A h \in DOMAIN gs : h # g => hs[h] = gs[h]
      /\ hs[g].status = v /\ hs[g].step = gs[g].step /\ hs[g].after = gs[g].after
  BY <1>1 DEF GateRows
<1> HIDE DEF hs
<1>3. v # "OPEN"
  BY DEF Verdicts
<1>4. OpenOf(hs) = {}
  BY <1>2, <1>3 DEF OpenOf
<1>5. \A s : ApprovedIn(gs, s) => ApprovedIn(hs, s)
  BY <1>1, <1>2 DEF ApprovedIn
<1>6. \A n : Cleared(gs, n) => Cleared(hs, n)
  BY <1>5 DEF Cleared
<1>7. v = "APPROVED" /\ gs[g].after => ApprovedIn(hs, gs[g].step)
  BY <1>1, <1>2 DEF ApprovedIn
<1>8. v = "APPROVED" /\ (\E h \in DOMAIN hs : hs[h].status = "REJECTED") =>
         \E h \in DOMAIN gs : gs[h].status = "REJECTED"
  BY <1>1, <1>2
<1> QED
  BY <1>4, <1>6, <1>7, <1>8 DEF hs

\* Behind an approved step, or one without a gate, the next is clear.
LEMMA ClearedNext ==
    ASSUME NEW gs, NEW n \in Nat, Cleared(gs, n), n \in Gated => ApprovedIn(gs, n)
    PROVE  Cleared(gs, n + 1)
<1>1. Gated \subseteq Nat
  <2>1. Gated \subseteq Steps
    BY ConstantsAssumption DEF Gated
  <2>2. Steps \subseteq Nat
    BY Constants DEF Steps
  <2> QED
    BY <2>1, <2>2
<1>2. \A s \in Gated : s < n + 1 => s < n \/ s = n
  BY <1>1
<1> QED
  BY <1>2 DEF Cleared

\* What an advance has to see to when it moves on and leaves the gates as they are.
LEMMA GuardedMove ==
    ASSUME TypeOK, GateInv, Guarded, NEW w \in Workers, pc[w] # "idle", NEW p \in PCs,
           pc' = [pc EXCEPT ![w] = p], gates' = gates, UNCHANGED <<dpc, dgate, dverdict>>,
           \A v \in Workers : v # w => mem'[v] = mem[v] /\ res'[v] = res[v],
           Clean(row'), Clean(mem'[w]), res'[w] # "INJECTED",
           WatchedAt(w)',
           p \notin Holding => Settled(gates, row'),
           Rejected => p \notin Holding /\ row'.status = "BLOCKED",
           \A t \in executed' : Cleared(gates, t)
    PROVE  Guarded'
<1>1. (\A v \in Workers : v # w => pc[v] = "idle") /\ \A d \in Deciders : dpc[d] = "idle"
  BY Alone DEF GateInv
<1>2. (\A v \in Workers : v # w => pc'[v] = "idle") /\ pc'[w] = p /\ \A d \in Deciders : dpc'[d] = "idle"
  BY <1>1 DEF TypeOK
<1>3. Spotless'
  BY DEF Guarded, Spotless, Clean
<1>4. Watched'
  <2>1. ASSUME NEW v \in Workers, v # w PROVE WatchedAt(v)'
    BY <1>2, <2>1 DEF WatchedAt, Holding
  <2> QED
    BY <2>1 DEF Watched
<1>5. Decided'
  BY <1>2 DEF Decided, DecidedAt
<1>6. Rest'
  BY <1>2 DEF Rest, Quiet
<1>7. Rejected' = Rejected
  BY DEF Rejected
<1>8. Final'
  BY <1>2, <1>7 DEF Final, Quiet, Holding
<1>9. CalledCleared'
  BY DEF CalledCleared
<1> QED
  BY <1>3, <1>4, <1>5, <1>6, <1>8, <1>9 DEF Guarded

\* What is known of the row where an advance holds nothing more.
LEMMA RowSettled ==
    ASSUME GateInv, Guarded, NEW w \in Workers, pc[w] # "idle", pc[w] \notin Holding
    PROVE  Settled(gates, row) /\ (Rejected => row.status = "BLOCKED")
<1>1. (\A v \in Workers : v # w => pc[v] = "idle") /\ \A d \in Deciders : dpc[d] = "idle"
  BY Alone DEF GateInv
<1>2. Quiet
  BY <1>1 DEF Quiet, Holding
<1> QED
  BY <1>1, <1>2 DEF Guarded, Rest, Final

\* While an advance holds more, nothing has been rejected.
LEMMA NoneRejected ==
    ASSUME Guarded, NEW w \in Workers, pc[w] \in Holding PROVE ~Rejected
BY DEF Guarded, Final, Quiet

\* While nothing has failed, an advance and a decision keep what the gates guard.
LEMMA GuardedStep ==
    ASSUME Serial, TypeOK, Positions, GateInv, Current, Guarded, NoFailure', [Next]_vars
    PROVE  Guarded'
<1>0. NoFailure
  <2>1. faults' \in {faults, faults + 1} /\ crashes' \in {crashes, crashes + 1}
    BY ZenonT(40) DEF Next, Progress, Deciding, Begin, Recover, Enter, Call, Answer, Pass, GateStep, Refuse,
       RequestRepair, Repaired, Ask, CreateGate, Park, Finish, Return, Escape, Fault, Review, Decide,
       Load, Store, Crash
  <2>2. faults \in Nat /\ crashes \in Nat
    BY Constants DEF TypeOK
  <2> QED
    BY <2>1, <2>2 DEF NoFailure
<1>1. Spotless /\ Watched /\ Decided /\ Rest /\ Final /\ CalledCleared
  BY DEF Guarded
<1>2. \A v \in Workers : Clean(mem[v]) /\ res[v] # "INJECTED" /\ WatchedAt(v)
  BY <1>1 DEF Spotless, Watched
<1>3. Clean(row) /\ \A t \in executed : Cleared(gates, t)
  BY <1>1 DEF Spotless, CalledCleared
<1>4. ASSUME NEW w \in Workers, Recover(w) PROVE Guarded'
  <2>1. mem[w] = row /\ Settled(gates, row) /\ (Rejected => row.status = "BLOCKED")
    BY <1>4, RowSettled DEF Recover, Current, Holding
  <2>2. Recovered(mem[w]) = mem[w]
    BY <1>3, <2>1, GateTables DEF Recovered, Settled, Held, Clean
  <2>3. row' = row /\ gates' = gates /\ executed' = executed /\ UNCHANGED <<dpc, dgate, dverdict>>
    BY <1>4, <2>2 DEF Recover
  <2>4. PICK p \in {"idle", "enter"} : pc' = [pc EXCEPT ![w] = p]
    BY <1>4 DEF Recover
  <2>5. /\ \A v \in Workers : v # w => mem'[v] = mem[v] /\ res'[v] = res[v]
        /\ mem'[w] \in {mem[w], StartRow} /\ res'[w] \in {res[w], "PASS"}
    BY <1>4, <2>2 DEF Recover, TypeOK
  <2>6. Clean(mem'[w]) /\ res'[w] # "INJECTED"
    BY <1>2, <2>5 DEF Clean, StartRow
  <2>7. WatchedAt(w)'
    BY <2>4 DEF WatchedAt, TypeOK, Holding
  <2>8. p \in PCs /\ p \notin Holding /\ pc[w] # "idle"
    BY <1>4 DEF PCs, Holding, Recover
  <2> QED
    BY <1>3, <2>1, <2>3, <2>4, <2>5, <2>6, <2>7, <2>8, GuardedMove
<1>5. ASSUME NEW w \in Workers, Enter(w) PROVE Guarded'
  <2>1. Settled(gates, row) /\ (Rejected => row.status = "BLOCKED")
    BY <1>5, RowSettled DEF Enter, Holding
  <2>2. row' = row /\ gates' = gates /\ executed' = executed /\ res' = res /\ UNCHANGED <<dpc, dgate, dverdict>>
    BY <1>5 DEF Enter
  <2>3. \A v \in Workers : v # w => mem'[v] = mem[v]
    BY <1>5 DEF Enter, TypeOK
  <2>4. CASE row.status \in {"COMPLETED", "BLOCKED"}
    <3>1. mem'[w] = row /\ pc' = [pc EXCEPT ![w] = "wrap"]
      BY <1>5, <2>4 DEF Enter, TypeOK
    <3>2. WatchedAt(w)'
      BY <3>1 DEF WatchedAt, TypeOK, Holding
    <3>3. "wrap" \in PCs /\ "wrap" \notin Holding /\ pc[w] # "idle"
      BY <1>5 DEF PCs, Holding, Enter
    <3> QED
      BY <1>2, <1>3, <2>1, <2>2, <2>3, <3>1, <3>2, <3>3, GuardedMove
  <2>5. CASE row.status \notin {"COMPLETED", "BLOCKED"}
    <3>1. mem'[w] = [row EXCEPT !.status = "RUNNING"]
      BY <1>5, <2>5 DEF Enter, TypeOK
    <3>2. mem'[w].step = row.step /\ Clean(mem'[w])
      BY <1>3, <3>1 DEF Clean, TypeOK, Rows
    <3>3. CASE OpenGates # {}
      <4>1. pc' = [pc EXCEPT ![w] = "park"]
        BY <1>5, <2>5, <3>3 DEF Enter
      <4>2. Held(gates, mem'[w])
        BY <2>1, <3>2, <3>3, GateTables DEF Settled, Held
      <4>3. WatchedAt(w)'
        BY <2>2, <2>5, <4>1, <4>2 DEF WatchedAt, TypeOK
      <4>4. "park" \in PCs /\ "park" \in Holding /\ pc[w] # "idle"
        BY <1>5 DEF PCs, Holding, Enter
      <4> QED
        BY <1>2, <1>3, <2>1, <2>2, <2>3, <2>5, <3>2, <4>1, <4>3, <4>4, GuardedMove
    <3>4. CASE OpenGates = {}
      <4>1. pc' = [pc EXCEPT ![w] = "step"]
        BY <1>5, <2>5, <3>4 DEF Enter
      <4>2. row.status = "RUNNING" /\ Cleared(gates, row.step)
        BY <2>1, <2>5, <3>4, RowFields, GateTables DEF Settled, Held, TypeOK, Statuses
      <4>3. WatchedAt(w)'
        BY <2>2, <3>2, <4>1, <4>2 DEF WatchedAt, TypeOK
      <4>4. "step" \in PCs /\ "step" \in Holding /\ pc[w] # "idle"
        BY <1>5 DEF PCs, Holding, Enter
      <4> QED
        BY <1>2, <1>3, <2>1, <2>2, <2>3, <2>5, <3>2, <4>1, <4>3, <4>4, GuardedMove
    <3> QED
      BY <3>3, <3>4
  <2> QED
    BY <2>4, <2>5
<1>6. ASSUME NEW w \in Workers, Call(w) PROVE Guarded'
  <2>1. /\ row' = row /\ gates' = gates /\ mem' = mem /\ res' = res /\ UNCHANGED <<dpc, dgate, dverdict>>
        /\ pc' = [pc EXCEPT ![w] = "await"] /\ executed' = executed \cup {mem[w].step}
        /\ pc[w] = "step" /\ Kind[mem[w].step] # "GATE"
    BY <1>6 DEF Call
  <2>2. Cleared(gates, mem[w].step) /\ row.status # "COMPLETED" /\ ~Rejected
    BY <1>2, <2>1, NoneRejected DEF WatchedAt, Holding
  <2>3. WatchedAt(w)'
    BY <2>1, <2>2 DEF WatchedAt, TypeOK
  <2>4. "await" \in PCs /\ "await" \in Holding
    BY DEF PCs, Holding
  <2> QED
    BY <1>2, <1>3, <2>1, <2>2, <2>3, <2>4, GuardedMove
<1>7. ASSUME NEW w \in Workers, Answer(w) PROVE Guarded'
  <2>1. /\ row' = row /\ gates' = gates /\ mem' = mem /\ executed' = executed
        /\ UNCHANGED <<dpc, dgate, dverdict>>
        /\ pc' = [pc EXCEPT ![w] = "answered"] /\ pc[w] = "await"
    BY <1>7 DEF Answer
  <2>2. res'[w] # "INJECTED" /\ \A v \in Workers : v # w => res'[v] = res[v]
    BY <1>7, <1>0, Constants DEF Answer, NoFailure, TypeOK
  <2>3. Cleared(gates, mem[w].step) /\ Kind[mem[w].step] # "GATE" /\ row.status # "COMPLETED" /\ ~Rejected
    BY <1>2, <2>1, NoneRejected DEF WatchedAt, Holding
  <2>4. WatchedAt(w)'
    BY <2>1, <2>3 DEF WatchedAt, TypeOK
  <2>5. "answered" \in PCs /\ "answered" \in Holding
    BY DEF PCs, Holding
  <2> QED
    BY <1>2, <1>3, <2>1, <2>2, <2>3, <2>4, <2>5, GuardedMove
<1>8. ASSUME NEW w \in Workers
      PROVE  /\ PassedRow(w).step = mem[w].step + 1 /\ PassedRow(w).status = "RUNNING"
             /\ Clean(PassedRow(w))
  BY <1>2 DEF PassedRow, Clean, TypeOK, Rows
<1>9. ASSUME NEW w \in Workers, Pass(w) PROVE Guarded'
  <2> DEFINE p == IF mem[w].step \in GateAfter THEN "gate" ELSE "step"
  <2>1. /\ row' = PassedRow(w) /\ mem' = [mem EXCEPT ![w] = PassedRow(w)] /\ gates' = gates
        /\ executed' = executed /\ res' = res /\ UNCHANGED <<dpc, dgate, dverdict>>
        /\ pc' = [pc EXCEPT ![w] = p] /\ pc[w] = "answered" /\ res[w] = "PASS"
    BY <1>9 DEF Pass
  <2>2. Cleared(gates, mem[w].step) /\ Kind[mem[w].step] # "GATE" /\ mem[w].step \in Steps /\ ~Rejected
    BY <1>2, <2>1, NoneRejected DEF WatchedAt, Holding, Positions
  <2>3. mem'[w] = PassedRow(w) /\ \A v \in Workers : v # w => mem'[v] = mem[v]
    BY <2>1 DEF TypeOK
  <2>4. mem[w].step \in Nat
    BY <2>2, Constants DEF Steps
  <2>5. WatchedAt(w)'
    <3>1. row'.status # "COMPLETED"
      BY <1>8, <2>1
    <3>2. CASE mem[w].step \in GateAfter
      <4>1. pc'[w] = "gate"
        BY <2>1, <3>2 DEF TypeOK
      <4>2. NewGate(w)'.step = mem[w].step
        BY <1>8, <2>1, <2>3, <2>4 DEF NewGate
      <4> QED
        BY <2>1, <2>2, <3>1, <4>1, <4>2 DEF WatchedAt
    <3>3. CASE mem[w].step \notin GateAfter
      <4>1. pc'[w] = "step"
        BY <2>1, <3>3 DEF TypeOK
      <4>2. mem[w].step \notin Gated
        BY <2>2, <3>3 DEF Gated
      <4>3. Cleared(gates, mem[w].step + 1)
        BY <2>2, <2>4, <4>2, ClearedNext
      <4> QED
        BY <1>8, <2>1, <2>3, <3>1, <4>1, <4>3 DEF WatchedAt
    <3> QED
      BY <3>2, <3>3
  <2>6. p \in PCs /\ p \in Holding
    BY DEF PCs, Holding
  <2> HIDE DEF p
  <2> QED
    BY <1>2, <1>3, <1>8, <2>1, <2>2, <2>3, <2>5, <2>6, GuardedMove
<1>10. ASSUME NEW w \in Workers, GateStep(w) PROVE Guarded'
  <2>1. /\ row' = PassedRow(w) /\ mem' = [mem EXCEPT ![w] = PassedRow(w)] /\ gates' = gates
        /\ executed' = executed /\ res' = [res EXCEPT ![w] = "PASS"] /\ UNCHANGED <<dpc, dgate, dverdict>>
        /\ pc' = [pc EXCEPT ![w] = "gate"] /\ pc[w] = "step" /\ mem[w].step \in Steps
    BY <1>10 DEF GateStep
  <2>2. Cleared(gates, mem[w].step) /\ ~Rejected
    BY <1>2, <2>1, NoneRejected DEF WatchedAt, Holding
  <2>3. /\ mem'[w] = PassedRow(w) /\ \A v \in Workers : v # w => mem'[v] = mem[v]
        /\ res'[w] = "PASS" /\ \A v \in Workers : v # w => res'[v] = res[v]
        /\ pc'[w] = "gate"
    BY <2>1 DEF TypeOK
  <2>4. mem[w].step \in Nat
    BY <2>1, Constants DEF Steps
  <2>5. NewGate(w)'.step = mem[w].step
    BY <1>8, <2>3, <2>4 DEF NewGate
  <2>6. WatchedAt(w)'
    BY <1>8, <2>1, <2>2, <2>3, <2>5 DEF WatchedAt
  <2>7. "gate" \in PCs /\ "gate" \in Holding
    BY DEF PCs, Holding
  <2> QED
    BY <1>2, <1>3, <1>8, <2>1, <2>2, <2>3, <2>6, <2>7, GuardedMove
<1>11. ASSUME NEW w \in Workers, Refuse(w) PROVE Guarded'
  <2>1. /\ gates' = gates /\ executed' = executed /\ res' = res /\ UNCHANGED <<dpc, dgate, dverdict>>
        /\ pc' = [pc EXCEPT ![w] = "wrap"] /\ pc[w] = "answered"
        /\ \A v \in Workers : v # w => mem'[v] = mem[v]
    BY <1>11 DEF Refuse, TypeOK
  <2>2. row'.status = "BLOCKED" /\ Clean(row') /\ mem'[w] = row'
    BY <1>11, <1>2 DEF Refuse, TypeOK, Rows, Clean
  <2>3. ~Rejected /\ OpenOf(gates) = {}
    BY <1>2, <2>1, NoneRejected, GateTables DEF Holding, GateInv, Unwatched, Beyond
  <2>4. WatchedAt(w)'
    BY <2>1 DEF WatchedAt, TypeOK, Holding
  <2>5. "wrap" \in PCs /\ "wrap" \notin Holding
    BY DEF PCs, Holding
  <2>6. Settled(gates, row')
    BY <2>2, <2>3 DEF Settled
  <2> QED
    BY <1>2, <1>3, <2>1, <2>2, <2>3, <2>4, <2>5, <2>6, GuardedMove
<1>12. ASSUME NEW w \in Workers, RequestRepair(w) PROVE Guarded'
  <2>1. /\ row' = row /\ gates' = gates /\ executed' = executed /\ res' = res
        /\ UNCHANGED <<dpc, dgate, dverdict>>
        /\ pc' = [pc EXCEPT ![w] = "repair"] /\ pc[w] = "answered"
        /\ \A v \in Workers : v # w => mem'[v] = mem[v]
    BY <1>12 DEF RequestRepair, TypeOK
  <2>2. mem'[w].step = mem[w].step /\ Clean(mem'[w])
    BY <1>12, <1>2 DEF RequestRepair, TypeOK, Rows, Clean
  <2>3. Cleared(gates, mem[w].step) /\ Kind[mem[w].step] # "GATE" /\ row.status # "COMPLETED" /\ ~Rejected
    BY <1>2, <2>1, NoneRejected DEF WatchedAt, Holding
  <2>4. WatchedAt(w)'
    BY <2>1, <2>2, <2>3 DEF WatchedAt, TypeOK
  <2>5. "repair" \in PCs /\ "repair" \in Holding
    BY DEF PCs, Holding
  <2> QED
    BY <1>2, <1>3, <2>1, <2>2, <2>3, <2>4, <2>5, GuardedMove
<1>13. ASSUME NEW w \in Workers, Repaired(w) PROVE Guarded'
  <2>1. /\ gates' = gates /\ executed' = executed /\ res' = res /\ UNCHANGED <<dpc, dgate, dverdict>>
        /\ pc[w] = "repair" /\ \A v \in Workers : v # w => mem'[v] = mem[v]
    BY <1>13 DEF Repaired, TypeOK
  <2>2. Cleared(gates, mem[w].step) /\ Kind[mem[w].step] # "GATE" /\ row.status # "COMPLETED" /\ ~Rejected
    BY <1>2, <2>1, NoneRejected DEF WatchedAt, Holding
  <2>3. PICK p \in {"step", "answered"} : pc' = [pc EXCEPT ![w] = p]
    BY <1>13 DEF Repaired
  <2>4. /\ mem'[w].step = mem[w].step /\ Clean(mem'[w]) /\ Clean(row')
        /\ row'.status # "COMPLETED"
    <3> DEFINE r == [mem[w] EXCEPT !.status = "RUNNING"]
    <3>1. r.step = mem[w].step /\ Clean(r) /\ r.status # "COMPLETED"
      BY <1>2 DEF TypeOK, Rows, Clean
    <3>2. \/ row' = r /\ mem' = [mem EXCEPT ![w] = r]
          \/ row' = row /\ mem' = mem
      BY <1>13 DEF Repaired
    <3> HIDE DEF r
    <3> QED
      BY <1>2, <1>3, <2>2, <3>1, <3>2 DEF TypeOK
  <2>5. WatchedAt(w)'
    BY <2>1, <2>2, <2>3, <2>4 DEF WatchedAt, TypeOK
  <2>6. p \in PCs /\ p \in Holding
    BY DEF PCs, Holding
  <2> QED
    BY <1>2, <1>3, <2>1, <2>2, <2>3, <2>4, <2>5, <2>6, GuardedMove
<1>14. ASSUME NEW w \in Workers, Ask(w) PROVE Guarded'
  <2>1. /\ row' = row /\ gates' = gates /\ mem' = mem /\ res' = res /\ executed' = executed
        /\ UNCHANGED <<dpc, dgate, dverdict>>
        /\ pc' = [pc EXCEPT ![w] = "gate"] /\ pc[w] = "answered" /\ res[w] # "PASS"
    BY <1>14 DEF Ask
  <2>2. Cleared(gates, mem[w].step) /\ row.status # "COMPLETED" /\ ~Rejected
    BY <1>2, <2>1, NoneRejected DEF WatchedAt, Holding
  <2>3. NewGate(w)'.step = mem[w].step
    BY <2>1 DEF NewGate
  <2>4. WatchedAt(w)'
    BY <2>1, <2>2, <2>3 DEF WatchedAt, TypeOK
  <2>5. "gate" \in PCs /\ "gate" \in Holding
    BY DEF PCs, Holding
  <2> QED
    BY <1>2, <1>3, <2>1, <2>2, <2>4, <2>5, GuardedMove
<1>15. ASSUME NEW w \in Workers, CreateGate(w) PROVE Guarded'
  <2> DEFINE g == NewGate(w)
  <2>1. /\ row' = row /\ mem' = mem /\ res' = res /\ executed' = executed
        /\ UNCHANGED <<dpc, dgate, dverdict>>
        /\ pc' = [pc EXCEPT ![w] = "park"] /\ pc[w] = "gate"
    BY <1>15 DEF CreateGate
  <2>2. OpenOf(gates) = {} /\ ~Rejected /\ row.status # "COMPLETED" /\ Cleared(gates, g.step)
    BY <1>2, <2>1, NoneRejected, GateTables DEF Holding, GateInv, Unwatched, Beyond, WatchedAt
  <2>3. gates' = Append(gates, g)
    BY <1>15, <2>2, GateTables DEF CreateGate
  <2>4. /\ g.step \in Steps /\ g.status = "OPEN" /\ g \in GateRows
        /\ mem[w].step = IF g.after THEN g.step + 1 ELSE g.step
    <3>1. g.step \in Steps
      BY <2>1 DEF Positions
    <3>2. /\ g.status = "OPEN"
          /\ res[w] = "PASS" => g.after /\ g.step = mem[w].step - 1
          /\ res[w] # "PASS" => ~g.after /\ g.step = mem[w].step
      BY DEF NewGate
    <3>3. g \in GateRows
      BY <3>1 DEF NewGate, GateRows
    <3>4. mem[w].step \in Nat
      BY Constants, RowFields DEF TypeOK
    <3> HIDE DEF g
    <3>5. mem[w].step = IF g.after THEN g.step + 1 ELSE g.step
      BY <3>2, <3>4
    <3> QED
      BY <3>1, <3>2, <3>3, <3>5
  <2> HIDE DEF g
  <2>5. /\ OpenOf(gates') = {Len(gates) + 1} /\ gates'[Len(gates) + 1] = g
        /\ \A n : Cleared(gates, n) => Cleared(gates', n)
        /\ ~Rejected'
    BY <2>2, <2>3, <2>4, GateRaised DEF TypeOK, Rejected
  <2>6. Held(gates', mem[w])
    BY <2>2, <2>4, <2>5 DEF Held
  <2>7. /\ pc'[w] = "park" /\ \A v \in Workers : v # w => pc'[v] = "idle"
        /\ \A d \in Deciders : dpc'[d] = "idle"
    BY <2>1, Alone DEF TypeOK, GateInv
  <2>8. Watched'
    <3>1. WatchedAt(w)'
      BY <2>1, <2>2, <2>6, <2>7 DEF WatchedAt
    <3>2. ASSUME NEW v \in Workers, v # w PROVE WatchedAt(v)'
      BY <2>7, <3>2 DEF WatchedAt, Holding
    <3> QED
      BY <3>1, <3>2 DEF Watched
  <2>9. Spotless' /\ CalledCleared'
    BY <1>2, <1>3, <2>1, <2>5 DEF Spotless, CalledCleared
  <2>10. Decided' /\ Final'
    BY <2>5, <2>7 DEF Decided, DecidedAt, Final
  <2>11. Rest'
    BY <2>7 DEF Rest, Quiet, Holding
  <2> QED
    BY <2>8, <2>9, <2>10, <2>11 DEF Guarded
<1>16. ASSUME NEW w \in Workers, Park(w) PROVE Guarded'
  <2> DEFINE r == [mem[w] EXCEPT !.status = "WAITING_GATE"]
  <2>1. /\ gates' = gates /\ executed' = executed /\ res' = res /\ UNCHANGED <<dpc, dgate, dverdict>>
        /\ pc' = [pc EXCEPT ![w] = "wrap"] /\ pc[w] = "park"
        /\ row' = r /\ mem'[w] = r /\ \A v \in Workers : v # w => mem'[v] = mem[v]
    BY <1>16 DEF Park, TypeOK
  <2>2. r.status = "WAITING_GATE" /\ Clean(r) /\ r.step = mem[w].step
    BY <1>2 DEF TypeOK, Rows, Clean
  <2>3. ~Rejected /\ Held(gates, mem[w])
    BY <1>2, <2>1, NoneRejected DEF Holding, WatchedAt
  <2> HIDE DEF r
  <2>4. WatchedAt(w)'
    BY <2>1 DEF WatchedAt, TypeOK, Holding
  <2>5. "wrap" \in PCs /\ "wrap" \notin Holding
    BY DEF PCs, Holding
  <2>6. Settled(gates, row')
    BY <2>1, <2>2, <2>3 DEF Settled, Held
  <2> QED
    BY <1>2, <1>3, <2>1, <2>2, <2>3, <2>4, <2>5, <2>6, GuardedMove
<1>17. ASSUME NEW w \in Workers, Finish(w) PROVE Guarded'
  <2>1. /\ gates' = gates /\ executed' = executed /\ res' = res /\ UNCHANGED <<dpc, dgate, dverdict>>
        /\ pc' = [pc EXCEPT ![w] = "wrap"] /\ pc[w] = "step"
        /\ \A v \in Workers : v # w => mem'[v] = mem[v]
    BY <1>17 DEF Finish, TypeOK
  <2>2. /\ row'.status \in {"COMPLETED", "BLOCKED"} /\ row'.step = mem[w].step
        /\ Clean(row') /\ mem'[w] = row'
    BY <1>17, <1>2 DEF Finish, TypeOK, Rows, Clean
  <2>3. ~Rejected /\ OpenOf(gates) = {} /\ Cleared(gates, mem[w].step)
    BY <1>2, <2>1, NoneRejected, GateTables DEF Holding, GateInv, Unwatched, Beyond, WatchedAt
  <2>4. WatchedAt(w)'
    BY <2>1 DEF WatchedAt, TypeOK, Holding
  <2>5. "wrap" \in PCs /\ "wrap" \notin Holding
    BY DEF PCs, Holding
  <2>6. Settled(gates, row')
    BY <2>2, <2>3 DEF Settled
  <2> QED
    BY <1>2, <1>3, <2>1, <2>2, <2>3, <2>4, <2>5, <2>6, GuardedMove
<1>18. ASSUME NEW w \in Workers, Return(w) PROVE Guarded'
  <2>1. mem[w] = row /\ Settled(gates, row) /\ (Rejected => row.status = "BLOCKED") /\ pc[w] = "wrap"
    BY <1>18, RowSettled DEF Return, Current, Holding
  <2>2. row' = row /\ gates' = gates /\ executed' = executed /\ UNCHANGED <<dpc, dgate, dverdict>>
    BY <1>18, <1>2 DEF Return, Clean
  <2>3. /\ mem'[w] = StartRow /\ res'[w] = "PASS" /\ pc' = [pc EXCEPT ![w] = "idle"]
        /\ \A v \in Workers : v # w => mem'[v] = mem[v] /\ res'[v] = res[v]
    BY <1>18 DEF Return, TypeOK
  <2>4. Clean(StartRow)
    BY DEF Clean, StartRow
  <2>5. WatchedAt(w)'
    BY <2>3 DEF WatchedAt, TypeOK, Holding
  <2>6. "idle" \in PCs /\ "idle" \notin Holding
    BY DEF PCs, Holding
  <2> QED
    BY <1>3, <2>1, <2>2, <2>3, <2>4, <2>5, <2>6, GuardedMove
<1>19. ASSUME NEW w \in Workers, Escape(w) \/ Fault(w) PROVE FALSE
  BY <1>0, <1>19 DEF Escape, Fault, NoFailure
<1>20. ~Crash
  BY <1>0 DEF Crash, NoFailure
<1>21. ASSUME NEW w \in Workers, Begin(w) PROVE Guarded'
  <2>1. /\ row' = row /\ gates' = gates /\ executed' = executed /\ res' = res /\ decision' = decision
        /\ AllIdle /\ pc' = [pc EXCEPT ![w] = "recover"] /\ mem' = [mem EXCEPT ![w] = row]
    BY <1>21 DEF Begin, Admitted
  <2>2. /\ \A v \in Workers : pc'[v] \in {"idle", "recover"} /\ mem'[v] \in {row, mem[v]}
        /\ Quiet /\ \A d \in Deciders : dpc[d] = "idle"
    BY <2>1 DEF AllIdle, TypeOK, Quiet, Holding
  <2>3. Quiet' /\ \A v \in Workers : WatchedAt(v)'
    BY <2>2 DEF Quiet, WatchedAt, Holding
  <2>4. Spotless' /\ CalledCleared' /\ Watched'
    BY <1>2, <1>3, <2>1, <2>2, <2>3 DEF Spotless, CalledCleared, Watched
  <2>5. Decided'
    BY <2>1, <2>2 DEF Decided, DecidedAt
  <2>6. Rest' /\ Final'
    BY <1>1, <2>1, <2>2, <2>3 DEF Rest, Final, Rejected
  <2> QED
    BY <2>4, <2>5, <2>6 DEF Guarded
<1>22. ASSUME NEW d \in Deciders, Review(d) \/ Decide(d) \/ Load(d) \/ Store(d), dpc'[d] # dpc[d]
       PROVE  /\ \A v \in Workers : pc[v] = "idle" /\ pc'[v] = "idle"
              /\ \A e \in Deciders : e # d => dpc[e] = "idle" /\ dpc'[e] = "idle"
              /\ Quiet /\ Quiet' /\ Watched'
              /\ Spotless' = (Clean(row') /\ \A v \in Workers : Clean(mem[v]) /\ res[v] # "INJECTED")
  <2>1. /\ pc' = pc /\ mem' = mem /\ res' = res
        /\ \E p \in DPCs : dpc' = [dpc EXCEPT ![d] = p]
    BY <1>22 DEF Review, Decide, Load, Store, DPCs
  <2>2. (\A v \in Workers : pc[v] = "idle") /\ \A e \in Deciders : e # d => dpc[e] = "idle"
    BY <1>22, Alone DEF GateInv, Review, Decide, Load, Store, Admitted, AllIdle
  <2>3. (\A v \in Workers : pc'[v] = "idle") /\ \A e \in Deciders : e # d => dpc'[e] = "idle"
    BY <2>1, <2>2 DEF TypeOK
  <2>4. Quiet /\ Quiet'
    BY <2>2, <2>3 DEF Quiet, Holding
  <2>5. Watched'
    BY <2>3 DEF Watched, WatchedAt, Holding
  <2>6. Spotless' = (Clean(row') /\ \A v \in Workers : Clean(mem[v]) /\ res[v] # "INJECTED")
    BY <2>1 DEF Spotless
  <2> QED
    BY <2>2, <2>3, <2>4, <2>5, <2>6
<1>23. ASSUME NEW d \in Deciders, Review(d) PROVE Guarded'
  <2>1. /\ row' = row /\ gates' = gates /\ executed' = executed /\ mem' = mem /\ res' = res
        /\ dpc[d] = "idle" /\ dpc'[d] = "decide" /\ dgate'[d] \in OpenOf(gates)
    BY <1>23, GateTables DEF Review, TypeOK
  <2>2. /\ \A e \in Deciders : e # d => dpc[e] = "idle" /\ dpc'[e] = "idle"
        /\ Quiet /\ Quiet' /\ Watched' /\ Spotless'
    BY <1>2, <1>3, <1>22, <1>23, <2>1
  <2>3. Settled(gates, row)
    BY <1>1, <2>1, <2>2 DEF Rest
  <2>4. ~Rejected
    BY <1>1, <2>1, <2>2, <2>3 DEF Final, Settled
  <2>5. Decided'
    BY <2>1, <2>2 DEF Decided, DecidedAt
  <2>6. Rest' /\ Final' /\ CalledCleared'
    BY <1>3, <2>1, <2>3, <2>4 DEF Rest, Final, Rejected, CalledCleared
  <2> QED
    BY <2>2, <2>5, <2>6 DEF Guarded
<1>24. ASSUME NEW d \in Deciders, Decide(d) PROVE Guarded'
  <2> DEFINE g == dgate[d]
  <2>1. /\ row' = row /\ executed' = executed /\ mem' = mem /\ res' = res /\ dverdict' = dverdict
        /\ dpc[d] = "decide" /\ dpc'[d] = "load"
        /\ gates' = [gates EXCEPT ![g].status = dverdict[d]]
    BY <1>24 DEF Decide, TypeOK
  <2>2. /\ \A e \in Deciders : e # d => dpc[e] = "idle" /\ dpc'[e] = "idle"
        /\ Quiet /\ Quiet' /\ Watched' /\ Spotless'
    BY <1>2, <1>3, <1>22, <1>24, <2>1
  <2>3. g \in OpenOf(gates) /\ \A h \in OpenOf(gates) : h = g
    BY <1>1, <2>1, GateTables DEF Decided, DecidedAt, GateInv, AtMostOne
  <2>4. row.status = "WAITING_GATE" /\ Held(gates, row)
    <3>1. Settled(gates, row)
      BY <1>1, <2>1, <2>2 DEF Rest
    <3> QED
      BY <2>3, <3>1 DEF Settled
  <2>5. /\ Cleared(gates, gates[g].step)
        /\ row.step = IF gates[g].after THEN gates[g].step + 1 ELSE gates[g].step
    BY <2>3, <2>4 DEF Held
  <2>6. gates \in Seq(GateRows) /\ dverdict[d] \in Verdicts
    BY DEF TypeOK
  <2>7. gates[g].step \in Nat
    <3>1. gates[g] \in GateRows
      BY <2>3, <2>6, ElementOfSeq, LenProperties DEF OpenOf
    <3> QED
      BY <3>1, Constants DEF GateRows, Steps
  <2> HIDE DEF g
  <2>8. /\ OpenOf(gates') = {}
        /\ \A n : Cleared(gates, n) => Cleared(gates', n)
        /\ dverdict[d] = "APPROVED" /\ gates[g].after => ApprovedIn(gates', gates[g].step)
        /\ dverdict[d] = "APPROVED" /\ Rejected' => Rejected
    BY <2>1, <2>3, <2>6, GateDecided DEF Rejected
  <2>9. dverdict[d] = "APPROVED" => Cleared(gates', row.step)
    <3>1. CASE gates[g].after
      BY <2>5, <2>7, <2>8, <3>1, ClearedNext
    <3>2. CASE ~gates[g].after
      BY <2>5, <2>8, <3>2
    <3> QED
      BY <3>1, <3>2
  <2>10. Decided'
    BY <2>1, <2>2, <2>4, <2>8, <2>9 DEF Decided, DecidedAt
  <2>11. Rest' /\ CalledCleared'
    BY <1>3, <2>1, <2>8 DEF Rest, CalledCleared
  <2>12. ~Rejected
    BY <1>1, <2>1, <2>2 DEF Final
  <2>13. Final'
    BY <2>1, <2>2, <2>6, <2>8, <2>12 DEF Final, Verdicts
  <2> QED
    BY <2>2, <2>10, <2>11, <2>13 DEF Guarded
<1>25. ASSUME NEW d \in Deciders, Load(d) PROVE Guarded'
  <2>1. /\ row' = row /\ gates' = gates /\ executed' = executed /\ mem' = mem /\ res' = res
        /\ dverdict' = dverdict /\ dpc[d] = "load" /\ dpc'[d] = "store"
    BY <1>25 DEF Load, TypeOK
  <2>2. /\ \A e \in Deciders : e # d => dpc[e] = "idle" /\ dpc'[e] = "idle"
        /\ Quiet /\ Quiet' /\ Watched' /\ Spotless'
    BY <1>2, <1>3, <1>22, <1>25, <2>1
  <2>3. Decided'
    BY <1>1, <2>1, <2>2 DEF Decided, DecidedAt
  <2>4. Rest' /\ CalledCleared'
    BY <1>3, <2>1 DEF Rest, CalledCleared
  <2>5. Final'
    BY <1>1, <2>1, <2>2 DEF Final, Rejected
  <2> QED
    BY <2>2, <2>3, <2>4, <2>5 DEF Guarded
<1>26. ASSUME NEW d \in Deciders, Store(d) PROVE Guarded'
  <2>1. /\ gates' = gates /\ executed' = executed /\ mem' = mem /\ res' = res
        /\ dpc[d] = "store" /\ dpc'[d] = "idle"
        /\ row' = [row EXCEPT !.status = IF dverdict[d] = "APPROVED" THEN "RUNNING" ELSE "BLOCKED"]
    BY <1>26 DEF Store, TypeOK, Current
  <2>2. Clean(row') /\ row'.step = row.step
        /\ row'.status = IF dverdict[d] = "APPROVED" THEN "RUNNING" ELSE "BLOCKED"
    BY <1>3, <2>1 DEF Clean, TypeOK, Rows
  <2>3. /\ \A e \in Deciders : e # d => dpc[e] = "idle" /\ dpc'[e] = "idle"
        /\ Quiet /\ Quiet' /\ Watched' /\ Spotless'
    BY <1>2, <1>22, <1>26, <2>1, <2>2
  <2>4. OpenOf(gates) = {} /\ (dverdict[d] = "APPROVED" => Cleared(gates, row.step))
    BY <1>1, <2>1 DEF Decided, DecidedAt
  <2>5. Settled(gates, row')
    BY <2>2, <2>4 DEF Settled
  <2>6. Rest' /\ CalledCleared'
    BY <1>3, <2>1, <2>5 DEF Rest, CalledCleared
  <2>7. Decided'
    BY <2>1, <2>3 DEF Decided, DecidedAt
  <2>8. Rejected => dverdict[d] = "REJECTED"
    BY <1>1, <2>1, <2>3 DEF Final
  <2>9. Final'
    BY <2>1, <2>2, <2>3, <2>8 DEF Final, Rejected
  <2> QED
    BY <2>3, <2>6, <2>7, <2>9 DEF Guarded
<1>27. CASE UNCHANGED vars
  BY <1>1, <1>27 DEF Guarded, Spotless, Watched, WatchedAt, Decided, DecidedAt, Rest, Quiet, Final,
     CalledCleared, Rejected, NewGate
<1> QED
  BY <1>4, <1>5, <1>6, <1>7, <1>9, <1>10, <1>11, <1>12, <1>13, <1>14, <1>15, <1>16, <1>17, <1>18,
     <1>19, <1>20, <1>21, <1>23, <1>24, <1>25, <1>26, <1>27 DEF Next, Progress, Deciding

\* Nothing is under way and nothing decided in the beginning.
LEMMA GuardInit == Init => GuardInv
<1>1. Init => OpenOf(gates) = {} /\ ~Rejected
  BY DEF Init, OpenOf, Rejected
<1>2. Init => Cleared(gates, row.step)
  <2>1. Gated \subseteq Steps
    BY ConstantsAssumption DEF Gated
  <2>2. Steps \subseteq Nat
    BY Constants DEF Steps
  <2>3. Init => row.step = 0
    BY DEF Init, StartRow
  <2> QED
    BY <2>1, <2>2, <2>3 DEF Cleared
<1>3. Init => Guarded
  BY <1>1, <1>2 DEF Init, Guarded, Spotless, Clean, Watched, WatchedAt, Decided, DecidedAt, Rest,
     Settled, Final, CalledCleared, StartRow, Holding
<1>4. Init => Current
  BY DEF Init, Current
<1> QED
  BY <1>3, <1>4, GateInit DEF GuardInv

\* What the next theorems rest on: without crashes and failures, a row that runs, and an
\* advance that works, have every gated step behind them approved, a row that waits has
\* its one gate open, and a rejection ends in a blocked row.
THEOREM SerialGuards == ASSUME Serial PROVE Spec => []GuardInv
<1>1. TypeOK /\ Positions /\ GuardInv /\ [Next]_vars => GuardInv'
  <2> SUFFICES ASSUME TypeOK, Positions, GuardInv, [Next]_vars PROVE GuardInv'
    OBVIOUS
  <2>1. GateInv'
    BY Serial, ExclusiveStep, GateStepInv DEF GuardInv, GateInv
  <2>2. Current'
    BY Serial, CurrentStep DEF GuardInv, GateInv
  <2>3. NoFailure' => NoFailure
    <3>1. faults' \in {faults, faults + 1} /\ crashes' \in {crashes, crashes + 1}
      BY ZenonT(40) DEF Next, Progress, Deciding, Begin, Recover, Enter, Call, Answer, Pass, GateStep, Refuse,
         RequestRepair, Repaired, Ask, CreateGate, Park, Finish, Return, Escape, Fault, Review, Decide,
         Load, Store, Crash
    <3>2. faults \in Nat /\ crashes \in Nat
      BY Constants DEF TypeOK
    <3> QED
      BY <3>1, <3>2 DEF NoFailure
  <2>4. NoFailure' => Guarded'
    BY Serial, <2>3, GuardedStep DEF GuardInv
  <2> QED
    BY <2>1, <2>2, <2>4 DEF GuardInv
<1>2. IInv => TypeOK /\ Positions
  BY DEF IInv
<1> QED
  BY GuardInit, <1>1, <1>2, Inductive, PTL DEF Spec

\* GateHonouredWithoutFailure: no call beyond a gate, and no completion, without the
\* approval of this gate, as long as nothing crashes or fails between the transactions.
THEOREM SerialGatesHonoured == ASSUME Serial PROVE Spec => []GateHonouredWithoutFailure
<1>1. TypeOK /\ Copies /\ GuardInv => GateHonouredWithoutFailure
  <2> SUFFICES ASSUME TypeOK, Copies, GuardInv, NoFailure, NEW s \in Gated,
                      row.status = "COMPLETED" \/ \E t \in executed : t > s
               PROVE  GateApproved(s)
    BY DEF GateHonouredWithoutFailure, GateHonoured
  <2>0. s \in Nat /\ s < NSteps /\ executed \subseteq Nat
    <3>1. Gated \subseteq Steps
      BY ConstantsAssumption DEF Gated
    <3> QED
      BY <3>1, Constants DEF Steps, TypeOK
  <2>1. Guarded
    BY DEF GuardInv
  <2>2. CASE \E t \in executed : t > s
    BY <2>0, <2>1, <2>2, GateTables DEF Guarded, CalledCleared, Cleared
  <2>3. CASE row.status = "COMPLETED"
    <3>1. Quiet /\ \A d \in Deciders : dpc[d] \in {"idle", "decide"}
      BY <2>1, <2>3 DEF Guarded, Watched, WatchedAt, Quiet, Decided, DecidedAt, TypeOK, DPCs
    <3>2. Cleared(gates, row.step)
      BY <2>1, <2>3, <3>1 DEF Guarded, Rest, Settled
    <3>3. row.step = NSteps
      BY <2>3 DEF Copies, Sound
    <3> QED
      BY <2>0, <3>2, <3>3, GateTables DEF Cleared
  <2> QED
    BY <2>2, <2>3
<1>2. IInv => TypeOK /\ Copies
  BY DEF IInv
<1> QED
  BY <1>1, <1>2, SerialGuards, Inductive, PTL

\* RejectionStopsWithoutFailure: after a reviewer's rejection nothing more is called and
\* the workflow is not completed, as long as nothing crashes or fails.
THEOREM SerialRejectionStops == ASSUME Serial PROVE Spec => RejectionStopsWithoutFailure
<1> DEFINE Stops == NoFailure /\ Rejected =>
                      /\ \A w \in Workers : pc[w] = "step" => pc'[w] # "await"
                      /\ row'.status = "COMPLETED" => row.status = "COMPLETED"
<1>1. TypeOK /\ GuardInv /\ [Next]_vars => [Stops]_vars
  <2> SUFFICES ASSUME TypeOK, GuardInv, [Next]_vars, NoFailure, Rejected,
                      row'.status = "COMPLETED", row.status # "COMPLETED"
               PROVE  FALSE
    BY DEF GuardInv, Guarded, Final, Quiet, Holding
  <2>1. Current /\ Quiet /\ \A w \in Workers : Clean(mem[w])
    BY DEF GuardInv, Guarded, Final, Spotless
  <2>2. ASSUME NEW w \in Workers, Recover(w) PROVE FALSE
    <3>1. Recovered(mem[w]).status # "COMPLETED" \/ mem[w].status = "COMPLETED"
      BY DEF Recovered, TypeOK, Rows
    <3> QED
      BY <2>2, <3>1 DEF Recover
  <2>3. ASSUME NEW w \in Workers, Return(w) \/ Fault(w) PROVE FALSE
    BY <2>1, <2>3 DEF Return, Fault, TypeOK, Rows, Clean
  <2>4. ASSUME NEW d \in Deciders, Store(d) PROVE FALSE
    BY <2>4 DEF Store, TypeOK, Rows
  <2>5. ASSUME NEW w \in Workers,
               Pass(w) \/ GateStep(w) \/ Refuse(w) \/ Repaired(w) \/ Park(w) \/ Finish(w)
        PROVE  FALSE
    BY <2>1, <2>5 DEF Quiet, Holding, Pass, GateStep, Refuse, Repaired, Park, Finish
  <2>6. row' # row
    OBVIOUS
  <2> QED
    BY <2>2, <2>3, <2>4, <2>5, <2>6 DEF Next, Progress, Deciding, Begin, Enter, Call, Answer,
       RequestRepair, Ask, CreateGate, Escape, Review, Decide, Load, Crash
<1>2. IInv => TypeOK
  BY DEF IInv
<1> HIDE DEF Stops
<1>3. Spec => [][Stops]_vars
  BY <1>1, <1>2, SerialGuards, Inductive, PTL DEF Spec
<1> QED
  BY <1>3 DEF Stops, RejectionStopsWithoutFailure

=============================================================================
