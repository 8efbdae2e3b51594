---------------------------- MODULE AuthoringProofs ----------------------------
(***************************************************************************)
(* What authoring guarantees for any sections, groups, repairs and crashes, *)
(* in both modes: types and positions always, the rest until an exception   *)
(* that is no prompt error has left tasks behind.                          *)
(***************************************************************************)
EXTENDS Authoring, WellFoundedInduction, TLAPS

\* A task in the middle of a section has one to write, at a phase of the chain.
Drafting == {"ready", "await", "repair", "recheck"}
InSection(r, mine) == Todo(r, mine) # {} /\ r.phase[Active(r, mine)] \in Phases
PlacedAt(w, t) ==
    /\ t.pc \in Drafting => t.row.status = "RUNNING" /\ InSection(t.row, Mine(w))
    /\ t.pc \in {"repair", "recheck"} => t.row.phase[Active(t.row, Mine(w))] \in DOMAIN Repairs
Placed == \A w \in Writers, k \in Gens : PlacedAt(w, tasks[<<w, k>>])
Typed == TypeOK /\ Placed

\* A row from which a chain moves on: it has been blocked, is through, or is at a phase.
Movable(r, w) ==
    /\ r \in Rows
    /\ \/ r.status = "BLOCKED"
       \/ r.status = "RUNNING" /\ (Todo(r, Mine(w)) = {} \/ InSection(r, Mine(w)))

\* Rows that differ at most in the repairs that were tried.
Same(r, q) ==
    /\ r.status = q.status /\ r.results = q.results /\ r.phase = q.phase
    /\ r.override = q.override /\ r.repair = q.repair

\* Who writes a section, and whether what that row says of it is to be dropped: the
\* section is sent back and its group has not begun, or its group has been detached.
Author(s) == IF full THEN Owner[s] ELSE Main
Stale(s) ==
    /\ full
    /\ \/ Owner[s] \notin plan.children
       \/ s \in rows[Main].repair /\ (cur = 0 \/ tasks[<<Owner[s], cur>>].pc = "fresh")

\* All tasks are of the one gather that runs, or of the one serial advance.
Alone == \A w \in Writers, k \in Gens :
    tasks[<<w, k>>].pc # "off" => k = cur /\ (full <=> w \in Groups)

\* What the parent is doing, and that nobody else writes its row.
Stages ==
    /\ cur # 0 => asked = "NO" /\ ~gate /\ rows[Main].status = "RUNNING" /\ plan.step = "WRITE"
    /\ asked # "NO" =>
          /\ cur = 0 /\ ~gate /\ rows[Main].status = "RUNNING" /\ plan.step = "REVIEW"
          /\ copies[0] = [row |-> rows[Main], plan |-> plan]
    /\ gate => rows[Main].status = "WAITING_GATE"
    /\ full /\ cur # 0 =>
          /\ copies[cur] = [row |-> rows[Main], plan |-> plan] /\ plan.children = Groups
          /\ \A g \in Groups : tasks[<<g, cur>>].pc # "off"
    /\ plan.step # "WRITE" => rows[Main].repair = {}
    /\ full /\ plan.step = "REVIEW" => plan.children = Groups

\* A task works on what is saved.
SavedAt(w, t) == t.pc \in Drafting \cup {"done"} => Same(rows[w], t.row)
Saved == \A w \in Writers, k \in Gens : SavedAt(w, tasks[<<w, k>>])

\* A group repairs its own sections; a serial repair leaves no other section out.
Mending ==
    /\ full => \A g \in Groups : rows[g].repair \subseteq Mine(g)
    /\ ~full => /\ rows[Main].repair # {} => Sections \subseteq rows[Main].results \cup rows[Main].repair
                /\ plan.step \in {"REVIEW", "END"} => rows[Main].results = Sections

\* No version is of a demand that was never made.
Bounded ==
    /\ \A s \in Sections : \A n \in {docs[s].BLUEPRINT, docs[s].CONTENT, docs[s].candidate} :
          n <= wanted[s]
    /\ \A w \in Writers, s \in Sections, p \in Repairable : rows[w].override[s][p] <= wanted[s]

\* What a call is about.
CalledAt(w, t) ==
    LET s == Active(t.row, Mine(w)) IN
    /\ t.pc \in {"await", "repair"} => t.seen <= wanted[s]
    /\ t.pc = "await" /\ t.row.phase[s] = "EXPRESSION_CRITIC" => t.of = docs[s].by
    /\ full /\ (t.pc = "repair" \/ (t.pc = "await" /\ t.row.phase[s] \in Producers)) =>
          t.seen = wanted[s]
Called == \A w \in Writers, k \in Gens : CalledAt(w, tasks[<<w, k>>])

\* A section's phase in row r tells what is in its texts d ...
Written(r, d, s) ==
    /\ s \in r.results => r.phase[s] = "DONE"
    /\ r.phase[s] \in {"EXPRESSION_CRITIC", "DONE"} => d.kind = "POLISH"
    /\ r.phase[s] = "DONE" => d.approved
\* ... and, of a group, that they are of version v.
Current(r, d, s, v) ==
    /\ \A p \in Repairable : r.override[s][p] \in {0, v}
    /\ r.phase[s] \notin {"ABSENT", "BLUEPRINT"} => d.BLUEPRINT = v
    /\ r.phase[s] \notin {"ABSENT", "BLUEPRINT", "BLUEPRINT_CRITIC", "CONTENT"} => d.CONTENT = v
    /\ r.phase[s] \in {"EXPRESSION_CRITIC", "DONE"} => d.candidate = v
Known == \A s \in Sections : ~Stale(s) =>
    /\ Written(rows[Author(s)], docs[s], s)
    /\ full => Current(rows[Author(s)], docs[s], s, wanted[s])

\* Until a process dies, what is still to be written has not been accepted.
Open(s) == Stale(s) \/ rows[Author(s)].phase[s] \notin {"EXPRESSION_CRITIC", "DONE"}
Unaccepted ==
    crashes = 0 /\ rows[Main].status # "BLOCKED" => \A s \in Sections : Open(s) => ~Accepted(s)

\* The full-text critic, and whoever takes its PASS, has all texts in their last form.
Final ==
    asked # "NO" \/ Finished =>
        /\ changed = {}
        /\ \A s \in Sections : docs[s].kind = "POLISH" /\ docs[s].approved
        /\ full => \A s \in Sections : docs[s].candidate = wanted[s]

Calm ==
    /\ Alone /\ Stages /\ Saved /\ Mending /\ Bounded /\ Called /\ Known
    /\ Unaccepted /\ Final
IInv == Typed /\ (faults = 0 => Calm)
-----------------------------------------------------------------------------
(* Rows and the chain                                                       *)

\* The assumptions on the constants, one fact each.
LEMMA Constants ==
    /\ Owner \in [Sections -> Groups] /\ Main \notin Groups
    /\ MaxFailures \in Nat /\ MaxVersion \in Nat \ {0} /\ NSections \in Nat \ {0}
    /\ 1 \in Gens /\ Gens \subseteq Nat /\ 0 \notin Gens /\ 0 \in Versions
BY GroupsAssumption, SectionsAssumption DEF Gens, Versions

\* A set of natural numbers has a least one.
LEMMA Least ==
    ASSUME NEW S \in SUBSET Nat, S # {}
    PROVE  \E x \in S : \A y \in S : x <= y
<1> DEFINE Below == OpToRel(<, Nat)
<1>1. PICK x \in S : \A y \in S : <<y, x>> \notin Below
  <2> HIDE DEF Below
  <2>1. IsWellFoundedOn(Below, Nat)
    BY NatLessThanWellFounded DEF Below
  <2> QED
    BY <2>1, WFMin
<1>2. \A y \in S : ~(y < x) /\ x \in Nat /\ y \in Nat
  BY <1>1 DEF OpToRel
<1> QED
  BY <1>2

\* The section a chain is at: one that is to be written, with none before it.
LEMMA ActiveIs ==
    ASSUME NEW r, NEW mine, Todo(r, mine) \subseteq Sections, Todo(r, mine) # {}
    PROVE  /\ Active(r, mine) \in Todo(r, mine) /\ Active(r, mine) \in Sections
           /\ \A u \in Todo(r, mine) : Active(r, mine) <= u
<1>1. \E s \in Todo(r, mine) : \A u \in Todo(r, mine) : s <= u
  BY Least DEF Sections
<1> QED
  BY <1>1 DEF Active

\* Sections that are to be written are sections.
LEMMA TodoIs ==
    ASSUME NEW r \in Rows, NEW w \in Writers
    PROVE  Todo(r, Mine(w)) \subseteq Sections /\ Mine(w) \subseteq Sections
BY DEF Todo, Targets, Rows, Mine

\* What a row is made of.
LEMMA RowIs ==
    ASSUME NEW r \in Rows
    PROVE  /\ r.status \in {"RUNNING", "WAITING_GATE", "BLOCKED", "COMPLETED"}
           /\ r.results \in SUBSET Sections /\ r.repair \in SUBSET Sections
           /\ r.phase \in [Sections -> Phases \cup {"ABSENT", "DONE"}]
           /\ r.tried \in SUBSET (Sections \X Repairable)
           /\ r.override \in [Sections -> [Repairable -> Versions]]
BY DEF Rows

\* The phases, and the one after each.
LEMMA PhasesAre ==
    /\ Phases = {"BLUEPRINT", "BLUEPRINT_CRITIC", "CONTENT", "CONTENT_CRITIC",
                 "POLISH", "EXPRESSION_CRITIC"}
    /\ \A p \in Phases : After[p] \in Phases \cup {"DONE"} /\ After[p] # "ABSENT"
    /\ After["BLUEPRINT"] = "BLUEPRINT_CRITIC" /\ After["BLUEPRINT_CRITIC"] = "CONTENT"
    /\ After["CONTENT"] = "CONTENT_CRITIC" /\ After["CONTENT_CRITIC"] = "POLISH"
    /\ After["POLISH"] = "EXPRESSION_CRITIC" /\ After["EXPRESSION_CRITIC"] = "DONE"
BY DEF Phases, After

\* A new row and a blocked one are rows.
LEMMA NewRows ==
    /\ NewRow \in Rows
    /\ \A r \in Rows : Blocked(r) \in Rows
<1>1. NewRow \in Rows
  BY Constants DEF NewRow, Rows
<1> QED
  BY <1>1 DEF Blocked, Rows

\* A section without progress enters at its blueprint.
LEMMA EnteredIs ==
    ASSUME NEW r \in Rows, NEW s \in Sections, NEW q, q = Entered(r, s)
    PROVE  /\ q \in Rows
           /\ q.status = r.status /\ q.results = r.results /\ q.repair = r.repair
           /\ q.tried = r.tried /\ q.override = r.override
           /\ q.phase[s] = IF r.phase[s] = "ABSENT" THEN "BLUEPRINT" ELSE r.phase[s]
           /\ \A u \in Sections : u # s => q.phase[u] = r.phase[u]
<1> DEFINE p == IF r.phase[s] = "ABSENT" THEN "BLUEPRINT" ELSE r.phase[s]
           f == [r.phase EXCEPT ![s] = p]
<1>1. q = [r EXCEPT !.phase = f]
  BY DEF Entered
<1>2. f \in [Sections -> Phases \cup {"ABSENT", "DONE"}]
  BY RowIs, PhasesAre
<1>3. f[s] = p /\ \A u \in Sections : u # s => f[u] = r.phase[u]
  BY RowIs
<1> HIDE DEF f, p
<1> QED
  BY <1>1, <1>2, <1>3 DEF Rows, p

\* The loop over the sections passes those that are done, and enters the next one.
LEMMA OnwardIs ==
    ASSUME NEW r \in Rows, NEW w \in Writers, NEW q, q = Onward(r, Mine(w))
    PROVE  /\ q \in Rows
           /\ q.status = r.status /\ q.repair = r.repair /\ q.override = r.override
           /\ r.results \subseteq q.results
           /\ \A s \in q.results : s \in r.results \/ r.phase[s] = "DONE"
           /\ \A s \in Sections :
                 q.phase[s] = r.phase[s] \/ (r.phase[s] = "ABSENT" /\ q.phase[s] = "BLUEPRINT")
           /\ Todo(q, Mine(w)) = {} \/ InSection(q, Mine(w))
<1> DEFINE mine == Mine(w)
           met == {s \in Todo(r, mine) : \A u \in Unwritten(r, mine) : s < u}
           m == [r EXCEPT !.results = r.results \cup met]
<1>1. Todo(r, mine) \subseteq Sections
  BY TodoIs
<1>2. m \in Rows /\ m.results = r.results \cup met
  BY <1>1 DEF Rows
<1>3. /\ m.status = r.status /\ m.repair = r.repair /\ m.override = r.override
      /\ m.phase = r.phase
  BY DEF Rows
<1>4. \A s \in met : r.phase[s] = "DONE"
  <2> SUFFICES ASSUME NEW s \in met, r.phase[s] # "DONE" PROVE FALSE
    OBVIOUS
  <2>1. s \in Unwritten(r, mine)
    BY DEF Unwritten
  <2>2. s < s /\ s \in Nat
    BY <2>1, <1>1 DEF Sections
  <2> QED
    BY <2>2
<1>5. q = IF Todo(m, mine) = {} THEN m ELSE Entered(m, Active(m, mine))
  BY DEF Onward
<1>6. Todo(m, mine) = Todo(r, mine) \ met
  BY <1>2, <1>3 DEF Todo, Targets
<1>7. CASE Todo(m, mine) = {}
  BY <1>2, <1>3, <1>4, <1>5, <1>7
<1>8. CASE Todo(m, mine) # {}
  <2> DEFINE s == Active(m, mine)
  <2>1. s \in Todo(m, mine) /\ s \in Sections /\ \A u \in Todo(m, mine) : s <= u
    BY <1>1, <1>6, <1>8, ActiveIs
  <2>2. r.phase[s] # "DONE"
    <3>1. PICK u \in Unwritten(r, mine) : ~(s < u)
      BY <2>1, <1>6
    <3>2. u \in Todo(r, mine) /\ r.phase[u] # "DONE" /\ u \in Nat /\ s \in Nat
      BY <2>1, <1>1 DEF Unwritten, Sections
    <3>3. u \notin met
      BY <3>2, <1>4
    <3>4. u = s
      BY <3>1, <3>2, <3>3, <2>1, <1>6
    <3> QED
      BY <3>2, <3>4
  <2>3. r.phase[s] \in Phases \cup {"ABSENT"}
    BY <2>1, <2>2, RowIs
  <2> HIDE DEF s, m, met
  <2>4. q = Entered(m, s)
    BY <1>5, <1>8 DEF s
  <2>5. /\ q \in Rows
        /\ q.status = m.status /\ q.results = m.results /\ q.repair = m.repair
        /\ q.override = m.override
        /\ q.phase[s] = IF m.phase[s] = "ABSENT" THEN "BLUEPRINT" ELSE m.phase[s]
        /\ \A u \in Sections : u # s => q.phase[u] = m.phase[u]
    BY <1>2, <2>1, <2>4, EnteredIs
  <2>6. Todo(q, mine) = Todo(m, mine)
    BY <2>5 DEF Todo, Targets
  <2>7. Active(q, mine) = s
    BY <2>6 DEF Active, s
  <2>8. q.phase[s] \in Phases
    BY <2>3, <2>5, <1>3, PhasesAre
  <2>9. InSection(q, mine)
    BY <2>6, <2>7, <2>8, <1>8 DEF InSection
  <2>10. q.results = r.results \cup met
    BY <1>2, <2>5
  <2>11. \A u \in Sections :
            q.phase[u] = r.phase[u] \/ (r.phase[u] = "ABSENT" /\ q.phase[u] = "BLUEPRINT")
    BY <2>5, <1>3
  <2> QED
    BY <2>5, <2>9, <2>10, <2>11, <1>3, <1>4 DEF m
<1> QED
  BY <1>7, <1>8

\* A phase that passed.
LEMMA PassedIs ==
    ASSUME NEW r \in Rows, NEW s \in Sections, r.phase[s] \in Phases, NEW q, q = Passed(r, s)
    PROVE  /\ q \in Rows
           /\ q.status = r.status /\ q.repair = r.repair /\ q.override = r.override
           /\ q.phase[s] = After[r.phase[s]]
           /\ \A u \in Sections : u # s => q.phase[u] = r.phase[u]
           /\ q.results = IF After[r.phase[s]] = "DONE" THEN r.results \cup {s} ELSE r.results
<1> DEFINE n == After[r.phase[s]]
           f == [r.phase EXCEPT ![s] = n]
           a == IF n = "DONE" THEN r.results \cup {s} ELSE r.results
<1>1. q = [[r EXCEPT !.phase = f] EXCEPT !.results = a]
  BY DEF Passed, Rows
<1>2. f \in [Sections -> Phases \cup {"ABSENT", "DONE"}] /\ a \in SUBSET Sections
  BY RowIs, PhasesAre
<1>3. f[s] = n /\ \A u \in Sections : u # s => f[u] = r.phase[u]
  BY RowIs
<1> HIDE DEF f, a
<1>4. /\ q \in Rows /\ q.status = r.status /\ q.repair = r.repair /\ q.override = r.override
      /\ q.phase = f /\ q.results = a
  BY <1>1, <1>2 DEF Rows
<1> QED
  BY <1>3, <1>4 DEF a

\* The bookkeeping of a repair.
LEMMA RepairIs ==
    ASSUME NEW r \in Rows, NEW s \in Sections, NEW c \in DOMAIN Repairs, NEW v \in Versions
    PROVE  /\ Attempted(r, s, c) \in Rows /\ Same(r, Attempted(r, s, c))
           /\ LET q == Overridden(r, s, c, v)
              IN  /\ q \in Rows
                  /\ q.status = r.status /\ q.results = r.results /\ q.phase = r.phase
                  /\ q.repair = r.repair
                  /\ q.override[s][Repairs[c]] = v
                  /\ \A u \in Sections, p \in Repairable :
                        u # s \/ p # Repairs[c] => q.override[u][p] = r.override[u][p]
<1>1. Repairs[c] \in Repairable
  BY DEF Repairs, Repairable
<1>2. Attempted(r, s, c) \in Rows /\ Same(r, Attempted(r, s, c))
  <2> DEFINE a == r.tried \cup {<<s, Repairs[c]>>}
  <2>1. a \in SUBSET (Sections \X Repairable)
    BY <1>1 DEF Rows
  <2>2. Attempted(r, s, c) = [r EXCEPT !.tried = a]
    BY DEF Attempted, Rows
  <2> HIDE DEF a
  <2>3. [r EXCEPT !.tried = a] \in Rows
    BY <2>1 DEF Rows
  <2>4. Same(r, [r EXCEPT !.tried = a])
    BY DEF Rows, Same
  <2> QED
    BY <2>2, <2>3, <2>4
<1> DEFINE p0 == Repairs[c]
           f == [r.override EXCEPT ![s][p0] = v]
<1>3. f \in [Sections -> [Repairable -> Versions]]
  BY <1>1, RowIs
<1>4. /\ f[s][p0] = v
      /\ \A u \in Sections, p \in Repairable : u # s \/ p # p0 => f[u][p] = r.override[u][p]
  BY <1>1, RowIs
<1>5. Overridden(r, s, c, v) = [r EXCEPT !.override = f]
  BY DEF Overridden
<1> DEFINE q == Overridden(r, s, c, v)
<1> HIDE DEF f
<1>6. /\ q \in Rows /\ q.override = f
      /\ q.status = r.status /\ q.results = r.results /\ q.phase = r.phase /\ q.repair = r.repair
  BY <1>3, <1>5 DEF Rows
<1> HIDE DEF q
<1>7. /\ q.override[s][p0] = v
      /\ \A u \in Sections, p \in Repairable : u # s \/ p # p0 => q.override[u][p] = r.override[u][p]
  BY <1>4, <1>6
<1> QED
  BY <1>2, <1>6, <1>7 DEF q

-----------------------------------------------------------------------------
(* Types and positions                                                      *)

\* Who writes: the parent every section, a group its own.
LEMMA WritersAre ==
    /\ Main \in Writers /\ Groups \subseteq Writers /\ Mine(Main) = Sections
    /\ \A g \in Groups : g # Main /\ Mine(g) = {s \in Sections : Owner[s] = g}
    /\ \A s \in Sections : Owner[s] \in Groups /\ Owner[s] # Main
    /\ \A w \in Writers : w = Main \/ w \in Groups
BY Constants DEF Writers, Mine

\* A task that has been put into a slot.
LEMMA TaskIs ==
    /\ NoTask \in Tasks /\ NoTask.pc = "off"
    /\ \A pc \in {"off", "fresh", "ready", "await", "repair", "recheck", "done"} :
          \A r \in Rows : /\ Task(pc, r) \in Tasks /\ Task(pc, r).pc = pc
                          /\ Task(pc, r).row = r
BY NewRows, Constants DEF NoTask, Task, Tasks

\* A section that is written is a section, at a phase.
LEMMA SectionIs ==
    ASSUME NEW r \in Rows, NEW w \in Writers, InSection(r, Mine(w))
    PROVE  LET s == Active(r, Mine(w))
           IN  /\ s \in Sections /\ s \in Mine(w) \cup r.repair /\ s \notin r.results
               /\ r.phase[s] \in Phases
<1>1. Todo(r, Mine(w)) \subseteq Sections /\ Todo(r, Mine(w)) # {}
  BY TodoIs DEF InSection
<1> QED
  BY <1>1, ActiveIs DEF InSection, Todo, Targets

\* One task changed.
LEMMA OneTask ==
    ASSUME tasks \in [Slots -> Tasks], NEW w \in Writers, NEW k \in Gens, NEW x \in Tasks,
           tasks' = [tasks EXCEPT ![<<w, k>>] = x]
    PROVE  /\ tasks' \in [Slots -> Tasks] /\ tasks'[<<w, k>>] = x
           /\ \A u \in Writers, j \in Gens :
                 u # w \/ j # k => tasks'[<<u, j>>] = tasks[<<u, j>>]
           /\ Placed /\ PlacedAt(w, x) => Placed'
<1>1. /\ tasks' \in [Slots -> Tasks] /\ tasks'[<<w, k>>] = x
      /\ \A u \in Writers, j \in Gens : u # w \/ j # k => tasks'[<<u, j>>] = tasks[<<u, j>>]
  BY DEF Slots
<1>2. ASSUME Placed, PlacedAt(w, x), NEW u \in Writers, NEW j \in Gens
      PROVE  PlacedAt(u, tasks'[<<u, j>>])
  BY <1>1, <1>2 DEF Placed
<1>3. Placed /\ PlacedAt(w, x) => Placed'
  BY <1>2 DEF Placed, PlacedAt, InSection
<1> QED
  BY <1>1, <1>3

\* Tasks that are gone need no place.
LEMMA GoneTasks ==
    ASSUME tasks \in [Slots -> Tasks], Placed, tasks' \in [Slots -> Tasks],
           \A u \in Writers, j \in Gens :
              \/ tasks'[<<u, j>>] = tasks[<<u, j>>] \/ tasks'[<<u, j>>].pc \notin Drafting
    PROVE  Placed'
<1>1. ASSUME NEW u \in Writers, NEW j \in Gens
      PROVE  PlacedAt(u, tasks'[<<u, j>>])
  BY <1>1 DEF Placed, PlacedAt, Drafting
<1> QED
  BY <1>1 DEF Placed, PlacedAt, InSection

\* The row a group's task ends with, or goes on with.
LEMMA EndIs ==
    ASSUME NEW g \in Writers, NEW r, Movable(r, g),
           NEW end, end = IF Through(r, g) THEN GroupRow(r, g) ELSE r
    PROVE  /\ end \in Rows /\ end.results = r.results /\ end.phase = r.phase
           /\ end.override = r.override /\ end.repair \in {r.repair, {}}
           /\ end.status \in {"RUNNING", "BLOCKED", "COMPLETED"}
           /\ end.status = "RUNNING" => end = r /\ InSection(r, Mine(g))
           /\ end.status = "COMPLETED" => Mine(g) \subseteq r.results
<1>1. CASE Through(r, g)
  <2>1. end = GroupRow(r, g)
    BY <1>1
  <2> QED
    BY <2>1 DEF GroupRow, Rows, Movable
<1>2. CASE ~Through(r, g)
  BY <1>2 DEF Through, Movable
<1> QED
  BY <1>1, <1>2

\* What the parent's chain does with a row.
LEMMA MainTypes ==
    ASSUME Typed, NEW k \in Gens, NEW r, Movable(r, Main), MoveMain(k, r)
    PROVE  /\ rows' \in [Writers -> Rows] /\ plan' \in Plans /\ gate' \in BOOLEAN
           /\ cur' \in {0} \cup Gens /\ tasks' \in [Slots -> Tasks] /\ Placed'
<1> USE DEF Typed
<1>1. WrittenRow(r, plan) \in Rows /\ WrittenPlan(plan) \in Plans
  BY DEF Movable, Rows, WrittenRow, WrittenPlan, TypeOK, Plans
<1>2. Main \in Writers
  BY WritersAre
<1>3. plan.skip \in BOOLEAN
  BY DEF TypeOK, Plans
<1>4. rows' \in [Writers -> Rows] /\ plan' \in Plans /\ gate' \in BOOLEAN /\ cur' \in {0} \cup Gens
  BY <1>1, <1>2, <1>3 DEF MoveMain, TypeOK, Movable
<1>5. \E x \in Tasks : tasks' = [tasks EXCEPT ![<<Main, k>>] = x] /\ PlacedAt(Main, x)
  <2>1. CASE Through(r, Main) \/ r.status = "BLOCKED"
    <3>1. tasks' = [tasks EXCEPT ![<<Main, k>>] = NoTask]
      BY <2>1 DEF MoveMain
    <3>2. PlacedAt(Main, NoTask)
      BY TaskIs DEF PlacedAt, Drafting
    <3> QED
      BY <3>1, <3>2, TaskIs
  <2>2. CASE ~(Through(r, Main) \/ r.status = "BLOCKED")
    <3>1. tasks' = [tasks EXCEPT ![<<Main, k>>] = Task("ready", r)]
      BY <2>2 DEF MoveMain
    <3>2. /\ Task("ready", r) \in Tasks /\ Task("ready", r).pc = "ready"
          /\ Task("ready", r).row = r
      BY TaskIs DEF Movable
    <3>3. r.status = "RUNNING" /\ InSection(r, Mine(Main))
      BY <2>2 DEF Movable, Through
    <3>4. PlacedAt(Main, Task("ready", r))
      BY <3>2, <3>3 DEF PlacedAt, Drafting
    <3> QED
      BY <3>1, <3>2, <3>4
  <2> QED
    BY <2>1, <2>2
<1> QED
  BY <1>2, <1>4, <1>5, OneTask DEF TypeOK

\* What a group's task does with a row.
LEMMA GroupTypes ==
    ASSUME Typed, NEW g \in Groups, NEW k \in Gens, NEW r, Movable(r, g),
           NEW begins \in BOOLEAN, MoveGroup(g, k, r, begins)
    PROVE  /\ rows' \in [Writers -> Rows] /\ plan' \in Plans /\ gate' \in BOOLEAN
           /\ cur' \in {0} \cup Gens /\ tasks' \in [Slots -> Tasks] /\ Placed'
<1> USE DEF Typed
<1> DEFINE end == IF Through(r, g) THEN GroupRow(r, g) ELSE r
           tells == begins \/ end.status = "COMPLETED"
<1>1. g \in Writers /\ Main \in Writers /\ g # Main
  BY WritersAre
<1>2. end \in Rows /\ (end.status = "RUNNING" => InSection(end, Mine(g)))
  BY <1>1, EndIs
<1>3. /\ rows' = [rows EXCEPT ![g] = end, ![Main] = IF tells THEN copies[k].row ELSE @]
      /\ plan' = IF tells THEN copies[k].plan ELSE plan
      /\ tasks' = [tasks EXCEPT ![<<g, k>>] =
                      IF end.status = "RUNNING" THEN Task("ready", end)
                      ELSE IF k = cur THEN Task("done", end) ELSE NoTask]
      /\ UNCHANGED <<gate, cur>>
  BY DEF MoveGroup
<1> HIDE DEF end, tells
<1>4. copies[k].row \in Rows /\ copies[k].plan \in Plans
  BY DEF TypeOK
<1>5. /\ rows' \in [Writers -> Rows] /\ plan' \in Plans /\ gate' \in BOOLEAN
      /\ cur' \in {0} \cup Gens
  BY <1>1, <1>2, <1>3, <1>4 DEF TypeOK
<1>6. \E x \in Tasks : tasks' = [tasks EXCEPT ![<<g, k>>] = x] /\ PlacedAt(g, x)
  <2>1. /\ Task("ready", end) \in Tasks /\ Task("ready", end).pc = "ready"
        /\ Task("ready", end).row = end
        /\ Task("done", end) \in Tasks /\ Task("done", end).pc = "done"
    BY <1>2, TaskIs
  <2>2. end.status = "RUNNING" => PlacedAt(g, Task("ready", end))
    BY <1>2, <2>1 DEF PlacedAt, Drafting
  <2>3. PlacedAt(g, Task("done", end)) /\ PlacedAt(g, NoTask)
    BY <2>1, TaskIs DEF PlacedAt, Drafting
  <2> QED
    BY <1>3, <2>1, <2>2, <2>3, TaskIs
<1> QED
  BY <1>1, <1>5, <1>6, OneTask DEF TypeOK

\* What any task does with a row.
LEMMA MoveTypes ==
    ASSUME Typed, NEW w \in Writers, NEW k \in Gens, NEW r, Movable(r, w), Move(w, k, r),
           UNCHANGED <<full, copies, asked, wanted, crashes, faults>>,
           docs' \in [Sections -> Docs], changed' \subseteq Sections
    PROVE  Typed'
<1>1. /\ rows' \in [Writers -> Rows] /\ plan' \in Plans /\ gate' \in BOOLEAN
      /\ cur' \in {0} \cup Gens /\ tasks' \in [Slots -> Tasks] /\ Placed'
  <2>1. CASE w = Main
    BY <2>1, MainTypes DEF Move
  <2>2. CASE w # Main
    BY <2>2, GroupTypes, WritersAre DEF Move
  <2> QED
    BY <2>1, <2>2
<1> QED
  BY <1>1 DEF Typed, TypeOK

\* A chain that has passed a phase, or has been blocked, moves on.
LEMMA PassMoves ==
    ASSUME NEW r \in Rows, NEW w \in Writers, r.status = "RUNNING", InSection(r, Mine(w))
    PROVE  /\ Movable(Onward(Passed(r, Active(r, Mine(w))), Mine(w)), w)
           /\ Movable(Blocked(r), w)
<1> DEFINE s == Active(r, Mine(w))
           p == Passed(r, s)
           q == Onward(p, Mine(w))
<1>1. s \in Sections /\ r.phase[s] \in Phases
  BY SectionIs
<1> HIDE DEF s, p
<1>2. p \in Rows /\ p.status = "RUNNING"
  <2>1. p = Passed(r, s)
    BY DEF p
  <2> QED
    BY ZenonT(40), <1>1, <2>1, PassedIs
<1>3. q \in Rows /\ q.status = "RUNNING" /\ (Todo(q, Mine(w)) = {} \/ InSection(q, Mine(w)))
  BY <1>2, OnwardIs
<1>4. Movable(q, w)
  BY <1>3 DEF Movable
<1>5. Movable(Blocked(r), w)
  BY NewRows DEF Movable, Blocked, Rows
<1> QED
  BY <1>4, <1>5 DEF p, s

\* What the texts of a section become with a PASS.
LEMMA ProducedIs ==
    ASSUME NEW d \in Docs, NEW phase \in Phases, NEW seen \in Versions, NEW of, NEW k \in Gens,
           NEW e, e = Produced(d, phase, seen, of, k)
    PROVE  /\ e \in Docs
           /\ e.BLUEPRINT = IF phase = "BLUEPRINT" THEN seen ELSE d.BLUEPRINT
           /\ e.CONTENT = IF phase = "CONTENT" THEN seen ELSE d.CONTENT
           /\ phase \in {"CONTENT", "POLISH"} =>
                 e.candidate = seen /\ e.kind = phase /\ e.by = k /\ ~e.approved
           /\ phase \notin {"CONTENT", "POLISH"} =>
                 /\ e.candidate = d.candidate /\ e.kind = d.kind /\ e.by = d.by
           /\ phase = "EXPRESSION_CRITIC" /\ d.approved => e = d
           /\ phase = "EXPRESSION_CRITIC" /\ d.kind = "POLISH" /\ d.by = of => e.approved
           /\ phase \notin {"CONTENT", "POLISH", "EXPRESSION_CRITIC"} => (e.approved <=> d.approved)
           /\ phase \in {"BLUEPRINT_CRITIC", "CONTENT_CRITIC"} => e = d
<1>1. CASE phase = "BLUEPRINT"
  <2>1. e = [d EXCEPT !.BLUEPRINT = seen]
    BY <1>1 DEF Produced
  <2> QED
    BY <1>1, <2>1 DEF Docs
<1>2. CASE phase = "CONTENT"
  <2>1. e = [d EXCEPT !.CONTENT = seen, !.candidate = seen, !.kind = "CONTENT",
                      !.by = k, !.approved = FALSE]
    BY <1>2 DEF Produced
  <2> QED
    BY <1>2, <2>1 DEF Docs, Producers
<1>3. CASE phase = "POLISH"
  <2>1. e = [d EXCEPT !.candidate = seen, !.kind = "POLISH", !.by = k, !.approved = FALSE]
    BY <1>3 DEF Produced
  <2> QED
    BY <1>3, <2>1 DEF Docs, Producers
<1>4. CASE phase = "EXPRESSION_CRITIC"
  <2> DEFINE a == d.kind = "POLISH" /\ d.by = of
             b == d.approved \/ a
  <2>1. e = [d EXCEPT !.approved = b]
    BY <1>4 DEF Produced
  <2>2. d.approved \in BOOLEAN /\ d \in Docs
    BY DEF Docs
  <2>3. b \in BOOLEAN /\ (a => b) /\ (d.approved => b = d.approved)
    BY <2>2
  <2> HIDE DEF b
  <2>4. /\ e \in Docs
        /\ e.BLUEPRINT = d.BLUEPRINT /\ e.CONTENT = d.CONTENT /\ e.candidate = d.candidate
        /\ e.kind = d.kind /\ e.by = d.by /\ e.approved = b
    BY <2>1, <2>3 DEF Docs
  <2>5. b = d.approved => e = d
    BY <2>1 DEF Docs
  <2> QED
    BY <1>4, <2>3, <2>4, <2>5
<1>5. CASE phase \in {"BLUEPRINT_CRITIC", "CONTENT_CRITIC"}
  <2>1. e = d
    BY <1>5 DEF Produced
  <2> QED
    BY <1>5, <2>1
<1> QED
  BY <1>1, <1>2, <1>3, <1>4, <1>5, PhasesAre

\* What is committed is one section's text, or the verdict on it.
LEMMA CommitIs ==
    ASSUME Typed, NEW w \in Writers, NEW k \in Gens, tasks[<<w, k>>].pc = "await", Commit(w, k),
           NEW t, t = tasks[<<w, k>>], NEW s, s = Active(t.row, Mine(w)),
           NEW phase, phase = t.row.phase[s]
    PROVE  /\ docs' \in [Sections -> Docs] /\ s \in Sections /\ phase \in Phases
           /\ \A u \in Sections : u # s => docs'[u] = docs[u]
           /\ docs'[s] = Produced(docs[s], phase, t.seen, t.of, k)
           /\ changed' = IF phase \in {"CONTENT", "POLISH"} THEN changed \cup {s} ELSE changed
           /\ changed' \subseteq Sections
<1> USE DEF Typed
<1>1. t \in Tasks /\ t.row \in Rows /\ t.seen \in Versions
  BY DEF TypeOK, Slots, Tasks
<1>2. s \in Sections /\ phase \in Phases
  BY <1>1, SectionIs DEF Placed, PlacedAt, Drafting
<1>3. docs \in [Sections -> Docs] /\ changed \subseteq Sections
  BY DEF TypeOK
<1> DEFINE x == Produced(docs[s], phase, t.seen, t.of, k)
<1>4. /\ docs' = [docs EXCEPT ![s] = x]
      /\ changed' = IF phase \in {"CONTENT", "POLISH"} THEN changed \cup {s} ELSE changed
  BY DEF Commit
<1>5. x \in Docs
  <2> HIDE DEF x
  <2>1. x = Produced(docs[s], phase, t.seen, t.of, k) /\ docs[s] \in Docs
    BY <1>2, <1>3 DEF x
  <2> QED
    BY <1>1, <1>2, <2>1, ProducedIs
<1> HIDE DEF x
<1>6. docs'[s] = x /\ docs' \in [Sections -> Docs] /\ \A u \in Sections : u # s => docs'[u] = docs[u]
  BY <1>2, <1>3, <1>4, <1>5
<1> QED
  BY <1>2, <1>3, <1>4, <1>6 DEF x

\* The types hold at the start.
LEMMA InitTyped == Init => Typed
<1> SUFFICES ASSUME Init PROVE Typed
  OBVIOUS
<1>1. NewPlan \in Plans /\ NewDoc \in Docs
  BY Constants DEF NewPlan, Plans, NewDoc, Docs
<1>2. NoCopy \in [row : Rows, plan : Plans]
  BY <1>1, NewRows DEF NoCopy
<1>3. wanted \in [Sections -> Versions]
  BY Constants DEF Init, Versions
<1>4. crashes \in Nat /\ faults \in Nat /\ crashes + faults <= MaxFailures
  BY Constants DEF Init
<1>5. tasks \in [Slots -> Tasks] /\ \A w \in Writers, k \in Gens : tasks[<<w, k>>] = NoTask
  BY TaskIs DEF Init, Slots
<1>6. Placed
  <2>1. PlacedAt(Main, NoTask) /\ \A w \in Writers : PlacedAt(w, NoTask)
    BY TaskIs DEF PlacedAt, Drafting
  <2> QED
    BY <1>5, <2>1 DEF Placed
<1>7. TypeOK
  BY <1>1, <1>2, <1>3, <1>4, <1>5, NewRows DEF Init, TypeOK
<1> QED
  BY <1>6, <1>7 DEF Typed

\* A step of a task in a section.
LEMMA WriteTyped ==
    ASSUME Typed, NEW w \in Writers, NEW k \in Gens, Write(w, k)
    PROVE  Typed'
<1> USE DEF Typed
<1> DEFINE t == tasks[<<w, k>>]
           s == Active(t.row, Mine(w))
<1>1. t \in Tasks /\ t.row \in Rows /\ t.seen \in Versions /\ t.pc = t.pc
  BY DEF TypeOK, Slots, Tasks
<1>2. ASSUME t.pc \in Drafting
      PROVE  /\ t.row.status = "RUNNING" /\ InSection(t.row, Mine(w))
             /\ s \in Sections /\ t.row.phase[s] \in Phases
             /\ Movable(Onward(Passed(t.row, s), Mine(w)), w) /\ Movable(Blocked(t.row), w)
  <2>1. t.row.status = "RUNNING" /\ InSection(t.row, Mine(w))
    BY <1>2 DEF Placed, PlacedAt
  <2> QED
    BY <1>1, <2>1, SectionIs, PassMoves
<1>3. tasks \in [Slots -> Tasks] /\ docs \in [Sections -> Docs] /\ rows \in [Writers -> Rows]
      /\ wanted \in [Sections -> Versions] /\ changed \subseteq Sections
  BY DEF TypeOK
<1>4. ASSUME NEW x \in Tasks, PlacedAt(w, x), tasks' = [tasks EXCEPT ![<<w, k>>] = x],
             rows' \in [Writers -> Rows],
             UNCHANGED <<full, plan, gate, copies, cur, asked, docs, changed, wanted, crashes, faults>>
      PROVE  Typed'
  <2>1. tasks' \in [Slots -> Tasks] /\ Placed'
    BY <1>3, <1>4, OneTask
  <2> QED
    BY <1>4, <2>1 DEF TypeOK
<1>5. CASE Ask(w, k)
  <2> DEFINE text == CASE t.row.phase[s] = "BLUEPRINT" -> wanted[s]
                  [] t.row.phase[s] = "CONTENT" -> TextOf(t.row, s, docs[s], "BLUEPRINT")
                  [] t.row.phase[s] = "POLISH" -> TextOf(t.row, s, docs[s], "CONTENT")
                  [] OTHER -> 0
             of == IF t.row.phase[s] = "EXPRESSION_CRITIC" /\ docs[s].kind = "POLISH"
                   THEN docs[s].by ELSE 0
             x == [t EXCEPT !.pc = "await", !.seen = text, !.of = of]
  <2>1. t.pc = "ready" /\ tasks' = [tasks EXCEPT ![<<w, k>>] = x]
    BY <1>5 DEF Ask
  <2>2. s \in Sections /\ t.row.phase[s] \in Phases /\ InSection(t.row, Mine(w))
        /\ t.row.status = "RUNNING"
    BY <1>2, <2>1 DEF Drafting
  <2>3. wanted[s] \in Versions /\ docs[s] \in Docs /\ 0 \in Versions
        /\ t.row.override[s]["BLUEPRINT"] \in Versions /\ t.row.override[s]["CONTENT"] \in Versions
    BY <1>1, <1>3, <2>2, RowIs, Constants DEF Repairable
  <2> HIDE DEF t, s
  <2>4. text \in Versions
    BY <2>3 DEF TextOf, Docs, Repairable
  <2>5. of \in {0} \cup Gens
    BY <2>3 DEF Docs
  <2> HIDE DEF text, of
  <2>6. x \in Tasks /\ x.pc = "await" /\ x.row = t.row
    BY <1>1, <2>4, <2>5 DEF Tasks
  <2>7. PlacedAt(w, x)
    BY <2>2, <2>6 DEF PlacedAt, Drafting
  <2>8. rows' \in [Writers -> Rows]
        /\ UNCHANGED <<full, plan, gate, copies, cur, asked, docs, changed, wanted, crashes, faults>>
    BY <1>3, <1>5 DEF Ask
  <2> HIDE DEF x
  <2> QED
    BY <1>4, <2>1, <2>6, <2>7, <2>8
<1>6. CASE AnswerPass(w, k)
  <2>1. t.pc = "await" /\ Commit(w, k)
        /\ Move(w, k, Onward(Passed(t.row, s), Mine(w)))
        /\ UNCHANGED <<full, copies, asked, wanted, crashes, faults>>
    BY <1>6 DEF AnswerPass
  <2>2. docs' \in [Sections -> Docs] /\ changed' \subseteq Sections
    BY <2>1, CommitIs
  <2>3. Movable(Onward(Passed(t.row, s), Mine(w)), w)
    BY <1>2, <2>1 DEF Drafting
  <2> QED
    BY <2>1, <2>2, <2>3, MoveTypes
<1>7. CASE AnswerRevise(w, k)
  <2> DEFINE c == t.row.phase[s]
             x == [t EXCEPT !.pc = "repair", !.row = Attempted(t.row, s, c), !.seen = docs[s][Repairs[c]]]
  <2>1. /\ t.pc = "await" /\ c \in DOMAIN Repairs
        /\ tasks' = [tasks EXCEPT ![<<w, k>>] = x] /\ rows' = [rows EXCEPT ![w] = t.row]
        /\ UNCHANGED <<full, plan, gate, copies, cur, asked, docs, changed, wanted, crashes, faults>>
    BY <1>7 DEF AnswerRevise, CanRepair
  <2>2. s \in Sections /\ c \in Phases /\ InSection(t.row, Mine(w)) /\ t.row.status = "RUNNING"
    BY <1>2, <2>1 DEF Drafting
  <2> HIDE DEF t, s
  <2>3. Attempted(t.row, s, c) \in Rows /\ Same(t.row, Attempted(t.row, s, c))
    BY <1>1, <2>1, <2>2, RepairIs, Constants
  <2>4. docs[s][Repairs[c]] \in Versions
    BY <1>3, <2>1, <2>2 DEF Docs, Repairs
  <2>5. x \in Tasks /\ x.pc = "repair" /\ x.row = Attempted(t.row, s, c)
    BY <1>1, <2>3, <2>4 DEF Tasks
  <2> HIDE DEF c, x
  <2>6. Todo(x.row, Mine(w)) = Todo(t.row, Mine(w)) /\ x.row.phase = t.row.phase
        /\ x.row.status = t.row.status
    BY <2>3, <2>5 DEF Same, Todo, Targets
  <2>7. Active(x.row, Mine(w)) = s
    BY <2>6 DEF Active, s
  <2>8. PlacedAt(w, x)
    BY <2>1, <2>2, <2>5, <2>6, <2>7 DEF PlacedAt, Drafting, InSection, c
  <2>9. rows' \in [Writers -> Rows]
    BY <1>1, <1>3, <2>1
  <2> QED
    BY <1>4, <2>1, <2>5, <2>8, <2>9
<1>8. CASE AnswerRepair(w, k)
  <2> DEFINE c == t.row.phase[s]
             r == Overridden(t.row, s, c, t.seen)
             x == Task("recheck", r)
  <2>1. /\ t.pc = "repair" /\ tasks' = [tasks EXCEPT ![<<w, k>>] = x]
        /\ rows' = [rows EXCEPT ![w] = r]
        /\ UNCHANGED <<full, plan, gate, copies, cur, asked, docs, changed, wanted, crashes, faults>>
    BY <1>8 DEF AnswerRepair
  <2>2. s \in Sections /\ c \in Phases /\ InSection(t.row, Mine(w)) /\ t.row.status = "RUNNING"
    BY <1>2, <2>1 DEF Drafting
  <2>3. c \in DOMAIN Repairs
    BY <2>1 DEF Placed, PlacedAt
  <2> HIDE DEF t, s, c
  <2>4. r \in Rows /\ r.status = t.row.status /\ r.results = t.row.results
        /\ r.phase = t.row.phase /\ r.repair = t.row.repair
    BY <1>1, <2>2, <2>3, RepairIs
  <2> HIDE DEF r
  <2>5. x \in Tasks /\ x.pc = "recheck" /\ x.row = r
    BY <2>4, TaskIs
  <2> HIDE DEF x
  <2>6. Todo(r, Mine(w)) = Todo(t.row, Mine(w))
    BY <2>4 DEF Todo, Targets
  <2>7. Active(r, Mine(w)) = s
    BY <2>6 DEF Active, s
  <2>8. PlacedAt(w, x)
    BY <2>2, <2>3, <2>4, <2>5, <2>6, <2>7 DEF PlacedAt, Drafting, InSection, c
  <2>9. rows' \in [Writers -> Rows]
    BY <1>3, <2>1, <2>4
  <2> QED
    BY <1>4, <2>1, <2>5, <2>8, <2>9
<1>9. CASE RecheckPass(w, k)
  <2>1. t.pc = "recheck" /\ Move(w, k, Onward(Passed(t.row, s), Mine(w)))
        /\ UNCHANGED <<full, copies, asked, docs, changed, wanted, crashes, faults>>
    BY <1>9 DEF RecheckPass
  <2>2. Movable(Onward(Passed(t.row, s), Mine(w)), w)
    BY <1>2, <2>1 DEF Drafting
  <2> QED
    BY <1>3, <2>1, <2>2, MoveTypes
<1>10. CASE Refuse(w, k)
  <2>1. t.pc \in {"await", "repair", "recheck"} /\ Move(w, k, Blocked(t.row))
        /\ UNCHANGED <<full, copies, asked, docs, changed, wanted, crashes, faults>>
    BY <1>10 DEF Refuse
  <2>2. Movable(Blocked(t.row), w)
    BY <1>2, <2>1 DEF Drafting
  <2> QED
    BY <1>3, <2>1, <2>2, MoveTypes
<1> QED
  BY <1>5, <1>6, <1>7, <1>8, <1>9, <1>10 DEF Write

\* Row q is row r with the sections of A sent back.
Dropped(r, q, A) ==
    /\ A = {} => q = r
    /\ A # {} => q.status = "RUNNING" /\ q.repair = A
    /\ \A s \in Sections : s \in A =>
          /\ s \notin q.results /\ q.phase[s] = "ABSENT"
          /\ \A p \in Repairable : q.override[s][p] = 0
    /\ \A s \in Sections : s \notin A =>
          /\ s \in q.results <=> s \in r.results
          /\ q.phase[s] = r.phase[s] /\ q.override[s] = r.override[s]

\* What a repair does to a group's row.
LEMMA ResetIs ==
    ASSUME NEW r \in Rows, NEW mine \in SUBSET Sections, NEW A0
    PROVE  /\ ResetForRepair(r, mine, A0) \in Rows
           /\ Dropped(r, ResetForRepair(r, mine, A0), mine \cap A0)
<1>a. PICK q : q = ResetForRepair(r, mine, A0)
  OBVIOUS
<1>0. PICK A : A = mine \cap A0 /\ A \subseteq Sections
  OBVIOUS
<1>1. ASSUME A = {} PROVE q \in Rows /\ Dropped(r, q, A)
  <2>1. q = r
    BY <1>a, <1>0, <1>1 DEF ResetForRepair
  <2> QED
    BY <1>0, <1>1, <2>1 DEF Dropped
<1>2. ASSUME A # {} PROVE q \in Rows /\ Dropped(r, q, A)
  <2> DEFINE f == [s \in Sections |-> IF s \in A THEN "ABSENT" ELSE r.phase[s]]
             o == [s \in Sections |-> IF s \in A THEN [p \in Repairable |-> 0] ELSE r.override[s]]
  <2>1. q = [r EXCEPT !.status = "RUNNING", !.results = @ \ A, !.repair = A, !.phase = f,
                      !.override = o]
    BY <1>a, <1>0, <1>2 DEF ResetForRepair
  <2>2. f \in [Sections -> Phases \cup {"ABSENT", "DONE"}]
    BY RowIs
  <2>3. o \in [Sections -> [Repairable -> Versions]]
    BY RowIs, Constants
  <2> HIDE DEF f, o
  <2>4. /\ q.status = "RUNNING" /\ q.results = r.results \ A /\ q.repair = A
        /\ q.phase = f /\ q.override = o /\ q.tried = r.tried
        /\ q = [status |-> q.status, results |-> q.results, phase |-> q.phase,
                tried |-> q.tried, override |-> q.override, repair |-> q.repair]
    BY <2>1 DEF Rows
  <2>5. q.results \in SUBSET Sections /\ q.repair \in SUBSET Sections
        /\ q.tried \in SUBSET (Sections \X Repairable)
    BY <1>0, <2>4, RowIs
  <2>6. q \in Rows
    BY <1>0, <2>2, <2>3, <2>4, <2>5 DEF Rows
  <2>7. \A s \in Sections : f[s] = IF s \in A THEN "ABSENT" ELSE r.phase[s]
    BY DEF f
  <2>8. \A s \in Sections : /\ s \in A => \A p \in Repairable : o[s][p] = 0
                            /\ s \notin A => o[s] = r.override[s]
    BY DEF o
  <2> QED
    BY <1>2, <2>4, <2>6, <2>7, <2>8 DEF Dropped
<1>3. q \in Rows /\ Dropped(r, q, A)
  BY <1>1, <1>2
<1> QED
  BY <1>a, <1>0, <1>3

\* The branches of an integration repair on the parent's row.
LEMMA ScheduleIs ==
    ASSUME NEW r \in Rows
    PROVE  /\ \A A \in SUBSET Sections :
                 LET q == ScheduleRepair(r, A)
                 IN  /\ q \in Rows /\ q.status = r.status /\ q.results = r.results \ A
                     /\ q.repair = A /\ q.override = r.override
                     /\ \A s \in Sections : q.phase[s] = IF s \in A THEN "ABSENT" ELSE r.phase[s]
           /\ \A f \in BOOLEAN :
                 LET q == ScheduleRevision(r, f)
                 IN  /\ q \in Rows /\ q.status = r.status /\ q.results = {} /\ q.repair = {}
                     /\ q.override = r.override
                     /\ ~f => q.phase = r.phase
<1>1. ASSUME NEW A \in SUBSET Sections
      PROVE  LET q == ScheduleRepair(r, A)
             IN  /\ q \in Rows /\ q.status = r.status /\ q.results = r.results \ A
                 /\ q.repair = A /\ q.override = r.override
                 /\ \A s \in Sections : q.phase[s] = IF s \in A THEN "ABSENT" ELSE r.phase[s]
  <2> DEFINE q == ScheduleRepair(r, A)
             f == [s \in Sections |-> IF s \in A THEN "ABSENT" ELSE r.phase[s]]
  <2>1. q = [r EXCEPT !.results = @ \ A, !.repair = A, !.phase = f]
    BY DEF ScheduleRepair
  <2>2. f \in [Sections -> Phases \cup {"ABSENT", "DONE"}]
        /\ \A s \in Sections : f[s] = IF s \in A THEN "ABSENT" ELSE r.phase[s]
    BY RowIs
  <2> HIDE DEF f, q
  <2>3. /\ q \in Rows /\ q.status = r.status /\ q.results = r.results \ A /\ q.repair = A
        /\ q.override = r.override /\ q.phase = f
    BY <2>1, <2>2 DEF Rows
  <2> QED
    BY <2>2, <2>3 DEF q
<1>2. ASSUME NEW f \in BOOLEAN
      PROVE  LET q == ScheduleRevision(r, f)
             IN  /\ q \in Rows /\ q.status = r.status /\ q.results = {} /\ q.repair = {}
                 /\ q.override = r.override
                 /\ ~f => q.phase = r.phase
  <2> DEFINE q == ScheduleRevision(r, f)
             h == IF f THEN [s \in Sections |-> "ABSENT"] ELSE r.phase
  <2>1. q = [r EXCEPT !.results = {}, !.repair = {}, !.phase = h]
    BY DEF ScheduleRevision
  <2>2. h \in [Sections -> Phases \cup {"ABSENT", "DONE"}] /\ (~f => h = r.phase)
    BY RowIs
  <2> HIDE DEF h, q
  <2>3. /\ q \in Rows /\ q.status = r.status /\ q.results = {} /\ q.repair = {}
        /\ q.override = r.override /\ q.phase = h
    BY <2>1, <2>2 DEF Rows
  <2> QED
    BY <2>2, <2>3 DEF q
<1> QED
  BY <1>1, <1>2

\* The loop over the sections starts.
LEMMA StartSerialTyped == Typed /\ StartSerial => Typed'
<1> SUFFICES ASSUME Typed, StartSerial PROVE Typed'
  OBVIOUS
<1> DEFINE r == Onward(rows[Main], Mine(Main))
<1>1. rows[Main] \in Rows /\ rows[Main].status = "RUNNING" /\ Main \in Writers
  BY WritersAre DEF Typed, TypeOK, StartSerial, At
<1>2. MoveMain(1, r) /\ UNCHANGED <<full, copies, asked, docs, changed, wanted, crashes, faults>>
  BY WritersAre DEF StartSerial
<1>3. r \in Rows /\ r.status = "RUNNING" /\ (Todo(r, Mine(Main)) = {} \/ InSection(r, Mine(Main)))
  BY <1>1, OnwardIs
<1> HIDE DEF r
<1>4. Movable(r, Main)
  BY <1>3 DEF Movable
<1>5. Move(Main, 1, r)
  BY <1>2 DEF Move
<1>6. docs' \in [Sections -> Docs] /\ changed' \subseteq Sections
  BY <1>2 DEF Typed, TypeOK
<1> QED
  BY <1>1, <1>2, <1>4, <1>5, <1>6, MoveTypes, Constants

\* The groups are started.
LEMMA StartGroupsTyped == Typed /\ StartGroups => Typed'
<1> SUFFICES ASSUME Typed, StartGroups PROVE Typed'
  OBVIOUS
<1> USE DEF Typed
<1>1. PICK k \in Gens :
          /\ cur' = k
          /\ plan' = [plan EXCEPT !.children = Groups]
          /\ copies' = [copies EXCEPT ![k] = [row |-> rows[Main], plan |-> plan']]
          /\ tasks' = [t \in Slots |-> IF t[1] \in Groups /\ t[2] = k
                                       THEN Task("fresh", NewRow) ELSE tasks[t]]
  BY DEF StartGroups
<1>2. /\ rows' = [w \in Writers |-> IF w \in Groups \ plan.children THEN NewRow ELSE rows[w]]
      /\ UNCHANGED <<full, gate, asked, docs, changed, wanted, crashes, faults>>
  BY DEF StartGroups
<1>3. /\ Task("fresh", NewRow) \in Tasks /\ Task("fresh", NewRow).pc = "fresh" /\ NewRow \in Rows
  BY NewRows, TaskIs
<1>4. /\ tasks' \in [Slots -> Tasks]
      /\ \A u \in Writers, j \in Gens :
            \/ tasks'[<<u, j>>] = tasks[<<u, j>>] \/ tasks'[<<u, j>>].pc \notin Drafting
  BY <1>1, <1>3 DEF TypeOK, Slots, Drafting
<1>5. Placed'
  BY <1>4, GoneTasks DEF TypeOK
<1>6. plan' \in Plans
  BY <1>1 DEF TypeOK, Plans
<1>7. rows[Main] \in Rows
  BY WritersAre DEF TypeOK
<1>8. copies' \in [{0} \cup Gens -> [row : Rows, plan : Plans]]
  BY <1>1, <1>6, <1>7 DEF TypeOK
<1>9. rows' \in [Writers -> Rows]
  BY <1>2, <1>3 DEF TypeOK
<1> QED
  BY <1>1, <1>2, <1>4, <1>5, <1>6, <1>8, <1>9 DEF TypeOK

\* The row a group's task starts from: repaired if its sections are to be, and, unless
\* it is complete, moved to the first section it has to write.
LEMMA BeginIs ==
    ASSUME NEW g \in Groups, NEW r0 \in Rows, NEW A0, NEW r, r = ResetForRepair(r0, Mine(g), A0),
           NEW q, q = Onward([r EXCEPT !.status = "RUNNING"], Mine(g))
    PROVE  /\ r \in Rows /\ Movable(q, g) /\ q.status = "RUNNING"
           /\ q.repair = r.repair /\ q.override = r.override /\ r.results \subseteq q.results
           /\ \A s \in q.results : s \in r.results \/ r.phase[s] = "DONE"
           /\ \A s \in Sections :
                 q.phase[s] = r.phase[s] \/ (r.phase[s] = "ABSENT" /\ q.phase[s] = "BLUEPRINT")
<1>1. g \in Writers /\ Mine(g) \subseteq Sections
  BY WritersAre
<1>2. r \in Rows
  BY <1>1, ResetIs
<1> DEFINE m == [r EXCEPT !.status = "RUNNING"]
<1>3. /\ m \in Rows /\ m.status = "RUNNING" /\ m.repair = r.repair /\ m.override = r.override
      /\ m.results = r.results /\ m.phase = r.phase
  BY <1>2 DEF Rows
<1>4. q = Onward(m, Mine(g))
  OBVIOUS
<1> HIDE DEF m
<1>5. /\ q \in Rows
      /\ q.status = m.status /\ q.repair = m.repair /\ q.override = m.override
      /\ m.results \subseteq q.results
      /\ \A s \in q.results : s \in m.results \/ m.phase[s] = "DONE"
      /\ \A s \in Sections :
            q.phase[s] = m.phase[s] \/ (m.phase[s] = "ABSENT" /\ q.phase[s] = "BLUEPRINT")
      /\ Todo(q, Mine(g)) = {} \/ InSection(q, Mine(g))
  BY <1>1, <1>3, <1>4, OnwardIs
<1> QED
  BY <1>2, <1>3, <1>5 DEF Movable

\* The task of a group begins.
LEMMA BeginGroupTyped ==
    ASSUME Typed, NEW g \in Groups, NEW k \in Gens, BeginGroup(g, k)
    PROVE  Typed'
<1> USE DEF Typed
<1> DEFINE r == ResetForRepair(rows[g], Mine(g), copies[k].row.repair)
           q == Onward([r EXCEPT !.status = "RUNNING"], Mine(g))
<1>1. g \in Writers /\ rows[g] \in Rows
  BY WritersAre DEF TypeOK
<1>2. r \in Rows /\ Movable(q, g)
  BY <1>1, BeginIs
<1>3. UNCHANGED <<full, copies, asked, docs, changed, wanted, crashes, faults>>
  BY DEF BeginGroup
<1>4. CASE r.status = "COMPLETED" /\ Mine(g) \subseteq r.results
  <2>1. /\ tasks' = [tasks EXCEPT ![<<g, k>>] = IF k = cur THEN Task("done", r) ELSE NoTask]
        /\ UNCHANGED <<rows, plan, gate, cur>>
    BY <1>4 DEF BeginGroup
  <2> HIDE DEF r
  <2>2. \E x \in Tasks : tasks' = [tasks EXCEPT ![<<g, k>>] = x] /\ PlacedAt(g, x)
    BY <1>2, <2>1, TaskIs DEF PlacedAt, Drafting
  <2>3. tasks' \in [Slots -> Tasks] /\ Placed'
    BY <1>1, <2>2, OneTask DEF TypeOK
  <2> QED
    BY <1>3, <2>1, <2>3 DEF TypeOK
<1>5. CASE ~(r.status = "COMPLETED" /\ Mine(g) \subseteq r.results)
  <2>1. MoveGroup(g, k, q, TRUE)
    BY <1>5 DEF BeginGroup
  <2> HIDE DEF q, r
  <2>2. /\ rows' \in [Writers -> Rows] /\ plan' \in Plans /\ gate' \in BOOLEAN
        /\ cur' \in {0} \cup Gens /\ tasks' \in [Slots -> Tasks] /\ Placed'
    BY <1>2, <2>1, GroupTypes
  <2> QED
    BY <1>3, <2>2 DEF TypeOK
<1> QED
  BY <1>4, <1>5

\* What the gather of a generation leaves in the parent's row.
LEMMA GatherIs ==
    ASSUME Typed, Gather
    PROVE  /\ full /\ cur # 0 /\ Gathered /\ cur' = 0
           /\ \E r \in Rows :
                 LET p == copies[cur].plan IN
                 /\ r.status = copies[cur].row.status /\ r.override = copies[cur].row.override
                 /\ r.results = UNION {tasks[<<g, cur>>].row.results : g \in Groups}
                 /\ \/ /\ \A g \in Groups : tasks[<<g, cur>>].row.status = "COMPLETED"
                       /\ r.results = Sections
                       /\ rows' = [rows EXCEPT ![Main] = WrittenRow(r, p)]
                       /\ plan' = WrittenPlan(p) /\ gate' = (gate \/ ~p.skip)
                    \/ /\ rows' = [rows EXCEPT ![Main] = Blocked(copies[cur].row)]
                       /\ plan' = p /\ UNCHANGED gate
           /\ tasks' = [t \in Slots |-> IF t[2] = cur THEN NoTask ELSE tasks[t]]
           /\ copies' = [copies EXCEPT ![cur] = NoCopy]
           /\ UNCHANGED <<full, asked, docs, changed, wanted, crashes, faults>>
<1> DEFINE done == [g \in Groups |-> tasks[<<g, cur>>].row]
           p == copies[cur].plan
           res == UNION {done[g].results : g \in Groups}
           ph == [s \in Sections |-> done[Owner[s]].phase[s]]
           r == [copies[cur].row EXCEPT !.results = res, !.phase = ph]
<1>1. full /\ cur # 0 /\ Gathered /\ cur' = 0 /\ cur \in Gens
  BY DEF Gather, Typed, TypeOK
<1>2. \A g \in Groups : done[g] \in Rows
  BY <1>1, WritersAre DEF Typed, TypeOK, Slots, Tasks
<1>3. res \in SUBSET Sections /\ res = UNION {tasks[<<g, cur>>].row.results : g \in Groups}
  <2>1. \A g \in Groups : done[g].results \in SUBSET Sections
    BY <1>2, RowIs
  <2>2. \A g \in Groups : done[g] = tasks[<<g, cur>>].row
    OBVIOUS
  <2> HIDE DEF done
  <2> QED
    BY <2>1, <2>2
<1>4. ph \in [Sections -> Phases \cup {"ABSENT", "DONE"}]
  <2>1. \A s \in Sections : done[Owner[s]].phase \in [Sections -> Phases \cup {"ABSENT", "DONE"}]
    BY <1>2, RowIs, WritersAre
  <2> HIDE DEF done
  <2> QED
    BY <2>1
<1>5. copies[cur].row \in Rows
  BY <1>1 DEF Typed, TypeOK
<1>6. /\ r \in Rows /\ r.status = copies[cur].row.status /\ r.results = res
      /\ r.override = copies[cur].row.override
  <2> HIDE DEF res, ph
  <2> QED
    BY <1>3, <1>4, <1>5 DEF Rows
<1>7. /\ tasks' = [t \in Slots |-> IF t[2] = cur THEN NoTask ELSE tasks[t]]
      /\ copies' = [copies EXCEPT ![cur] = NoCopy]
      /\ UNCHANGED <<full, asked, docs, changed, wanted, crashes, faults>>
  BY DEF Gather
<1>8. IF (\A g \in Groups : done[g].status = "COMPLETED") /\ r.results = Sections
      THEN /\ rows' = [rows EXCEPT ![Main] = WrittenRow(r, p)]
           /\ plan' = WrittenPlan(p)
           /\ gate' = (gate \/ ~p.skip)
      ELSE /\ rows' = [rows EXCEPT ![Main] = Blocked(copies[cur].row)]
           /\ plan' = p /\ UNCHANGED gate
  BY DEF Gather
<1>9. \A g \in Groups : done[g].status = tasks[<<g, cur>>].row.status
  OBVIOUS
<1> HIDE DEF r, done, res, p, ph
<1>10. \/ /\ \A g \in Groups : tasks[<<g, cur>>].row.status = "COMPLETED"
          /\ r.results = Sections
          /\ rows' = [rows EXCEPT ![Main] = WrittenRow(r, p)]
          /\ plan' = WrittenPlan(p) /\ gate' = (gate \/ ~p.skip)
       \/ /\ rows' = [rows EXCEPT ![Main] = Blocked(copies[cur].row)]
          /\ plan' = p /\ UNCHANGED gate
  BY <1>8, <1>9
<1> QED
  BY <1>1, <1>3, <1>6, <1>7, <1>10 DEF p

\* The written parent is a row.
LEMMA WrittenTyped ==
    ASSUME NEW r \in Rows, NEW p \in Plans
    PROVE  /\ WrittenRow(r, p) \in Rows /\ WrittenPlan(p) \in Plans
           /\ WrittenRow(r, p).status = (IF p.skip THEN "RUNNING" ELSE "WAITING_GATE")
           /\ WrittenRow(r, p).repair = {} /\ WrittenRow(r, p).results = r.results
           /\ WrittenRow(r, p).phase = r.phase /\ WrittenRow(r, p).override = r.override
           /\ WrittenPlan(p).step = "REVIEW" /\ WrittenPlan(p).children = p.children
           /\ ~WrittenPlan(p).skip
BY DEF WrittenRow, WrittenPlan, Rows, Plans

\* The groups are gathered.
LEMMA GatherTyped == Typed /\ Gather => Typed'
<1> SUFFICES ASSUME Typed, Gather PROVE Typed'
  OBVIOUS
<1> USE DEF Typed
<1>1. PICK r \in Rows :
         LET p == copies[cur].plan IN
         \/ /\ rows' = [rows EXCEPT ![Main] = WrittenRow(r, p)]
            /\ plan' = WrittenPlan(p) /\ gate' = (gate \/ ~p.skip)
         \/ /\ rows' = [rows EXCEPT ![Main] = Blocked(copies[cur].row)]
            /\ plan' = p /\ UNCHANGED gate
  BY GatherIs
<1>2. /\ cur' = 0 /\ cur \in Gens
      /\ tasks' = [t \in Slots |-> IF t[2] = cur THEN NoTask ELSE tasks[t]]
      /\ copies' = [copies EXCEPT ![cur] = NoCopy]
      /\ UNCHANGED <<full, asked, docs, changed, wanted, crashes, faults>>
  BY GatherIs DEF TypeOK
<1>3. copies[cur].plan \in Plans /\ copies[cur].row \in Rows /\ Blocked(copies[cur].row) \in Rows
  BY <1>2, NewRows DEF TypeOK
<1>4. WrittenRow(r, copies[cur].plan) \in Rows /\ WrittenPlan(copies[cur].plan) \in Plans
  BY <1>3, WrittenTyped
<1>5. rows' \in [Writers -> Rows] /\ plan' \in Plans
  BY <1>1, <1>3, <1>4, WritersAre DEF TypeOK
<1>10. gate' \in BOOLEAN
  BY <1>1 DEF TypeOK
<1>6. /\ tasks' \in [Slots -> Tasks]
      /\ \A u \in Writers, j \in Gens :
            \/ tasks'[<<u, j>>] = tasks[<<u, j>>] \/ tasks'[<<u, j>>].pc \notin Drafting
  BY <1>2, TaskIs DEF TypeOK, Slots, Drafting
<1>7. Placed'
  BY <1>6, GoneTasks DEF TypeOK
<1>8. NoCopy \in [row : Rows, plan : Plans]
  BY NewRows, Constants DEF NoCopy, NewPlan, Plans
<1>9. copies' \in [{0} \cup Gens -> [row : Rows, plan : Plans]]
  BY <1>2, <1>8 DEF TypeOK
<1> QED
  BY <1>2, <1>5, <1>6, <1>7, <1>9, <1>10 DEF TypeOK

\* A step on the parent's row while no section is written.
LEMMA ParentTyped ==
    Typed /\ (Upstream \/ Park \/ Submit \/ Decide) => Typed'
<1> SUFFICES ASSUME Typed, Upstream \/ Park \/ Submit \/ Decide PROVE Typed'
  OBVIOUS
<1> USE DEF Typed
<1>1. rows[Main] \in Rows /\ Main \in Writers /\ Blocked(rows[Main]) \in Rows
  BY WritersAre, NewRows DEF TypeOK
<1>2. \A st \in {"RUNNING", "WAITING_GATE", "BLOCKED"} :
         [rows EXCEPT ![Main].status = st] \in [Writers -> Rows]
  <2> SUFFICES ASSUME NEW st \in {"RUNNING", "WAITING_GATE", "BLOCKED"}
               PROVE  [rows EXCEPT ![Main].status = st] \in [Writers -> Rows]
    OBVIOUS
  <2>1. [rows[Main] EXCEPT !.status = st] \in Rows
    BY <1>1 DEF Rows
  <2> QED
    BY <1>1, <2>1 DEF TypeOK
<1>3. UNCHANGED tasks => Placed'
  BY DEF Placed, PlacedAt, InSection
<1>4. CASE Upstream
  <2>1. UNCHANGED <<full, gate, copies, tasks, cur, asked, docs, changed, wanted, crashes, faults>>
    BY <1>4 DEF Upstream
  <2>2. \/ plan' = [plan EXCEPT !.step = IF @ = "ARGUE" THEN "PLAN" ELSE "WRITE"] /\ UNCHANGED rows
        \/ rows' = [rows EXCEPT ![Main] = Blocked(@)] /\ UNCHANGED plan
    BY <1>4 DEF Upstream
  <2>3. plan' \in Plans /\ rows' \in [Writers -> Rows]
    BY <1>1, <2>2 DEF TypeOK, Plans
  <2> QED
    BY <1>3, <2>1, <2>3 DEF TypeOK
<1>5. CASE Park
  <2>1. /\ rows' = [rows EXCEPT ![Main].status = "WAITING_GATE"]
        /\ UNCHANGED <<full, plan, gate, copies, tasks, cur, asked, docs, changed, wanted, crashes, faults>>
    BY <1>5 DEF Park
  <2>2. rows' \in [Writers -> Rows]
    BY <1>2, <2>1
  <2> QED
    BY <1>3, <2>1, <2>2 DEF TypeOK
<1>6. CASE Decide
  <2>1. /\ gate' = FALSE
        /\ \E status \in {"RUNNING", "BLOCKED"} : rows' = [rows EXCEPT ![Main].status = status]
        /\ UNCHANGED <<full, plan, copies, tasks, cur, asked, docs, changed, wanted, crashes, faults>>
    BY <1>6 DEF Decide
  <2>2. rows' \in [Writers -> Rows]
    BY <1>2, <2>1
  <2> QED
    BY <1>3, <2>1, <2>2 DEF TypeOK
<1>7. CASE Submit
  <2>1. UNCHANGED <<full, plan, gate, tasks, cur, docs, wanted, crashes, faults>>
    BY <1>7 DEF Submit
  <2>2. \/ rows' = [rows EXCEPT ![Main] = Blocked(@)] /\ UNCHANGED <<copies, asked, changed>>
        \/ /\ copies' = [copies EXCEPT ![0] = [row |-> rows[Main], plan |-> plan]]
           /\ asked' = IF plan.revised /\ changed = {} THEN "SAME" ELSE "FRESH"
           /\ changed' = {} /\ UNCHANGED rows
    BY <1>7 DEF Submit
  <2>3. /\ rows' \in [Writers -> Rows] /\ asked' \in {"NO", "FRESH", "SAME"}
        /\ changed' \subseteq Sections
        /\ copies' \in [{0} \cup Gens -> [row : Rows, plan : Plans]]
    <3>1. CASE rows' = [rows EXCEPT ![Main] = Blocked(@)] /\ UNCHANGED <<copies, asked, changed>>
      BY <1>1, <3>1 DEF TypeOK
    <3>2. CASE /\ copies' = [copies EXCEPT ![0] = [row |-> rows[Main], plan |-> plan]]
               /\ asked' = IF plan.revised /\ changed = {} THEN "SAME" ELSE "FRESH"
               /\ changed' = {} /\ UNCHANGED rows
      <4>1. [row |-> rows[Main], plan |-> plan] \in [row : Rows, plan : Plans]
        BY <1>1 DEF TypeOK
      <4>2. copies' \in [{0} \cup Gens -> [row : Rows, plan : Plans]]
        BY <3>2, <4>1 DEF TypeOK
      <4> QED
        BY <3>2, <4>2 DEF TypeOK
    <3> QED
      BY <2>2, <3>1, <3>2
  <2> QED
    BY <1>3, <2>1, <2>3 DEF TypeOK
<1> QED
  BY <1>4, <1>5, <1>6, <1>7

\* What the critic's verdict leaves, by the branch it takes.
LEMMA ConcludeIs ==
    ASSUME Typed, Conclude
    PROVE  /\ asked # "NO"
           /\ LET c == copies[0].row
                  p == copies[0].plan
                  Put(r, q) == rows' = [rows EXCEPT ![Main] = r] /\ plan' = q
              IN  \/ /\ asked = "FRESH"
                     /\ Put([c EXCEPT !.status = "COMPLETED"], [p EXCEPT !.step = "END"])
                     /\ UNCHANGED <<gate, docs, wanted>>
                  \/ Put(Blocked(c), p) /\ UNCHANGED <<gate, docs, wanted>>
                  \/ \E q \in Plans, step \in {"ARGUE", "PLAN"} :
                        /\ q.step = step /\ q.children = (IF full THEN {} ELSE p.children)
                        /\ Put(ScheduleRevision(c, full), q)
                        /\ wanted' \in [Sections -> Versions]
                        /\ \A s \in Sections : wanted'[s] = wanted[s] + 1
                        /\ docs' = IF full THEN [s \in Sections |-> NewDoc] ELSE docs
                        /\ UNCHANGED gate
                  \/ \E A \in (SUBSET Sections) \ {{}}, q \in Plans :
                        /\ q.step = "WRITE" /\ q.children = p.children
                        /\ Put(ScheduleRepair(c, A), q)
                        /\ wanted' \in [Sections -> Versions]
                        /\ \A s \in Sections :
                              wanted'[s] = IF s \in A THEN wanted[s] + 1 ELSE wanted[s]
                        /\ UNCHANGED <<gate, docs>>
                  \/ \E q \in Plans :
                        /\ q.step = p.step /\ q.children = p.children
                        /\ Put([c EXCEPT !.status = "WAITING_GATE"], q)
                        /\ gate' = TRUE /\ UNCHANGED <<docs, wanted>>
           /\ asked' = "NO" /\ copies' = [copies EXCEPT ![0] = NoCopy]
           /\ UNCHANGED <<full, tasks, cur, changed, crashes, faults>>
<1> DEFINE c == copies[0].row
           p == copies[0].plan
<1> USE DEF Typed
<1>1. c \in Rows /\ p \in Plans /\ full \in BOOLEAN /\ wanted \in [Sections -> Versions]
  BY DEF TypeOK
<1>2. /\ Noted(p) \in Plans /\ Noted(p).step = p.step /\ Noted(p).children = p.children
      /\ Noted(p).rounds = p.rounds
  BY <1>1 DEF Noted, Plans
<1>3. ASSUME NEW A \in SUBSET Sections, Demand(A)
      PROVE  /\ wanted' \in [Sections -> Versions]
             /\ \A s \in Sections : wanted'[s] = IF s \in A THEN wanted[s] + 1 ELSE wanted[s]
  <2>1. /\ \A s \in A : wanted[s] < MaxVersion
        /\ wanted' = [s \in Sections |-> IF s \in A THEN wanted[s] + 1 ELSE wanted[s]]
    BY <1>3 DEF Demand
  <2>2. \A s \in Sections : (IF s \in A THEN wanted[s] + 1 ELSE wanted[s]) \in Versions
    BY <1>1, <2>1, Constants DEF Versions
  <2> QED
    BY <2>1, <2>2
<1>4. CASE ReviewPass
  BY <1>4 DEF ReviewPass, Concluded
<1>5. CASE ReviewRevisesPlan
  <2> DEFINE n == Noted(p)
             detached == IF full THEN {} ELSE n.children
  <2>1. /\ asked # "NO" /\ Demand(Sections)
        /\ docs' = IF full THEN [s \in Sections |-> NewDoc] ELSE docs
        /\ UNCHANGED gate
        /\ \/ Concluded(ScheduleRevision(c, full),
                    [n EXCEPT !.step = "ARGUE", !.argued = TRUE, !.children = detached])
           \/ Concluded(ScheduleRevision(c, full),
                    [n EXCEPT !.step = "PLAN", !.planned = TRUE, !.children = detached])
    BY <1>5 DEF ReviewRevisesPlan
  <2>2. detached = (IF full THEN {} ELSE p.children) /\ detached \in SUBSET Groups
    BY <1>1, <1>2 DEF Plans
  <2> HIDE DEF n, detached
  <2>3. \E q \in Plans, step \in {"ARGUE", "PLAN"} :
           /\ q.step = step /\ q.children = detached
           /\ Concluded(ScheduleRevision(c, full), q)
    <3>1. n \in Plans
      BY <1>2 DEF n
    <3>2. /\ [n EXCEPT !.step = "ARGUE", !.argued = TRUE, !.children = detached] \in Plans
          /\ [n EXCEPT !.step = "ARGUE", !.argued = TRUE, !.children = detached].step = "ARGUE"
          /\ [n EXCEPT !.step = "ARGUE", !.argued = TRUE, !.children = detached].children = detached
          /\ [n EXCEPT !.step = "PLAN", !.planned = TRUE, !.children = detached] \in Plans
          /\ [n EXCEPT !.step = "PLAN", !.planned = TRUE, !.children = detached].step = "PLAN"
          /\ [n EXCEPT !.step = "PLAN", !.planned = TRUE, !.children = detached].children = detached
      BY <2>2, <3>1 DEF Plans
    <3> QED
      BY <2>1, <3>2
  <2>4. /\ wanted' \in [Sections -> Versions]
        /\ \A s \in Sections : wanted'[s] = wanted[s] + 1
    BY <1>3, <2>1
  <2> QED
    BY <2>1, <2>2, <2>3, <2>4 DEF Concluded
<1>6. CASE ReviewRewrites
  <2> DEFINE n == Noted(p)
             q == [n EXCEPT !.step = "WRITE", !.rounds = @ + 1, !.skip = TRUE]
  <2>1. /\ asked # "NO" /\ n.rounds < 2
        /\ \E A \in (SUBSET Sections) \ {{}} : Concluded(ScheduleRepair(c, A), q) /\ Demand(A)
        /\ UNCHANGED <<gate, docs>>
    BY <1>6 DEF ReviewRewrites
  <2> HIDE DEF n
  <2>2. q \in Plans /\ q.step = "WRITE" /\ q.children = p.children
    <3>1. n \in Plans /\ n.rounds \in 0 .. 2 /\ n.children = p.children
      BY <1>2 DEF n, Plans
    <3>2. n.rounds + 1 \in 0 .. 2
      BY <2>1, <3>1
    <3> QED
      BY <3>1, <3>2 DEF Plans
  <2> HIDE DEF q
  <2>3. PICK A \in (SUBSET Sections) \ {{}} : Concluded(ScheduleRepair(c, A), q) /\ Demand(A)
    BY <2>1
  <2>4. /\ wanted' \in [Sections -> Versions]
        /\ \A s \in Sections : wanted'[s] = IF s \in A THEN wanted[s] + 1 ELSE wanted[s]
    BY <1>3, <2>3
  <2>5. PICK d : d = ScheduleRepair(c, A)
    OBVIOUS
  <2> QED
    BY <2>1, <2>2, <2>3, <2>4, <2>5 DEF Concluded
<1>7. CASE ReviewStops
  BY <1>2, <1>7 DEF ReviewStops, Concluded
<1> QED
  BY <1>4, <1>5, <1>6, <1>7 DEF Conclude

\* The critic's verdict.
LEMMA ConcludeTyped == Typed /\ Conclude => Typed'
<1> SUFFICES ASSUME Typed, Conclude PROVE Typed'
  OBVIOUS
<1> USE DEF Typed
<1> DEFINE c == copies[0].row
           p == copies[0].plan
<1>1. c \in Rows /\ p \in Plans /\ full \in BOOLEAN
  BY DEF TypeOK
<1>2. /\ asked' = "NO" /\ copies' = [copies EXCEPT ![0] = NoCopy]
      /\ UNCHANGED <<full, tasks, cur, changed, crashes, faults>>
  BY ConcludeIs
<1>3. /\ Blocked(c) \in Rows /\ ScheduleRevision(c, full) \in Rows
      /\ \A A \in SUBSET Sections : ScheduleRepair(c, A) \in Rows
      /\ [c EXCEPT !.status = "COMPLETED"] \in Rows /\ [c EXCEPT !.status = "WAITING_GATE"] \in Rows
      /\ [p EXCEPT !.step = "END"] \in Plans
  <2>1. /\ [c EXCEPT !.status = "COMPLETED"] \in Rows /\ [c EXCEPT !.status = "WAITING_GATE"] \in Rows
        /\ [p EXCEPT !.step = "END"] \in Plans
    BY <1>1 DEF Rows, Plans
  <2> QED
    BY <1>1, <2>1, NewRows, ScheduleIs
<1> HIDE DEF c, p
<1>4. \E r \in Rows, q \in Plans : rows' = [rows EXCEPT ![Main] = r] /\ plan' = q
  BY <1>1, <1>3, ConcludeIs DEF c, p
<1>5. NewDoc \in Docs
  BY Constants DEF NewDoc, Docs
<1>6. /\ wanted' \in [Sections -> Versions] /\ docs' \in [Sections -> Docs]
      /\ gate' \in BOOLEAN
  BY ZenonT(40), <1>5, ConcludeIs DEF TypeOK
<1>7. rows' \in [Writers -> Rows] /\ plan' \in Plans
  BY <1>4, WritersAre DEF TypeOK
<1>8. NoCopy \in [row : Rows, plan : Plans]
  BY NewRows, Constants DEF NoCopy, NewPlan, Plans
<1>9. copies' \in [{0} \cup Gens -> [row : Rows, plan : Plans]]
  BY <1>2, <1>8 DEF TypeOK
<1>10. Placed'
  BY <1>2 DEF Placed, PlacedAt, InSection
<1> QED
  BY <1>2, <1>6, <1>7, <1>9, <1>10 DEF TypeOK

\* Failures of a task and of the process.
LEMMA FailuresTyped ==
    Typed /\ (Crash \/ (\E w \in Writers, k \in Gens : Fail(w, k))) => Typed'
<1> SUFFICES ASSUME Typed, Crash \/ (\E w \in Writers, k \in Gens : Fail(w, k)) PROVE Typed'
  OBVIOUS
<1> USE DEF Typed
<1>1. docs \in [Sections -> Docs] /\ changed \subseteq Sections
  BY DEF TypeOK
<1>2. CASE Crash
  <2>1. /\ crashes + faults < MaxFailures /\ crashes' = crashes + 1
        /\ tasks' = [t \in Slots |-> NoTask]
        /\ copies' = [k \in {0} \cup Gens |-> NoCopy]
        /\ cur' = 0 /\ asked' = "NO"
        /\ UNCHANGED <<full, rows, plan, gate, wanted, faults>>
    BY <1>2 DEF Crash
  <2>2. docs' \in [Sections -> Docs] /\ changed' \subseteq Sections
    <3>1. CASE UNCHANGED <<docs, changed>>
      BY <1>1, <3>1
    <3>2. CASE \E t \in Slots : tasks[t].pc = "await" /\ Commit(t[1], t[2])
      <4>1. PICK w \in Writers, k \in Gens : tasks[<<w, k>>].pc = "await" /\ Commit(w, k)
        BY <3>2 DEF Slots
      <4> QED
        BY <4>1, CommitIs
    <3> QED
      BY <1>2, <3>1, <3>2 DEF Crash
  <2>3. NoCopy \in [row : Rows, plan : Plans]
    BY NewRows, Constants DEF NoCopy, NewPlan, Plans
  <2>4. /\ tasks' \in [Slots -> Tasks]
        /\ \A u \in Writers, j \in Gens :
              \/ tasks'[<<u, j>>] = tasks[<<u, j>>] \/ tasks'[<<u, j>>].pc \notin Drafting
    BY <2>1, TaskIs DEF Slots, Drafting
  <2>5. Placed'
    BY <2>4, GoneTasks DEF TypeOK
  <2>6. crashes' \in Nat /\ faults' \in Nat /\ crashes' + faults' <= MaxFailures
    BY <2>1, Constants DEF TypeOK
  <2> QED
    BY <2>1, <2>2, <2>3, <2>4, <2>5, <2>6 DEF TypeOK
<1>3. ASSUME NEW w \in Writers, NEW k \in Gens, Fail(w, k) PROVE Typed'
  <2>1. /\ crashes + faults < MaxFailures /\ faults' = faults + 1
        /\ tasks[<<w, k>>].pc = "await"
        /\ tasks' = [u \in Slots |->
              IF u = <<w, k>> \/ (u[2] = k /\ tasks[u].pc = "done") THEN NoTask ELSE tasks[u]]
        /\ cur' = IF k = cur THEN 0 ELSE cur
        /\ Commit(w, k) \/ UNCHANGED <<docs, changed>>
        /\ UNCHANGED <<full, rows, plan, gate, copies, asked, wanted, crashes>>
    BY <1>3 DEF Fail
  <2>2. docs' \in [Sections -> Docs] /\ changed' \subseteq Sections
    BY <1>1, <2>1, CommitIs
  <2>3. /\ tasks' \in [Slots -> Tasks]
        /\ \A u \in Writers, j \in Gens :
              \/ tasks'[<<u, j>>] = tasks[<<u, j>>] \/ tasks'[<<u, j>>].pc \notin Drafting
    BY <2>1, TaskIs DEF TypeOK, Slots, Drafting
  <2>4. Placed'
    BY <2>3, GoneTasks DEF TypeOK
  <2>5. crashes' \in Nat /\ faults' \in Nat /\ crashes' + faults' <= MaxFailures
    BY <2>1, Constants DEF TypeOK
  <2> QED
    BY <2>1, <2>2, <2>3, <2>4, <2>5 DEF TypeOK
<1> QED
  BY <1>2, <1>3

\* Every step keeps types and positions.
LEMMA NextTyped == Typed /\ [Next]_vars => Typed'
<1> SUFFICES ASSUME Typed, [Next]_vars PROVE Typed'
  OBVIOUS
<1>1. CASE UNCHANGED vars
  BY <1>1 DEF vars, Typed, TypeOK, Placed, PlacedAt, InSection
<1>2. CASE Advance
  BY <1>2, ParentTyped, StartSerialTyped, StartGroupsTyped DEF Advance
<1>3. CASE Work
  BY <1>3, BeginGroupTyped, WriteTyped, GatherTyped, ConcludeTyped DEF Work
<1>4. CASE Decide \/ (\E w \in Writers, k \in Gens : Fail(w, k)) \/ Crash
  BY <1>4, ParentTyped, FailuresTyped
<1> QED
  BY <1>1, <1>2, <1>3, <1>4 DEF Next

\* Every variable has its type in both modes, after any failure and whatever tasks an
\* exception has left behind; a task that is writing has a section and a phase.
THEOREM AuthoringTyped == Spec => [](TypeOK /\ Placed)
<1>1. Spec => []Typed
  BY InitTyped, NextTyped, PTL DEF Spec
<1> QED
  BY <1>1, PTL DEF Typed

-----------------------------------------------------------------------------
(* While nothing fails: sections                                            *)

\* The phases at which a section has its polish.
Late == {"EXPRESSION_CRITIC", "DONE"}

\* What the texts d of a section are once they have been accepted as version v.
Settled(d, v) == d.approved /\ d.candidate = v

\* A row and the texts agree about a section that is demanded as version v.
Agree(r, d, s, v) ==
    /\ \A n \in {d.BLUEPRINT, d.CONTENT, d.candidate} : n <= v
    /\ Written(r, d, s)
    /\ full => Current(r, d, s, v)
    /\ crashes = 0 /\ r.phase[s] \notin Late => ~Settled(d, v)

\* What a row says of a section survives the loop's moving on.
LEMMA OnwardKeeps ==
    ASSUME NEW r \in Rows, NEW w \in Writers, NEW q, q = Onward(r, Mine(w)), NEW s \in Sections
    PROVE  /\ \A d : Written(r, d, s) => Written(q, d, s)
           /\ \A d, v : Current(r, d, s, v) => Current(q, d, s, v)
           /\ q.phase[s] \in Late <=> r.phase[s] \in Late
<1>1. /\ q.override = r.override
      /\ s \in q.results => s \in r.results \/ r.phase[s] = "DONE"
      /\ q.phase[s] = r.phase[s] \/ (r.phase[s] = "ABSENT" /\ q.phase[s] = "BLUEPRINT")
  BY OnwardIs
<1> QED
  BY <1>1 DEF Written, Current, Late

\* A phase that passes leaves in the texts what the next phase says of them; and a
\* text that was still open stays so until it is at its last critic.
LEMMA PassedKeeps ==
    ASSUME NEW r \in Rows, NEW s \in Sections, r.phase[s] \in Phases,
           NEW d \in Docs, NEW seen \in Versions, NEW of, NEW k \in Gens,
           Written(r, d, s), r.phase[s] = "EXPRESSION_CRITIC" => of = d.by
    PROVE  LET q == Passed(r, s)
               e == Produced(d, r.phase[s], seen, of, k)
           IN  /\ Written(q, e, s)
               /\ \A v : (r.phase[s] \in Producers => seen = v) /\ Current(r, d, s, v)
                          => Current(q, e, s, v)
               /\ q.phase[s] \notin Late =>
                     r.phase[s] \notin Late /\ \A v : Settled(e, v) => Settled(d, v)
<1>0. PICK c, q, e : c = r.phase[s] /\ q = Passed(r, s) /\ e = Produced(d, c, seen, of, k)
  OBVIOUS
<1>1. /\ q.override = r.override /\ q.phase[s] = After[c]
      /\ q.results = IF After[c] = "DONE" THEN r.results \cup {s} ELSE r.results
  BY <1>0, PassedIs
<1>2. /\ e.BLUEPRINT = IF c = "BLUEPRINT" THEN seen ELSE d.BLUEPRINT
      /\ e.CONTENT = IF c = "CONTENT" THEN seen ELSE d.CONTENT
      /\ c \in {"CONTENT", "POLISH"} =>
            e.candidate = seen /\ e.kind = c /\ e.by = k /\ ~e.approved
      /\ c \notin {"CONTENT", "POLISH"} =>
            e.candidate = d.candidate /\ e.kind = d.kind /\ e.by = d.by
      /\ c = "EXPRESSION_CRITIC" /\ d.kind = "POLISH" /\ d.by = of => e.approved
      /\ c \notin {"CONTENT", "POLISH", "EXPRESSION_CRITIC"} => (e.approved <=> d.approved)
  BY <1>0, ProducedIs
<1>3. /\ s \notin r.results
      /\ c = "EXPRESSION_CRITIC" => d.kind = "POLISH"
  BY <1>0, PhasesAre DEF Written
<1>4. /\ s \in q.results => q.phase[s] = "DONE"
      /\ q.phase[s] \in {"EXPRESSION_CRITIC", "DONE"} => e.kind = "POLISH"
      /\ q.phase[s] = "DONE" => e.approved
  BY <1>0, <1>1, <1>2, <1>3, PhasesAre
<1>5. ASSUME NEW v, c \in Producers => seen = v, Current(r, d, s, v) PROVE Current(q, e, s, v)
  <2>1. /\ \A p \in Repairable : r.override[s][p] \in {0, v}
        /\ c \notin {"ABSENT", "BLUEPRINT"} => d.BLUEPRINT = v
        /\ c \notin {"ABSENT", "BLUEPRINT", "BLUEPRINT_CRITIC", "CONTENT"} => d.CONTENT = v
        /\ c \in {"EXPRESSION_CRITIC", "DONE"} => d.candidate = v
    BY <1>0, <1>5 DEF Current
  <2>2. e.BLUEPRINT = v
    BY <1>0, <1>2, <1>5, <2>1, PhasesAre DEF Producers
  <2>3. After[c] \notin {"ABSENT", "BLUEPRINT", "BLUEPRINT_CRITIC", "CONTENT"} => e.CONTENT = v
    BY <1>0, <1>2, <1>5, <2>1, PhasesAre DEF Producers
  <2>4. After[c] \in {"EXPRESSION_CRITIC", "DONE"} => e.candidate = v
    BY <1>0, <1>2, <1>5, <2>1, PhasesAre DEF Producers
  <2> QED
    BY <1>1, <2>1, <2>2, <2>3, <2>4 DEF Current
<1>6. q.phase[s] \notin Late => c \in {"BLUEPRINT", "BLUEPRINT_CRITIC", "CONTENT", "CONTENT_CRITIC"}
  BY <1>0, <1>1, PhasesAre DEF Late
<1>7. c \in {"BLUEPRINT", "BLUEPRINT_CRITIC", "CONTENT", "CONTENT_CRITIC"} =>
         c \notin Late /\ \A v : Settled(e, v) => Settled(d, v)
  BY <1>2 DEF Late, Settled
<1>8. Written(q, e, s)
  BY <1>4 DEF Written
<1> QED
  BY <1>0, <1>5, <1>6, <1>7, <1>8

\* No version grows past the demand with a commit.
LEMMA ProducedBounded ==
    ASSUME NEW d \in Docs, NEW c \in Phases, NEW seen \in Versions, NEW of, NEW k \in Gens,
           NEW e, e = Produced(d, c, seen, of, k), NEW v \in Nat, seen <= v,
           d.BLUEPRINT <= v, d.CONTENT <= v, d.candidate <= v
    PROVE  e.BLUEPRINT <= v /\ e.CONTENT <= v /\ e.candidate <= v
<1>1. /\ e.BLUEPRINT \in {seen, d.BLUEPRINT} /\ e.CONTENT \in {seen, d.CONTENT}
      /\ e.candidate \in {seen, d.candidate}
  BY ProducedIs
<1> QED
  BY <1>1

\* A text committed by a task that then dies is one that its phase allows.
LEMMA ProducedKeeps ==
    ASSUME NEW r, NEW s \in Sections, NEW c, c = r.phase[s], c \in Phases, NEW d \in Docs,
           NEW seen \in Versions, NEW of, NEW k \in Gens,
           NEW e, e = Produced(d, c, seen, of, k), Written(r, d, s),
           NEW v, full => Current(r, d, s, v)
    PROVE  Written(r, e, s) /\ (full => Current(r, e, s, v))
<1>1. /\ e.BLUEPRINT = IF c = "BLUEPRINT" THEN seen ELSE d.BLUEPRINT
      /\ e.CONTENT = IF c = "CONTENT" THEN seen ELSE d.CONTENT
      /\ c \notin {"CONTENT", "POLISH"} =>
            e.candidate = d.candidate /\ e.kind = d.kind /\ e.by = d.by
  BY ProducedIs
<1>2. c # "DONE" /\ c # "ABSENT"
  BY PhasesAre
<1> QED
  BY <1>1, <1>2 DEF Written, Current

\* Rows that differ at most in the tried repairs say the same of every section.
LEMMA SameIs ==
    ASSUME NEW r, NEW q, Same(r, q), NEW s
    PROVE  /\ \A d : Written(r, d, s) <=> Written(q, d, s)
           /\ \A d, v : Current(r, d, s, v) <=> Current(q, d, s, v)
           /\ r.phase[s] = q.phase[s]
           /\ \A mine : Todo(r, mine) = Todo(q, mine) /\ Active(r, mine) = Active(q, mine)
BY DEF Same, Written, Current, Todo, Targets, Active

\* To agree with the texts, only a row's results, progress and overrides matter.
LEMMA AgreeIs ==
    ASSUME NEW r, NEW q, q.results = r.results, q.phase = r.phase, q.override = r.override,
           NEW d, NEW s, NEW v
    PROVE  Agree(r, d, s, v) <=> Agree(q, d, s, v)
BY DEF Agree, Written, Current

\* The section a task is at is its writer's.
LEMMA AtIs ==
    ASSUME Typed, Calm, NEW w \in Writers, NEW k \in Gens,
           tasks[<<w, k>>].pc \in Drafting,
           NEW t, t = tasks[<<w, k>>], NEW s, s = Active(t.row, Mine(w)),
           NEW c, c = t.row.phase[s]
    PROVE  /\ k = cur /\ cur # 0 /\ (full <=> w \in Groups)
           /\ t \in Tasks /\ t.row \in Rows /\ t.row.status = "RUNNING"
           /\ t.seen \in Versions
           /\ InSection(t.row, Mine(w)) /\ s \in Sections /\ c \in Phases /\ s \notin t.row.results
           /\ Same(rows[w], t.row) /\ CalledAt(w, t)
           /\ Author(s) = w /\ ~Stale(s)
           /\ Written(t.row, docs[s], s)
           /\ full => Current(t.row, docs[s], s, wanted[s])
<1>1. k = cur /\ cur # 0 /\ (full <=> w \in Groups)
  BY Constants DEF Calm, Alone, Drafting
<1>2. t \in Tasks /\ t.row \in Rows /\ t.seen \in Versions
  BY DEF Typed, TypeOK, Slots, Tasks
<1>3. t.row.status = "RUNNING" /\ InSection(t.row, Mine(w))
  BY DEF Typed, Placed, PlacedAt
<1>4. s \in Sections /\ c \in Phases /\ s \in Mine(w) \cup t.row.repair /\ s \notin t.row.results
  BY <1>2, <1>3, SectionIs
<1>5. Same(rows[w], t.row) /\ CalledAt(w, t)
  BY DEF Calm, Saved, SavedAt, Called
<1>6. Author(s) = w
  <2>1. CASE full
    <3>1. w \in Groups /\ t.row.repair \subseteq Mine(w)
      BY <1>1, <1>5, <2>1 DEF Calm, Mending, Same
    <3> QED
      BY <1>4, <2>1, <3>1, WritersAre DEF Author
  <2>2. CASE ~full
    BY <1>1, <2>2, WritersAre DEF Author
  <2> QED
    BY <2>1, <2>2
<1>7. ~Stale(s)
  <2> SUFFICES ASSUME full PROVE ~Stale(s)
    BY DEF Stale
  <2>1. Owner[s] = w /\ plan.children = Groups /\ Owner[s] \in Groups
    BY <1>1, <1>4, <1>6, WritersAre DEF Author, Calm, Stages
  <2> QED
    BY <1>1, <2>1 DEF Stale, Drafting
<1>8. Written(rows[w], docs[s], s) /\ (full => Current(rows[w], docs[s], s, wanted[s]))
  BY <1>4, <1>6, <1>7 DEF Calm, Known
<1> QED
  BY <1>1, <1>2, <1>3, <1>4, <1>5, <1>6, <1>7, <1>8, SameIs

-----------------------------------------------------------------------------
(* While nothing fails: steps                                               *)

\* Without a running advance nobody writes.
LEMMA NoTasks ==
    ASSUME Calm, cur = 0
    PROVE  \A w \in Writers, k \in Gens : tasks[<<w, k>>].pc = "off"
BY Constants DEF Calm, Alone

\* When every task is gone nothing is to be said of tasks.
LEMMA QuietIs ==
    ASSUME \A w \in Writers, k \in Gens : tasks'[<<w, k>>].pc = "off"
    PROVE  Alone' /\ Saved' /\ Called'
<1>1. Alone' /\ Saved'
  BY DEF Alone, Saved, SavedAt, Drafting
<1>2. ASSUME NEW w \in Writers, NEW k \in Gens PROVE CalledAt(w, tasks[<<w, k>>])'
  BY DEF CalledAt
<1> QED
  BY <1>1, <1>2 DEF Called

\* A step of a group's task: what it leaves of the sections of the group is all that
\* has to be shown.
LEMMA GroupStep ==
    ASSUME Typed, Typed', Calm, full, NEW g \in Groups, NEW k \in Gens, k = cur,
           NEW e \in Rows, NEW x \in Tasks,
           rows' = [rows EXCEPT ![g] = e], tasks' = [tasks EXCEPT ![<<g, k>>] = x],
           UNCHANGED <<full, plan, gate, copies, cur, asked, wanted, crashes>>,
           x.pc \notin {"off", "fresh"}, Same(e, x.row), CalledAt(g, x)',
           e.repair \subseteq Mine(g),
           \A s \in Sections, p \in Repairable : e.override[s][p] <= wanted[s],
           \A s \in Sections : Owner[s] # g => docs'[s] = docs[s],
           \A s \in Sections : Owner[s] = g => Agree(e, docs'[s], s, wanted[s])
    PROVE  Calm'
<1>1. cur # 0 /\ g \in Writers /\ g # Main /\ Main \in Writers
  BY Constants, WritersAre
<1>2. rows \in [Writers -> Rows] /\ tasks \in [Slots -> Tasks]
  BY DEF Typed, TypeOK
<1>3. /\ rows'[g] = e /\ rows'[Main] = rows[Main]
      /\ \A w \in Writers : w # g => rows'[w] = rows[w]
  BY <1>1, <1>2
<1>4. /\ tasks'[<<g, k>>] = x
      /\ \A u \in Writers, j \in Gens : u # g \/ j # k => tasks'[<<u, j>>] = tasks[<<u, j>>]
  BY <1>1, <1>2 DEF Slots
<1>5. /\ asked = "NO" /\ ~gate /\ rows[Main].status = "RUNNING" /\ plan.step = "WRITE"
      /\ copies[cur] = [row |-> rows[Main], plan |-> plan] /\ plan.children = Groups
      /\ \A h \in Groups : tasks[<<h, cur>>].pc # "off"
  BY <1>1 DEF Calm, Stages
<1>6. Alone'
  BY <1>1, <1>4 DEF Calm, Alone
<1>7. Stages'
  <2>1. \A h \in Groups : tasks'[<<h, cur>>].pc # "off"
    BY <1>4, <1>5, WritersAre
  <2> QED
    BY <1>3, <1>5, <2>1 DEF Stages
<1>8. Saved'
  <2> SUFFICES ASSUME NEW w \in Writers, NEW j \in Gens PROVE SavedAt(w, tasks[<<w, j>>])'
    BY DEF Saved
  <2>1. CASE w = g /\ j = k
    BY <1>3, <1>4, <2>1 DEF SavedAt
  <2>2. CASE w = g /\ j # k
    BY <1>4, <2>2 DEF Calm, Alone, SavedAt, Drafting
  <2>3. CASE w # g
    BY <1>3, <1>4, <2>3 DEF Calm, Saved, SavedAt
  <2> QED
    BY <2>1, <2>2, <2>3
<1>9. Mending'
  BY <1>3, WritersAre DEF Calm, Mending
<1>10. Bounded'
  <2>1. ASSUME NEW s \in Sections, NEW n \in {docs'[s].BLUEPRINT, docs'[s].CONTENT, docs'[s].candidate}
        PROVE  n <= wanted[s]
    BY <2>1 DEF Calm, Bounded, Agree
  <2>2. ASSUME NEW w \in Writers, NEW s \in Sections, NEW p \in Repairable
        PROVE  rows'[w].override[s][p] <= wanted[s]
    BY <1>3 DEF Calm, Bounded
  <2> QED
    BY <2>1, <2>2 DEF Bounded
<1>11. Called'
  <2> SUFFICES ASSUME NEW w \in Writers, NEW j \in Gens PROVE CalledAt(w, tasks[<<w, j>>])'
    BY DEF Called
  <2>1. CASE w = g /\ j = k
    BY <1>4, <2>1 DEF CalledAt
  <2>2. CASE ~(w = g /\ j = k)
    <3> DEFINE t == tasks[<<w, j>>]
               s == Active(t.row, Mine(w))
    <3>1. tasks'[<<w, j>>] = t
      BY <1>4, <2>2
    <3>2. CASE t.pc \notin Drafting
      BY <3>1, <3>2 DEF CalledAt, Drafting
    <3>3. CASE t.pc \in Drafting
      <4> HIDE DEF t, s
      <4>1. j = cur /\ w \in Groups /\ s \in Sections /\ Author(s) = w /\ CalledAt(w, t)
        BY <3>3, AtIs DEF t, s
      <4>2. Owner[s] # g
        BY <2>2, <4>1 DEF Author
      <4>3. docs'[s] = docs[s]
        BY <4>1, <4>2
      <4>4. CalledAt(w, t)'
        BY <4>1, <4>3 DEF CalledAt, s, t
      <4> QED
        BY <4>4 DEF t
    <3> QED
      BY <3>2, <3>3
  <2> QED
    BY <2>1, <2>2
<1>12. \A s \in Sections : Owner[s] # g => (Stale(s)' <=> Stale(s))
  BY <1>1, <1>3, <1>4, WritersAre DEF Stale
<1>13. \A s \in Sections : Owner[s] = g => ~Stale(s)'
  <2>1. tasks'[<<g, cur>>].pc # "fresh" /\ plan'.children = Groups /\ cur' = cur
    BY <1>4, <1>5
  <2> QED
    BY <1>1, <2>1 DEF Stale
<1>14. Known'
  <2> SUFFICES ASSUME NEW s \in Sections, ~Stale(s)'
               PROVE  /\ Written(rows'[Owner[s]], docs'[s], s)
                      /\ Current(rows'[Owner[s]], docs'[s], s, wanted[s])
    BY DEF Known, Author
  <2>1. CASE Owner[s] = g
    BY <1>3, <2>1 DEF Agree
  <2>2. CASE Owner[s] # g
    BY <1>3, <1>12, <2>2, WritersAre DEF Calm, Known, Author
  <2> QED
    BY <2>1, <2>2
<1>15. Unaccepted'
  <2> SUFFICES ASSUME crashes = 0, NEW s \in Sections, Open(s)'
               PROVE  ~Settled(docs'[s], wanted[s])
    BY DEF Unaccepted, Accepted, Settled
  <2>1. CASE Owner[s] = g
    <3>1. e.phase[s] \notin Late
      BY <1>3, <1>13, <2>1 DEF Open, Author, Late
    <3> QED
      BY <2>1, <3>1 DEF Agree
  <2>2. CASE Owner[s] # g
    <3>1. Open(s)
      BY <1>3, <1>12, <2>2, WritersAre DEF Open, Author
    <3> QED
      BY <1>5, <2>2, <3>1 DEF Calm, Unaccepted, Accepted, Settled
  <2> QED
    BY <2>1, <2>2
<1>16. Final'
  BY <1>3, <1>5 DEF Final, Finished
<1> QED
  BY <1>6, <1>7, <1>8, <1>9, <1>10, <1>11, <1>14, <1>15, <1>16 DEF Calm

\* A step of the serial chain, likewise: on to the next call, or to the end of writing.
LEMMA SerialStep ==
    ASSUME Typed, Typed', Calm, ~full, NEW k \in Gens, cur \in {0, k},
           NEW e \in Rows, NEW x \in Tasks,
           rows' = [rows EXCEPT ![Main] = e], tasks' = [tasks EXCEPT ![<<Main, k>>] = x],
           UNCHANGED <<full, copies, asked, wanted, crashes>>, asked = "NO",
           \/ /\ x.pc # "off" /\ cur' = k /\ ~gate' /\ e.status = "RUNNING"
              /\ plan'.step = "WRITE" /\ Same(e, x.row) /\ CalledAt(Main, x)'
           \/ /\ x.pc = "off" /\ cur' = 0 /\ e.status # "COMPLETED"
              /\ gate' => e.status = "WAITING_GATE",
           plan'.step # "WRITE" => e.repair = {} /\ e.results = Sections,
           e.repair # {} => Sections \subseteq e.results \cup e.repair,
           \A s \in Sections, p \in Repairable : e.override[s][p] <= wanted[s],
           \A s \in Sections : Agree(e, docs'[s], s, wanted[s])
    PROVE  Calm'
<1>1. Main \in Writers /\ Main \notin Groups /\ k # 0
  BY Constants, WritersAre
<1>2. rows \in [Writers -> Rows] /\ tasks \in [Slots -> Tasks]
  BY DEF Typed, TypeOK
<1>3. rows'[Main] = e /\ \A w \in Writers : w # Main => rows'[w] = rows[w]
  BY <1>1, <1>2
<1>4. /\ tasks'[<<Main, k>>] = x
      /\ \A u \in Writers, j \in Gens : u # Main \/ j # k => tasks'[<<u, j>>] = tasks[<<u, j>>]
  BY <1>1, <1>2 DEF Slots
<1>5. \A u \in Writers, j \in Gens : u # Main \/ j # k => tasks'[<<u, j>>].pc = "off"
  <2> SUFFICES ASSUME NEW u \in Writers, NEW j \in Gens, tasks[<<u, j>>].pc # "off"
               PROVE  u = Main /\ j = k
    BY <1>4
  <2>1. j = cur /\ u \notin Groups
    BY DEF Calm, Alone
  <2> QED
    BY <2>1, Constants, WritersAre
<1>6. Alone'
  BY <1>1, <1>4, <1>5 DEF Alone
<1>7. Stages'
  BY <1>1, <1>3 DEF Stages
<1>8. Saved'
  <2> SUFFICES ASSUME NEW w \in Writers, NEW j \in Gens PROVE SavedAt(w, tasks[<<w, j>>])'
    BY DEF Saved
  <2>1. CASE w = Main /\ j = k
    BY <1>3, <1>4, <2>1 DEF SavedAt, Drafting
  <2>2. CASE w # Main \/ j # k
    BY <1>5, <2>2 DEF SavedAt, Drafting
  <2> QED
    BY <2>1, <2>2
<1>9. Mending'
  BY <1>3 DEF Mending
<1>10. Bounded'
  <2>1. ASSUME NEW w \in Writers, NEW s \in Sections, NEW p \in Repairable
        PROVE  rows'[w].override[s][p] <= wanted[s]
    BY <1>3 DEF Calm, Bounded
  <2> QED
    BY <2>1 DEF Bounded, Agree
<1>11. Called'
  <2> SUFFICES ASSUME NEW w \in Writers, NEW j \in Gens PROVE CalledAt(w, tasks[<<w, j>>])'
    BY DEF Called
  <2>1. CASE w = Main /\ j = k
    BY <1>4, <2>1 DEF CalledAt
  <2>2. CASE w # Main \/ j # k
    BY <1>5, <2>2 DEF CalledAt
  <2> QED
    BY <2>1, <2>2
<1>12. Known' /\ Unaccepted'
  BY <1>3 DEF Known, Unaccepted, Accepted, Settled, Author, Stale, Open, Late, Agree
<1>13. Final'
  BY <1>3 DEF Final, Finished
<1> QED
  BY <1>6, <1>7, <1>8, <1>9, <1>10, <1>11, <1>12, <1>13 DEF Calm

\* The serial chain moves on with its row at r, through, blocked or at a phase.
LEMMA MainMoves ==
    ASSUME Typed, Typed', Calm, ~full, NEW k \in Gens, cur \in {0, k},
           NEW r, Movable(r, Main), MoveMain(k, r),
           UNCHANGED <<full, copies, asked, wanted, crashes>>,
           asked = "NO", ~gate, plan.step = "WRITE",
           r.repair # {} => Sections \subseteq r.results \cup r.repair,
           \A s \in Sections, p \in Repairable : r.override[s][p] <= wanted[s],
           \A s \in Sections : Agree(r, docs'[s], s, wanted[s])
    PROVE  Calm'
<1>1. r \in Rows /\ plan \in Plans /\ r.results \subseteq Sections
  BY RowIs DEF Movable, Typed, TypeOK
<1>2. CASE Through(r, Main)
  <2>1. PICK e : e = WrittenRow(r, plan)
    OBVIOUS
  <2>2. /\ e \in Rows /\ e.status = (IF plan.skip THEN "RUNNING" ELSE "WAITING_GATE")
        /\ e.repair = {} /\ e.results = r.results /\ e.phase = r.phase /\ e.override = r.override
        /\ WrittenPlan(plan).step = "REVIEW"
    BY <1>1, <2>1, WrittenTyped
  <2>3. r.status = "RUNNING" /\ r.results = Sections
    BY <1>1, <1>2, WritersAre DEF Through, Todo, Targets
  <2>4. /\ rows' = [rows EXCEPT ![Main] = e] /\ plan' = WrittenPlan(plan) /\ gate' = ~plan.skip
        /\ cur' = 0 /\ tasks' = [tasks EXCEPT ![<<Main, k>>] = NoTask]
    BY <1>2, <2>1 DEF MoveMain
  <2>5. \A s \in Sections : Agree(e, docs'[s], s, wanted[s])
    BY <2>2, AgreeIs
  <2>6. NoTask \in Tasks /\ NoTask.pc = "off"
    BY TaskIs
  <2>7. gate' => e.status = "WAITING_GATE"
    BY <2>2, <2>4
  <2> QED
    BY <2>2, <2>3, <2>4, <2>5, <2>6, <2>7, SerialStep
<1>3. CASE ~Through(r, Main) /\ r.status = "BLOCKED"
  <2>1. /\ rows' = [rows EXCEPT ![Main] = r] /\ UNCHANGED <<plan, gate>>
        /\ cur' = 0 /\ tasks' = [tasks EXCEPT ![<<Main, k>>] = NoTask]
    BY <1>3 DEF MoveMain
  <2>2. NoTask \in Tasks /\ NoTask.pc = "off"
    BY TaskIs
  <2> QED
    BY <1>1, <1>3, <2>1, <2>2, SerialStep
<1>4. CASE ~Through(r, Main) /\ r.status # "BLOCKED"
  <2>1. PICK x : x = Task("ready", r)
    OBVIOUS
  <2>2. /\ rows' = [rows EXCEPT ![Main] = r] /\ UNCHANGED <<plan, gate>>
        /\ cur' = k /\ tasks' = [tasks EXCEPT ![<<Main, k>>] = x]
    BY <1>4, <2>1 DEF MoveMain
  <2>3. x \in Tasks /\ x.pc = "ready" /\ x.row = r
    BY <1>1, <2>1, TaskIs
  <2>4. r.status = "RUNNING"
    BY <1>4 DEF Movable
  <2>5. Same(r, x.row) /\ CalledAt(Main, x)'
    BY <2>3 DEF Same, CalledAt
  <2> QED
    BY <1>1, <2>2, <2>3, <2>4, <2>5, SerialStep
<1> QED
  BY <1>2, <1>3, <1>4

\* A group's task moves on with its child at r.
LEMMA GroupMoves ==
    ASSUME Typed, Typed', Calm, full, NEW g \in Groups, NEW k \in Gens, k = cur,
           NEW r, Movable(r, g), NEW begins \in BOOLEAN, MoveGroup(g, k, r, begins),
           UNCHANGED <<full, copies, asked, wanted, crashes>>,
           r.repair \subseteq Mine(g),
           \A s \in Sections, p \in Repairable : r.override[s][p] <= wanted[s],
           \A s \in Sections : Owner[s] # g => docs'[s] = docs[s],
           \A s \in Sections : Owner[s] = g => Agree(r, docs'[s], s, wanted[s])
    PROVE  Calm'
<1>1. g \in Writers /\ Main \in Writers /\ g # Main /\ cur # 0
  BY WritersAre, Constants
<1>2. PICK e : e = IF Through(r, g) THEN GroupRow(r, g) ELSE r
  OBVIOUS
<1>3. /\ e \in Rows /\ e.results = r.results /\ e.phase = r.phase
      /\ e.override = r.override /\ e.repair \in {r.repair, {}}
      /\ e.status \in {"RUNNING", "BLOCKED", "COMPLETED"}
  BY <1>1, <1>2, EndIs
<1>4. copies[k] = [row |-> rows[Main], plan |-> plan]
  BY <1>1 DEF Calm, Stages
<1>5. /\ rows' = [rows EXCEPT ![g] = e]
      /\ UNCHANGED <<plan, gate, cur>>
      /\ tasks' = [tasks EXCEPT ![<<g, k>>] =
                      IF e.status = "RUNNING" THEN Task("ready", e) ELSE Task("done", e)]
  <2>1. /\ rows' = [rows EXCEPT ![g] = e, ![Main] = IF begins \/ e.status = "COMPLETED"
                                                    THEN copies[k].row ELSE @]
        /\ plan' = IF begins \/ e.status = "COMPLETED" THEN copies[k].plan ELSE plan
        /\ tasks' = [tasks EXCEPT ![<<g, k>>] =
                        IF e.status = "RUNNING" THEN Task("ready", e)
                        ELSE IF k = cur THEN Task("done", e) ELSE NoTask]
        /\ UNCHANGED <<gate, cur>>
    BY <1>2 DEF MoveGroup
  <2>2. copies[k].row = rows[Main] /\ copies[k].plan = plan
    BY <1>4
  <2>3. rows' = [rows EXCEPT ![g] = e]
    BY <1>1, <2>1, <2>2 DEF Typed, TypeOK
  <2> QED
    BY <2>1, <2>2, <2>3
<1>6. PICK x : x = IF e.status = "RUNNING" THEN Task("ready", e) ELSE Task("done", e)
  OBVIOUS
<1>7. x \in Tasks /\ x.row = e /\ x.pc \in {"ready", "done"}
  BY <1>3, <1>6, TaskIs
<1>8. Same(e, x.row) /\ CalledAt(g, x)'
  BY <1>7 DEF Same, CalledAt
<1>10. e.repair \subseteq Mine(g) /\ x.pc \notin {"off", "fresh"}
  BY <1>3, <1>7
<1>11. /\ tasks' = [tasks EXCEPT ![<<g, k>>] = x]
       /\ UNCHANGED <<full, plan, gate, copies, cur, asked, wanted, crashes>>
       /\ \A s \in Sections, p \in Repairable : e.override[s][p] <= wanted[s]
  BY <1>3, <1>5, <1>6
<1>12. \A s \in Sections : Owner[s] = g => Agree(e, docs'[s], s, wanted[s])
  BY <1>3, AgreeIs
<1>13. rows' = [rows EXCEPT ![g] = e] /\ \A s \in Sections : Owner[s] # g => docs'[s] = docs[s]
  BY <1>5
<1> QED
  BY <1>3, <1>7, <1>8, <1>10, <1>11, <1>12, <1>13, GroupStep

\* What a calm state says of the section a task is at.
LEMMA SectionsAre ==
    ASSUME Typed, Calm, NEW w \in Writers, NEW k \in Gens, tasks[<<w, k>>].pc \in Drafting,
           NEW t, t = tasks[<<w, k>>]
    PROVE  /\ t.row.repair = rows[w].repair /\ t.row.results = rows[w].results
           /\ t.row.phase = rows[w].phase
           /\ full => t.row.repair \subseteq Mine(w)
           /\ ~full /\ t.row.repair # {} => Sections \subseteq t.row.results \cup t.row.repair
           /\ \A s \in Sections, p \in Repairable : t.row.override[s][p] <= wanted[s]
           /\ \A s \in Sections : Author(s) = w => Agree(t.row, docs[s], s, wanted[s])
<1>1. k = cur /\ cur # 0 /\ (full <=> w \in Groups)
  BY Constants DEF Calm, Alone, Drafting
<1>2. Same(rows[w], t.row)
  BY DEF Calm, Saved, SavedAt
<1>3. \A s \in Sections : Author(s) = w => ~Stale(s)
  <2> SUFFICES ASSUME full, NEW s \in Sections, Owner[s] = w PROVE ~Stale(s)
    BY DEF Author, Stale
  <2>1. plan.children = Groups /\ w \in Groups
    BY <1>1 DEF Calm, Stages
  <2> QED
    BY <1>1, <2>1 DEF Stale, Drafting
<1>4. rows[Main].status = "RUNNING"
  BY <1>1 DEF Calm, Stages
<1>5. /\ t.row.repair = rows[w].repair /\ t.row.results = rows[w].results
      /\ t.row.phase = rows[w].phase /\ t.row.override = rows[w].override
  BY <1>2 DEF Same
<1>6. /\ full => t.row.repair \subseteq Mine(w)
      /\ ~full /\ t.row.repair # {} => Sections \subseteq t.row.results \cup t.row.repair
  BY <1>1, <1>5, WritersAre DEF Calm, Mending
<1>7. /\ \A s \in Sections, p \in Repairable : t.row.override[s][p] <= wanted[s]
      /\ \A s \in Sections :
            \A n \in {docs[s].BLUEPRINT, docs[s].CONTENT, docs[s].candidate} : n <= wanted[s]
  BY <1>5 DEF Calm, Bounded
<1>8. ASSUME NEW s \in Sections, Author(s) = w
      PROVE  /\ Written(t.row, docs[s], s)
             /\ full => Current(t.row, docs[s], s, wanted[s])
  <2>1. Written(rows[w], docs[s], s) /\ (full => Current(rows[w], docs[s], s, wanted[s]))
    BY <1>3, <1>8 DEF Calm, Known
  <2> QED
    BY <1>2, <2>1, SameIs
<1>9. ASSUME NEW s \in Sections, Author(s) = w, crashes = 0, t.row.phase[s] \notin Late
      PROVE  ~Settled(docs[s], wanted[s])
  <2>1. Open(s)
    BY <1>5, <1>9 DEF Open, Late
  <2> QED
    BY <1>4, <1>9, <2>1 DEF Calm, Unaccepted, Accepted, Settled
<1> QED
  BY <1>5, <1>6, <1>7, <1>8, <1>9 DEF Agree

\* Any task that is at a section moves on.
LEMMA Moves ==
    ASSUME Typed, Typed', Calm, NEW w \in Writers, NEW k \in Gens,
           tasks[<<w, k>>].pc \in Drafting, NEW r, Movable(r, w), Move(w, k, r),
           UNCHANGED <<full, copies, asked, wanted, crashes>>,
           r.repair = rows[w].repair, rows[w].results \subseteq r.results,
           \A s \in Sections, p \in Repairable : r.override[s][p] <= wanted[s],
           \A s \in Sections : Author(s) # w => docs'[s] = docs[s],
           \A s \in Sections : Author(s) = w => Agree(r, docs'[s], s, wanted[s])
    PROVE  Calm'
<1>1. k = cur /\ cur # 0 /\ (full <=> w \in Groups)
  BY Constants DEF Calm, Alone, Drafting
<1>2. asked = "NO" /\ ~gate /\ plan.step = "WRITE"
  BY <1>1 DEF Calm, Stages
<1>3. CASE w = Main
  <2>1. ~full /\ MoveMain(k, r) /\ \A s \in Sections : Author(s) = w
    BY <1>1, <1>3, WritersAre DEF Move, Author
  <2>2. r.repair # {} => Sections \subseteq r.results \cup r.repair
    BY <1>3, <2>1 DEF Calm, Mending
  <2>3. \A s \in Sections : Agree(r, docs'[s], s, wanted[s])
    BY <2>1
  <2>4. Movable(r, Main) /\ cur \in {0, k}
    BY <1>1, <1>3
  <2> QED
    BY <1>2, <2>1, <2>2, <2>3, <2>4, MainMoves
<1>4. CASE w # Main
  <2>1. full /\ w \in Groups /\ MoveGroup(w, k, r, FALSE) /\ \A s \in Sections : Author(s) = Owner[s]
    BY <1>1, <1>4, WritersAre DEF Move, Author
  <2>2. r.repair \subseteq Mine(w)
    BY <2>1 DEF Calm, Mending
  <2>3. \A s \in Sections : Owner[s] = w => Agree(r, docs'[s], s, wanted[s])
    BY <2>1
  <2>4. \A s \in Sections : Owner[s] # w => docs'[s] = docs[s]
    BY <2>1
  <2> QED
    BY <1>1, <2>1, <2>2, <2>3, <2>4, GroupMoves
<1> QED
  BY <1>3, <1>4

\* A phase passes: with a commit, or after a repair.
LEMMA PassCalm ==
    ASSUME Typed, Typed', Calm, NEW w \in Writers, NEW k \in Gens,
           tasks[<<w, k>>].pc \in Drafting, NEW t, t = tasks[<<w, k>>],
           NEW s, s = Active(t.row, Mine(w)), NEW c, c = t.row.phase[s],
           NEW seen \in Versions, NEW of, docs'[s] = Produced(docs[s], c, seen, of, k),
           seen <= wanted[s], full /\ c \in Producers => seen = wanted[s],
           c = "EXPRESSION_CRITIC" => of = docs[s].by,
           \A u \in Sections : u # s => docs'[u] = docs[u],
           Move(w, k, Onward(Passed(t.row, s), Mine(w))),
           UNCHANGED <<full, copies, asked, wanted, crashes>>
    PROVE  Calm'
<1>1. /\ t.row \in Rows /\ t.row.status = "RUNNING" /\ InSection(t.row, Mine(w))
      /\ s \in Sections /\ c \in Phases /\ Author(s) = w
      /\ Written(t.row, docs[s], s)
      /\ full => Current(t.row, docs[s], s, wanted[s])
  BY AtIs
<1>2. /\ t.row.repair = rows[w].repair /\ t.row.results = rows[w].results
      /\ \A u \in Sections, p \in Repairable : t.row.override[u][p] <= wanted[u]
      /\ \A u \in Sections : Author(u) = w => Agree(t.row, docs[u], u, wanted[u])
  BY SectionsAre
<1>3. docs[s] \in Docs /\ wanted[s] \in Nat
  BY <1>1, Constants DEF Typed, TypeOK, Versions
<1>4. PICK p : p = Passed(t.row, s)
  OBVIOUS
<1>5. /\ p \in Rows /\ p.repair = t.row.repair /\ p.override = t.row.override
      /\ \A u \in Sections : u # s => p.phase[u] = t.row.phase[u]
      /\ t.row.results \subseteq p.results /\ \A u \in p.results : u = s \/ u \in t.row.results
  <2>1. t.row.phase[s] \in Phases
    BY <1>1
  <2>2. /\ p \in Rows /\ p.repair = t.row.repair /\ p.override = t.row.override
        /\ \A u \in Sections : u # s => p.phase[u] = t.row.phase[u]
        /\ p.results = IF After[t.row.phase[s]] = "DONE" THEN t.row.results \cup {s} ELSE t.row.results
    <3>1. PICK a : a = t.row
      OBVIOUS
    <3>2. a \in Rows /\ s \in Sections /\ a.phase[s] \in Phases
      BY <1>1, <2>1, <3>1
    <3>3. p = Passed(a, s)
      BY <1>4, <3>1
    <3> QED
      BY <3>1, <3>2, <3>3, PassedIs
  <2> QED
    BY <2>2
<1>6. PICK q : q = Onward(p, Mine(w))
  OBVIOUS
<1>7. q \in Rows /\ q.repair = p.repair /\ q.override = p.override /\ p.results \subseteq q.results
  BY <1>5, <1>6, OnwardIs
<1>8. Movable(q, w) /\ Move(w, k, q)
  BY <1>1, <1>4, <1>6, PassMoves
<1>9. PICK e : e = docs'[s]
  OBVIOUS
<1>10. /\ Written(p, e, s)
       /\ full => Current(p, e, s, wanted[s])
       /\ p.phase[s] \notin Late =>
             t.row.phase[s] \notin Late /\ (Settled(e, wanted[s]) => Settled(docs[s], wanted[s]))
  <2>1. e = Produced(docs[s], t.row.phase[s], seen, of, k) /\ t.row.phase[s] \in Phases
    BY <1>1, <1>9
  <2>2. /\ Written(p, e, s)
        /\ \A v : (t.row.phase[s] \in Producers => seen = v) /\ Current(t.row, docs[s], s, v)
                   => Current(p, e, s, v)
        /\ p.phase[s] \notin Late =>
              t.row.phase[s] \notin Late /\ \A v : Settled(e, v) => Settled(docs[s], v)
    BY <1>1, <1>3, <1>4, <2>1, PassedKeeps
  <2> QED
    BY <1>1, <2>2
<1>11. \A n \in {e.BLUEPRINT, e.CONTENT, e.candidate} : n <= wanted[s]
  <2>1. docs[s].BLUEPRINT <= wanted[s] /\ docs[s].CONTENT <= wanted[s] /\ docs[s].candidate <= wanted[s]
    BY <1>1, <1>2 DEF Agree
  <2>2. e.BLUEPRINT <= wanted[s] /\ e.CONTENT <= wanted[s] /\ e.candidate <= wanted[s]
    BY <1>1, <1>3, <1>9, <2>1, ProducedBounded
  <2> QED
    BY <2>2
<1>12. ASSUME NEW u \in Sections, Author(u) = w
       PROVE  Agree(p, docs'[u], u, wanted[u])
  <2>1. CASE u = s
    <3>1. Agree(t.row, docs[s], s, wanted[s])
      BY <1>1, <1>2
    <3>2. crashes = 0 /\ p.phase[s] \notin Late => ~Settled(e, wanted[s])
      BY <1>10, <3>1 DEF Agree
    <3>3. Agree(p, e, s, wanted[s])
      BY <1>10, <1>11, <3>2 DEF Agree
    <3> QED
      BY <1>9, <2>1, <3>3
  <2>2. CASE u # s
    <3>1. docs'[u] = docs[u] /\ p.phase[u] = t.row.phase[u] /\ (u \in p.results => u \in t.row.results)
      BY <1>5, <2>2
    <3>2. Agree(t.row, docs[u], u, wanted[u])
      BY <1>2, <1>12
    <3>3. Written(p, docs[u], u)
      BY <3>1, <3>2 DEF Agree, Written
    <3>4. full => Current(p, docs[u], u, wanted[u])
      BY <1>5, <3>1, <3>2 DEF Agree, Current
    <3> QED
      BY <3>1, <3>2, <3>3, <3>4 DEF Agree
  <2> QED
    BY <2>1, <2>2
<1>13. ASSUME NEW u \in Sections, Author(u) = w
       PROVE  Agree(q, docs'[u], u, wanted[u])
  <2>1. /\ \A d : Written(p, d, u) => Written(q, d, u)
        /\ \A d, v : Current(p, d, u, v) => Current(q, d, u, v)
        /\ q.phase[u] \in Late <=> p.phase[u] \in Late
    BY <1>5, <1>6, OnwardKeeps
  <2>2. Agree(p, docs'[u], u, wanted[u])
    BY <1>12, <1>13
  <2> QED
    BY <2>1, <2>2 DEF Agree
<1>14. \A u \in Sections : Author(u) # w => docs'[u] = docs[u]
  BY <1>1
<1>15. /\ q.repair = rows[w].repair /\ rows[w].results \subseteq q.results
       /\ \A u \in Sections, x \in Repairable : q.override[u][x] <= wanted[u]
  BY <1>2, <1>5, <1>7
<1> QED
  BY <1>8, <1>13, <1>14, <1>15, Moves

\* A task goes on at its section without passing the phase.
LEMMA Stays ==
    ASSUME Typed, Typed', Calm, NEW w \in Writers, NEW k \in Gens,
           tasks[<<w, k>>].pc \in Drafting, NEW e \in Rows, NEW x \in Tasks,
           rows' = [rows EXCEPT ![w] = e], tasks' = [tasks EXCEPT ![<<w, k>>] = x],
           UNCHANGED <<full, plan, gate, copies, cur, asked, docs, wanted, crashes>>,
           x.pc \in Drafting, e.status = "RUNNING", Same(e, x.row), CalledAt(w, x)',
           e.repair = rows[w].repair, e.results = rows[w].results,
           \A s \in Sections, p \in Repairable : e.override[s][p] <= wanted[s],
           \A s \in Sections : Author(s) = w => Agree(e, docs[s], s, wanted[s])
    PROVE  Calm'
<1>1. k = cur /\ cur # 0 /\ (full <=> w \in Groups)
  BY Constants DEF Calm, Alone, Drafting
<1>2. asked = "NO" /\ ~gate /\ plan.step = "WRITE"
  BY <1>1 DEF Calm, Stages
<1>3. x.pc \notin {"off", "fresh"} /\ x.pc # "off"
  BY DEF Drafting
<1>4. CASE w = Main
  <2>1. ~full /\ \A s \in Sections : Author(s) = w
    BY <1>1, <1>4, WritersAre DEF Author
  <2>2. e.repair # {} => Sections \subseteq e.results \cup e.repair
    BY <1>4, <2>1 DEF Calm, Mending
  <2>3. \A s \in Sections : Agree(e, docs'[s], s, wanted[s])
    BY <2>1
  <2>4. /\ rows' = [rows EXCEPT ![Main] = e] /\ tasks' = [tasks EXCEPT ![<<Main, k>>] = x]
        /\ CalledAt(Main, x)'
    BY <1>4
  <2>5. cur \in {0, k} /\ cur' = k /\ ~gate' /\ plan'.step = "WRITE"
    BY <1>1, <1>2
  <2> QED
    BY <1>2, <1>3, <2>1, <2>2, <2>3, <2>4, <2>5, SerialStep
<1>5. CASE w # Main
  <2>1. full /\ w \in Groups /\ \A s \in Sections : Author(s) = Owner[s]
    BY <1>1, <1>5, WritersAre DEF Author
  <2>2. e.repair \subseteq Mine(w)
    BY <2>1 DEF Calm, Mending
  <2>3. \A s \in Sections : Owner[s] = w => Agree(e, docs'[s], s, wanted[s])
    BY <2>1
  <2>4. \A s \in Sections : Owner[s] # w => docs'[s] = docs[s]
    OBVIOUS
  <2> QED
    BY <1>1, <1>3, <2>1, <2>2, <2>3, <2>4, GroupStep
<1> QED
  BY <1>4, <1>5

\* What a task knows of its row and of the section it is at.
LEMMA TaskAgrees ==
    ASSUME Typed, Calm, NEW w \in Writers, NEW k \in Gens, tasks[<<w, k>>].pc \in Drafting,
           NEW t, t = tasks[<<w, k>>], NEW s, s = Active(t.row, Mine(w)),
           NEW c, c = t.row.phase[s], NEW v, v = wanted[s], NEW d, d = docs[s]
    PROVE  /\ s \in Sections /\ c \in Phases /\ d \in Docs /\ v \in Nat /\ v \in Versions
           /\ d.BLUEPRINT <= v /\ d.CONTENT <= v /\ d.candidate <= v
           /\ \A p \in Repairable : t.row.override[s][p] <= v /\ t.row.override[s][p] \in Versions
           /\ c = "EXPRESSION_CRITIC" => d.kind = "POLISH"
           /\ full =>
                /\ \A p \in Repairable : t.row.override[s][p] \in {0, v}
                /\ c \in {"CONTENT", "BLUEPRINT_CRITIC"} => d.BLUEPRINT = v
                /\ c \in {"POLISH", "CONTENT_CRITIC"} => d.CONTENT = v
<1>1. /\ s \in Sections /\ c \in Phases /\ Author(s) = w /\ t.row \in Rows
      /\ Written(t.row, docs[s], s)
      /\ full => Current(t.row, docs[s], s, wanted[s])
  BY AtIs
<1>2. /\ \A p \in Repairable : t.row.override[s][p] <= v
      /\ \A n \in {d.BLUEPRINT, d.CONTENT, d.candidate} : n <= v
  BY <1>1, SectionsAre DEF Calm, Bounded
<1>3. d \in Docs /\ v \in Versions /\ v \in Nat
  BY <1>1, Constants DEF Typed, TypeOK, Versions
<1>4. \A p \in Repairable : t.row.override[s][p] \in Versions
  BY <1>1, RowIs
<1>5. c = "EXPRESSION_CRITIC" => d.kind = "POLISH"
  BY <1>1 DEF Written
<1>6. full =>
        /\ \A p \in Repairable : t.row.override[s][p] \in {0, v}
        /\ c \in {"CONTENT", "BLUEPRINT_CRITIC"} => d.BLUEPRINT = v
        /\ c \in {"POLISH", "CONTENT_CRITIC"} => d.CONTENT = v
  BY <1>1 DEF Current
<1> QED
  BY <1>1, <1>2, <1>3, <1>4, <1>5, <1>6

\* The model is called.
LEMMA AskCalm ==
    ASSUME Typed, Typed', Calm, NEW w \in Writers, NEW k \in Gens, Ask(w, k)
    PROVE  Calm'
<1>1. PICK t, s, c : t = tasks[<<w, k>>] /\ s = Active(t.row, Mine(w)) /\ c = t.row.phase[s]
  OBVIOUS
<1> DEFINE text == CASE c = "BLUEPRINT" -> wanted[s]
                  [] c = "CONTENT" -> TextOf(t.row, s, docs[s], "BLUEPRINT")
                  [] c = "POLISH" -> TextOf(t.row, s, docs[s], "CONTENT")
                  [] OTHER -> 0
           of == IF c = "EXPRESSION_CRITIC" /\ docs[s].kind = "POLISH" THEN docs[s].by ELSE 0
<1>2. /\ t.pc = "ready"
      /\ tasks' = [tasks EXCEPT ![<<w, k>>] = [t EXCEPT !.pc = "await", !.seen = text, !.of = of]]
      /\ UNCHANGED <<full, rows, plan, gate, copies, cur, asked, docs, changed, wanted, crashes, faults>>
  BY <1>1 DEF Ask
<1>3. t.pc \in Drafting /\ tasks[<<w, k>>].pc \in Drafting
  BY <1>1, <1>2 DEF Drafting
<1>4. /\ t \in Tasks /\ t.row \in Rows /\ t.row.status = "RUNNING" /\ Same(rows[w], t.row)
      /\ \A u \in Sections : Author(u) = w => Agree(t.row, docs[u], u, wanted[u])
      /\ \A u \in Sections, p \in Repairable : t.row.override[u][p] <= wanted[u]
  BY <1>1, <1>3, AtIs, SectionsAre
<1>5. /\ s \in Sections /\ c \in Phases /\ docs[s] \in Docs /\ wanted[s] \in Nat /\ wanted[s] \in Versions
      /\ docs[s].BLUEPRINT <= wanted[s] /\ docs[s].CONTENT <= wanted[s]
      /\ \A p \in Repairable :
            t.row.override[s][p] <= wanted[s] /\ t.row.override[s][p] \in Versions
      /\ c = "EXPRESSION_CRITIC" => docs[s].kind = "POLISH"
      /\ full =>
           /\ \A p \in Repairable : t.row.override[s][p] \in {0, wanted[s]}
           /\ c \in {"CONTENT", "BLUEPRINT_CRITIC"} => docs[s].BLUEPRINT = wanted[s]
           /\ c \in {"POLISH", "CONTENT_CRITIC"} => docs[s].CONTENT = wanted[s]
  BY <1>1, <1>3, TaskAgrees
<1>6. /\ text <= wanted[s] /\ text \in Versions
      /\ full /\ c \in Producers => text = wanted[s]
  <2>1. CASE c = "BLUEPRINT"
    BY <1>5, <2>1
  <2>2. CASE c = "CONTENT"
    <3>1. text = IF t.row.override[s]["BLUEPRINT"] # 0 THEN t.row.override[s]["BLUEPRINT"]
                 ELSE docs[s].BLUEPRINT
      BY <2>2 DEF TextOf, Repairable
    <3> HIDE DEF text
    <3> QED
      BY <1>5, <2>2, <3>1 DEF Repairable, Docs
  <2>3. CASE c = "POLISH"
    <3>1. text = IF t.row.override[s]["CONTENT"] # 0 THEN t.row.override[s]["CONTENT"]
                 ELSE docs[s].CONTENT
      BY <2>3 DEF TextOf, Repairable
    <3> HIDE DEF text
    <3> QED
      BY <1>5, <2>3, <3>1 DEF Repairable, Docs
  <2>4. CASE c \notin {"BLUEPRINT", "CONTENT", "POLISH"}
    <3>1. text = 0
      BY <2>4
    <3> QED
      BY <1>5, <2>4, <3>1, Constants DEF Producers
  <2> QED
    BY <2>1, <2>2, <2>3, <2>4
<1>7. of \in {0} \cup Gens /\ (c = "EXPRESSION_CRITIC" => of = docs[s].by)
  BY <1>5 DEF Docs
<1>8. PICK x : x = [t EXCEPT !.pc = "await", !.seen = text, !.of = of]
  OBVIOUS
<1> HIDE DEF text, of
<1>9. /\ x \in Tasks /\ x.pc = "await" /\ x.row = t.row /\ x.seen = text /\ x.of = of
  BY <1>4, <1>6, <1>7, <1>8 DEF Tasks
<1>10. CalledAt(w, x)'
  <2>1. UNCHANGED <<full, docs, wanted>>
    BY <1>2
  <2> QED
    BY <1>1, <1>6, <1>7, <1>9, <2>1 DEF CalledAt
<1>11. PICK e : e = rows[w]
  OBVIOUS
<1>12. /\ e \in Rows /\ rows' = [rows EXCEPT ![w] = e]
       /\ e.status = t.row.status /\ e.results = t.row.results /\ e.phase = t.row.phase
       /\ e.override = t.row.override
       /\ Same(e, x.row)
  BY <1>2, <1>4, <1>9, <1>11 DEF Typed, TypeOK, Same
<1>13. /\ \A u \in Sections, p \in Repairable : e.override[u][p] <= wanted[u]
       /\ \A u \in Sections : Author(u) = w => Agree(e, docs[u], u, wanted[u])
  BY <1>4, <1>12, AgreeIs
<1>14. x.pc \in Drafting
  BY <1>9 DEF Drafting
<1>15. /\ tasks' = [tasks EXCEPT ![<<w, k>>] = x]
       /\ UNCHANGED <<full, plan, gate, copies, cur, asked, docs, wanted, crashes>>
  BY <1>2, <1>8
<1>16. e.status = "RUNNING" /\ e.repair = rows[w].repair /\ e.results = rows[w].results
  BY <1>4, <1>11, <1>12
<1> QED
  BY <1>3, <1>9, <1>10, <1>12, <1>13, <1>14, <1>15, <1>16, Stays

\* A critic asks for a revision.
LEMMA ReviseCalm ==
    ASSUME Typed, Typed', Calm, NEW w \in Writers, NEW k \in Gens, AnswerRevise(w, k)
    PROVE  Calm'
<1>1. PICK t, s, c : t = tasks[<<w, k>>] /\ s = Active(t.row, Mine(w)) /\ c = t.row.phase[s]
  OBVIOUS
<1>2. PICK x : x = [t EXCEPT !.pc = "repair", !.row = Attempted(t.row, s, c),
                             !.seen = docs[s][Repairs[c]]]
  OBVIOUS
<1>3. /\ t.pc = "await" /\ c \in DOMAIN Repairs
      /\ tasks' = [tasks EXCEPT ![<<w, k>>] = x] /\ rows' = [rows EXCEPT ![w] = t.row]
      /\ UNCHANGED <<full, plan, gate, copies, cur, asked, docs, changed, wanted, crashes, faults>>
  BY <1>1, <1>2 DEF AnswerRevise, CanRepair
<1>4. tasks[<<w, k>>].pc \in Drafting
  BY <1>1, <1>3 DEF Drafting
<1>5. /\ t \in Tasks /\ t.row \in Rows /\ t.row.status = "RUNNING"
      /\ t.row.repair = rows[w].repair /\ t.row.results = rows[w].results
      /\ \A u \in Sections : Author(u) = w => Agree(t.row, docs[u], u, wanted[u])
      /\ \A u \in Sections, p \in Repairable : t.row.override[u][p] <= wanted[u]
  BY <1>1, <1>4, AtIs, SectionsAre
<1>6. /\ s \in Sections /\ c \in Phases /\ docs[s] \in Docs
      /\ docs[s].BLUEPRINT <= wanted[s] /\ docs[s].CONTENT <= wanted[s]
      /\ full =>
           /\ c \in {"CONTENT", "BLUEPRINT_CRITIC"} => docs[s].BLUEPRINT = wanted[s]
           /\ c \in {"POLISH", "CONTENT_CRITIC"} => docs[s].CONTENT = wanted[s]
  BY <1>1, <1>4, TaskAgrees
<1>7. Attempted(t.row, s, c) \in Rows /\ Same(t.row, Attempted(t.row, s, c))
  BY <1>3, <1>5, <1>6, RepairIs, Constants
<1>8. docs[s][Repairs[c]] \in Versions /\ docs[s][Repairs[c]] <= wanted[s]
      /\ (full => docs[s][Repairs[c]] = wanted[s])
  <2>1. CASE c = "BLUEPRINT_CRITIC"
    <3>1. docs[s][Repairs[c]] = docs[s].BLUEPRINT
      BY <2>1 DEF Repairs
    <3> QED
      BY <1>6, <2>1, <3>1 DEF Docs
  <2>2. CASE c = "CONTENT_CRITIC"
    <3>1. docs[s][Repairs[c]] = docs[s].CONTENT
      BY <2>2 DEF Repairs
    <3> QED
      BY <1>6, <2>2, <3>1 DEF Docs
  <2> QED
    BY <1>3, <2>1, <2>2 DEF Repairs
<1>9. /\ x \in Tasks /\ x.pc = "repair" /\ x.row = Attempted(t.row, s, c)
      /\ x.seen = docs[s][Repairs[c]]
  BY <1>2, <1>5, <1>7, <1>8 DEF Tasks
<1>10. Active(x.row, Mine(w)) = s
  BY <1>1, <1>7, <1>9, SameIs
<1>11. CalledAt(w, x)'
  <2>1. UNCHANGED <<full, docs, wanted>>
    BY <1>3
  <2> QED
    BY <1>8, <1>9, <1>10, <2>1 DEF CalledAt
<1>12. Same(t.row, x.row) /\ x.pc \in Drafting
  BY <1>7, <1>9 DEF Drafting
<1>13. UNCHANGED <<full, plan, gate, copies, cur, asked, docs, wanted, crashes>>
  BY <1>3
<1> QED
  BY <1>3, <1>4, <1>5, <1>9, <1>11, <1>12, <1>13, Stays

\* The repaired text is stored.
LEMMA RepairCalm ==
    ASSUME Typed, Typed', Calm, NEW w \in Writers, NEW k \in Gens, AnswerRepair(w, k)
    PROVE  Calm'
<1>1. PICK t, s, c : t = tasks[<<w, k>>] /\ s = Active(t.row, Mine(w)) /\ c = t.row.phase[s]
  OBVIOUS
<1>2. PICK r : r = Overridden(t.row, s, c, t.seen)
  OBVIOUS
<1>3. PICK x : x = Task("recheck", r)
  OBVIOUS
<1>4. /\ t.pc = "repair" /\ tasks' = [tasks EXCEPT ![<<w, k>>] = x]
      /\ rows' = [rows EXCEPT ![w] = r]
      /\ UNCHANGED <<full, plan, gate, copies, cur, asked, docs, changed, wanted, crashes, faults>>
  BY <1>1, <1>2, <1>3 DEF AnswerRepair
<1>5. tasks[<<w, k>>].pc \in Drafting
  BY <1>1, <1>4 DEF Drafting
<1>6. /\ t \in Tasks /\ t.row \in Rows /\ t.row.status = "RUNNING" /\ t.seen \in Versions
      /\ CalledAt(w, t) /\ Author(s) = w
      /\ t.row.repair = rows[w].repair /\ t.row.results = rows[w].results
      /\ \A u \in Sections : Author(u) = w => Agree(t.row, docs[u], u, wanted[u])
      /\ \A u \in Sections, p \in Repairable : t.row.override[u][p] <= wanted[u]
  BY <1>1, <1>5, AtIs, SectionsAre
<1>7. s \in Sections /\ c \in Phases
  BY <1>1, <1>5, TaskAgrees
<1>8. c \in DOMAIN Repairs
  BY <1>1, <1>4 DEF Typed, Placed, PlacedAt
<1>9. Repairs[c] \in Repairable
  BY <1>8 DEF Repairs, Repairable
<1>10. /\ r \in Rows /\ r.status = t.row.status /\ r.results = t.row.results
       /\ r.phase = t.row.phase /\ r.repair = t.row.repair
       /\ r.override[s][Repairs[c]] = t.seen
       /\ \A u \in Sections, p \in Repairable :
             u # s \/ p # Repairs[c] => r.override[u][p] = t.row.override[u][p]
  BY <1>2, <1>6, <1>7, <1>8, RepairIs
<1>11. t.seen <= wanted[s] /\ (full => t.seen = wanted[s])
  BY <1>1, <1>4, <1>6 DEF CalledAt
<1>12. \A u \in Sections, p \in Repairable : r.override[u][p] <= wanted[u]
  BY <1>6, <1>10, <1>11
<1>13. ASSUME NEW u \in Sections, Author(u) = w PROVE Agree(r, docs[u], u, wanted[u])
  <2>1. Agree(t.row, docs[u], u, wanted[u])
    BY <1>6, <1>13
  <2>2. full => \A p \in Repairable : r.override[u][p] \in {0, wanted[u]}
    BY <1>10, <1>11, <2>1 DEF Agree, Current
  <2> QED
    BY <1>10, <2>1, <2>2 DEF Agree, Written, Current
<1>14. x \in Tasks /\ x.pc = "recheck" /\ x.row = r
  BY <1>3, <1>10, TaskIs
<1>15. CalledAt(w, x)' /\ Same(r, x.row) /\ x.pc \in Drafting
  BY <1>14 DEF CalledAt, Same, Drafting
<1>16. UNCHANGED <<full, plan, gate, copies, cur, asked, docs, wanted, crashes>>
  BY <1>4
<1>17. r.status = "RUNNING" /\ r.repair = rows[w].repair /\ r.results = rows[w].results
  BY <1>6, <1>10
<1> QED
  BY <1>4, <1>5, <1>10, <1>12, <1>13, <1>14, <1>15, <1>16, <1>17, Stays

\* The critic's PASS after a repair.
LEMMA RecheckCalm ==
    ASSUME Typed, Typed', Calm, NEW w \in Writers, NEW k \in Gens, RecheckPass(w, k)
    PROVE  Calm'
<1>1. PICK t, s, c : t = tasks[<<w, k>>] /\ s = Active(t.row, Mine(w)) /\ c = t.row.phase[s]
  OBVIOUS
<1>2. /\ t.pc = "recheck" /\ Move(w, k, Onward(Passed(t.row, s), Mine(w)))
      /\ UNCHANGED <<full, copies, asked, docs, changed, wanted, crashes, faults>>
  BY <1>1 DEF RecheckPass
<1>3. tasks[<<w, k>>].pc \in Drafting
  BY <1>1, <1>2 DEF Drafting
<1>4. s \in Sections /\ c \in Phases /\ docs[s] \in Docs /\ wanted[s] \in Nat
  BY <1>1, <1>3, TaskAgrees
<1>5. c \in DOMAIN Repairs
  BY <1>1, <1>2 DEF Typed, Placed, PlacedAt
<1>6. c \in {"BLUEPRINT_CRITIC", "CONTENT_CRITIC"}
  BY <1>5 DEF Repairs
<1>7. docs'[s] = Produced(docs[s], c, 0, 0, k)
  <2>1. PICK e : e = Produced(docs[s], c, 0, 0, k)
    OBVIOUS
  <2>2. e = docs[s]
    BY <1>4, <1>6, <2>1, ProducedIs, Constants
  <2> QED
    BY <1>2, <2>1, <2>2
<1>8. c \notin Producers /\ c # "EXPRESSION_CRITIC" /\ 0 <= wanted[s] /\ 0 \in Versions
  BY <1>4, <1>6, Constants DEF Producers
<1>9. /\ UNCHANGED <<full, copies, asked, wanted, crashes>>
      /\ \A u \in Sections : u # s => docs'[u] = docs[u]
  BY <1>2
<1> QED
  BY <1>1, <1>2, <1>3, <1>7, <1>8, <1>9, PassCalm

\* A PASS answer is committed.
LEMMA AnswerCalm ==
    ASSUME Typed, Typed', Calm, NEW w \in Writers, NEW k \in Gens, AnswerPass(w, k)
    PROVE  Calm'
<1>1. PICK t, s, c : t = tasks[<<w, k>>] /\ s = Active(t.row, Mine(w)) /\ c = t.row.phase[s]
  OBVIOUS
<1>2. /\ t.pc = "await" /\ Commit(w, k)
      /\ Move(w, k, Onward(Passed(t.row, s), Mine(w)))
      /\ UNCHANGED <<full, copies, asked, wanted, crashes, faults>>
  BY <1>1 DEF AnswerPass
<1>3. tasks[<<w, k>>].pc \in Drafting
  BY <1>1, <1>2 DEF Drafting
<1>4. t.seen \in Versions /\ CalledAt(w, t)
  BY <1>1, <1>3, AtIs
<1>5. /\ docs'[s] = Produced(docs[s], c, t.seen, t.of, k)
      /\ \A u \in Sections : u # s => docs'[u] = docs[u]
  BY <1>1, <1>2, CommitIs
<1>6. /\ t.seen <= wanted[s] /\ (full /\ c \in Producers => t.seen = wanted[s])
      /\ (c = "EXPRESSION_CRITIC" => t.of = docs[s].by)
  BY <1>1, <1>2, <1>4 DEF CalledAt
<1>7. UNCHANGED <<full, copies, asked, wanted, crashes>>
  BY <1>2
<1> QED
  BY <1>1, <1>2, <1>3, <1>4, <1>5, <1>6, <1>7, PassCalm

\* The chain is blocked.
LEMMA RefuseCalm ==
    ASSUME Typed, Typed', Calm, NEW w \in Writers, NEW k \in Gens, Refuse(w, k)
    PROVE  Calm'
<1>1. PICK t : t = tasks[<<w, k>>]
  OBVIOUS
<1>2. PICK r : r = Blocked(t.row)
  OBVIOUS
<1>3. /\ t.pc \in {"await", "repair", "recheck"} /\ Move(w, k, r)
      /\ UNCHANGED <<full, copies, asked, docs, changed, wanted, crashes, faults>>
  BY <1>1, <1>2 DEF Refuse
<1>4. tasks[<<w, k>>].pc \in Drafting
  BY <1>1, <1>3 DEF Drafting
<1>5. /\ t.row \in Rows /\ t.row.status = "RUNNING" /\ InSection(t.row, Mine(w))
      /\ t.row.repair = rows[w].repair /\ t.row.results = rows[w].results
      /\ \A u \in Sections : Author(u) = w => Agree(t.row, docs[u], u, wanted[u])
      /\ \A u \in Sections, p \in Repairable : t.row.override[u][p] <= wanted[u]
  BY <1>1, <1>4, AtIs, SectionsAre
<1>6. Movable(r, w)
  BY <1>2, <1>5, PassMoves
<1>7. r.repair = t.row.repair /\ r.results = t.row.results /\ r.phase = t.row.phase
      /\ r.override = t.row.override
  BY <1>2, <1>5 DEF Blocked, Rows
<1>8. \A u \in Sections : Author(u) = w => Agree(r, docs'[u], u, wanted[u])
  BY <1>3, <1>5, <1>7, AgreeIs
<1>9. /\ UNCHANGED <<full, copies, asked, wanted, crashes>>
      /\ \A u \in Sections : Author(u) # w => docs'[u] = docs[u]
      /\ \A u \in Sections, p \in Repairable : r.override[u][p] <= wanted[u]
      /\ r.repair = rows[w].repair /\ rows[w].results \subseteq r.results
  BY <1>3, <1>5, <1>7
<1> QED
  BY <1>3, <1>4, <1>6, <1>8, <1>9, Moves

\* A step of a task that is at a section.
LEMMA WriteCalm ==
    ASSUME Typed, Typed', Calm, NEW w \in Writers, NEW k \in Gens, Write(w, k)
    PROVE  Calm'
BY AskCalm, AnswerCalm, ReviseCalm, RepairCalm, RecheckCalm, RefuseCalm DEF Write

\* What the row and the texts of a section say, if the row is to be believed.
LEMMA KnownIs ==
    ASSUME Calm, rows[Main].status # "BLOCKED", NEW s \in Sections, ~Stale(s)
    PROVE  Agree(rows[Author(s)], docs[s], s, wanted[s])
<1>1. /\ Written(rows[Author(s)], docs[s], s)
      /\ full => Current(rows[Author(s)], docs[s], s, wanted[s])
  BY DEF Calm, Known
<1>2. \A n \in {docs[s].BLUEPRINT, docs[s].CONTENT, docs[s].candidate} : n <= wanted[s]
  BY DEF Calm, Bounded
<1>3. crashes = 0 /\ rows[Author(s)].phase[s] \notin Late => ~Settled(docs[s], wanted[s])
  BY DEF Calm, Unaccepted, Open, Accepted, Settled, Late
<1> QED
  BY <1>1, <1>2, <1>3 DEF Agree

\* Going on to the next section leaves row and texts in agreement.
LEMMA OnwardAgrees ==
    ASSUME NEW r \in Rows, NEW w \in Writers, NEW q, q = Onward(r, Mine(w)), NEW s \in Sections,
           NEW d, NEW v, Agree(r, d, s, v)
    PROVE  Agree(q, d, s, v)
<1>1. /\ \A x : Written(r, x, s) => Written(q, x, s)
      /\ \A x, n : Current(r, x, s, n) => Current(q, x, s, n)
      /\ q.phase[s] \in Late <=> r.phase[s] \in Late
  BY OnwardKeeps
<1> QED
  BY <1>1 DEF Agree

\* The serial chain starts.
LEMMA StartSerialCalm ==
    ASSUME Typed, Typed', Calm, StartSerial
    PROVE  Calm'
<1>1. PICK r : r = Onward(rows[Main], Mine(Main))
  OBVIOUS
<1>2. /\ ~full /\ cur = 0 /\ asked = "NO" /\ ~gate /\ rows[Main].status = "RUNNING"
      /\ plan.step = "WRITE" /\ MoveMain(1, r)
      /\ UNCHANGED <<full, copies, asked, docs, changed, wanted, crashes, faults>>
  BY <1>1, WritersAre DEF StartSerial, At
<1>3. rows[Main] \in Rows /\ Main \in Writers
  BY WritersAre DEF Typed, TypeOK
<1>4. /\ r \in Rows /\ r.status = "RUNNING" /\ r.repair = rows[Main].repair
      /\ r.override = rows[Main].override /\ rows[Main].results \subseteq r.results
      /\ Todo(r, Mine(Main)) = {} \/ InSection(r, Mine(Main))
  BY <1>1, <1>2, <1>3, OnwardIs
<1>5. Movable(r, Main)
  BY <1>4 DEF Movable
<1>6. \A s \in Sections : Agree(r, docs'[s], s, wanted[s])
  <2> SUFFICES ASSUME NEW s \in Sections PROVE Agree(r, docs[s], s, wanted[s])
    BY <1>2
  <2>1. ~Stale(s) /\ Author(s) = Main
    BY <1>2 DEF Stale, Author
  <2>2. Agree(rows[Main], docs[s], s, wanted[s])
    BY <1>2, <2>1, KnownIs
  <2> QED
    BY <1>1, <1>3, <2>2, OnwardAgrees
<1>7. r.repair # {} => Sections \subseteq r.results \cup r.repair
  BY <1>2, <1>4 DEF Calm, Mending
<1>8. \A s \in Sections, p \in Repairable : r.override[s][p] <= wanted[s]
  BY <1>3, <1>4 DEF Calm, Bounded
<1>9. 1 \in Gens /\ cur \in {0, 1} /\ UNCHANGED <<full, copies, asked, wanted, crashes>>
  BY <1>2, Constants
<1> QED
  BY <1>2, <1>5, <1>6, <1>7, <1>8, <1>9, MainMoves

\* The groups are started: a section is then stale only while its repair waits.
LEMMA StartGroupsCalm ==
    ASSUME Typed, Typed', Calm, StartGroups
    PROVE  Calm'
<1>1. PICK k \in Gens :
          /\ cur' = k
          /\ plan' = [plan EXCEPT !.children = Groups]
          /\ copies' = [copies EXCEPT ![k] = [row |-> rows[Main], plan |-> plan']]
          /\ tasks' = [t \in Slots |-> IF t[1] \in Groups /\ t[2] = k
                                       THEN Task("fresh", NewRow) ELSE tasks[t]]
  BY DEF StartGroups
<1>2. /\ full /\ cur = 0 /\ asked = "NO" /\ ~gate /\ rows[Main].status = "RUNNING"
      /\ plan.step = "WRITE"
      /\ rows' = [w \in Writers |-> IF w \in Groups \ plan.children THEN NewRow ELSE rows[w]]
      /\ UNCHANGED <<full, gate, asked, docs, changed, wanted, crashes, faults>>
  BY DEF StartGroups, At
<1>3. /\ rows'[Main] = rows[Main]
      /\ \A g \in Groups : rows'[g] = IF g \in plan.children THEN rows[g] ELSE NewRow
      /\ \A w \in Writers : rows'[w] \in {rows[w], NewRow}
  BY <1>2, WritersAre
<1>4. \A w \in Writers, j \in Gens : tasks[<<w, j>>].pc = "off"
  BY <1>2, NoTasks
<1>5. Task("fresh", NewRow).pc = "fresh"
  BY NewRows, TaskIs
<1>6. \A w \in Writers, j \in Gens :
         tasks'[<<w, j>>].pc = IF w \in Groups /\ j = k THEN "fresh" ELSE "off"
  BY <1>1, <1>4, <1>5 DEF Slots
<1>7. /\ plan'.children = Groups /\ plan'.step = "WRITE"
      /\ copies'[k] = [row |-> rows'[Main], plan |-> plan']
  BY <1>1, <1>2, <1>3 DEF Typed, TypeOK, Plans
<1>8. k # 0
  BY Constants
<1>9. Alone' /\ Saved'
  <2>1. Alone'
    BY <1>1, <1>2, <1>6, WritersAre DEF Alone
  <2>2. \A w \in Writers, j \in Gens : tasks'[<<w, j>>].pc \notin Drafting \cup {"done"}
    BY <1>6 DEF Drafting
  <2> QED
    BY <2>1, <2>2 DEF Saved, SavedAt
<1>10. Called'
  <2>1. \A w \in Writers, j \in Gens : tasks'[<<w, j>>].pc \in {"fresh", "off"}
    BY <1>6
  <2>2. ASSUME NEW w \in Writers, NEW j \in Gens PROVE CalledAt(w, tasks[<<w, j>>])'
    BY <2>1 DEF CalledAt
  <2> QED
    BY <2>2 DEF Called
<1>11. Stages'
  <2>1. \A g \in Groups : tasks'[<<g, cur'>>].pc # "off"
    BY <1>1, <1>6, WritersAre
  <2> QED
    BY <1>1, <1>2, <1>3, <1>7, <2>1 DEF Stages
<1>12. NewRow.repair = {} /\ NewRow.results = {}
       /\ (\A s \in Sections : NewRow.phase[s] = "ABSENT")
       /\ (\A s \in Sections, p \in Repairable : NewRow.override[s][p] = 0)
  BY DEF NewRow
<1>13. Mending'
  BY <1>2, <1>3, <1>12 DEF Calm, Mending
<1>14. Bounded'
  <2>1. \A s \in Sections : wanted[s] \in Nat
    BY Constants DEF Typed, TypeOK, Versions
  <2>2. ASSUME NEW w \in Writers, NEW s \in Sections, NEW p \in Repairable
        PROVE  rows'[w].override[s][p] <= wanted[s]
    <3>1. CASE rows'[w] = rows[w]
      BY <3>1 DEF Calm, Bounded
    <3>2. CASE rows'[w] = NewRow
      BY <1>12, <2>1, <3>2
    <3> QED
      BY <1>3, <3>1, <3>2
  <2>3. \A s \in Sections : \A n \in {docs[s].BLUEPRINT, docs[s].CONTENT, docs[s].candidate} :
           n <= wanted[s]
    BY DEF Calm, Bounded
  <2> QED
    BY <1>2, <2>2, <2>3 DEF Bounded
<1>15. \A s \in Sections : /\ Stale(s)' <=> s \in rows[Main].repair
                           /\ Owner[s] \in Groups
  <2> TAKE s \in Sections
  <2>1. Owner[s] \in Groups /\ Owner[s] \in Writers
    BY WritersAre
  <2>2. tasks'[<<Owner[s], cur'>>].pc = "fresh"
    BY <1>1, <1>6, <2>1
  <2> QED
    BY <1>2, <1>3, <1>7, <2>1, <2>2 DEF Stale
<1>16. \A s \in Sections : Stale(s) <=> Owner[s] \notin plan.children \/ s \in rows[Main].repair
  BY <1>2 DEF Stale
<1>17. Known'
  <2> SUFFICES ASSUME NEW s \in Sections, s \notin rows[Main].repair
               PROVE  /\ Written(rows'[Owner[s]], docs[s], s)
                      /\ Current(rows'[Owner[s]], docs[s], s, wanted[s])
    BY <1>2, <1>15 DEF Known, Author
  <2>1. CASE Owner[s] \in plan.children
    <3>1. ~Stale(s) /\ rows'[Owner[s]] = rows[Owner[s]]
      BY <1>3, <1>15, <1>16, <2>1
    <3> QED
      BY <1>2, <3>1 DEF Calm, Known, Author
  <2>2. CASE Owner[s] \notin plan.children
    <3>1. rows'[Owner[s]] = NewRow
      BY <1>3, <1>15, <2>2
    <3> QED
      BY <1>12, <3>1 DEF Written, Current
  <2> QED
    BY <2>1, <2>2
<1>18. Unaccepted'
  <2> SUFFICES ASSUME crashes = 0, NEW s \in Sections, Open(s)' PROVE ~Accepted(s)
    BY <1>2 DEF Unaccepted, Accepted
  <2>1. Open(s)
    <3>1. CASE Stale(s)
      BY <3>1 DEF Open
    <3>2. CASE ~Stale(s)
      <4>1. ~Stale(s)' /\ rows'[Owner[s]] = rows[Owner[s]]
        BY <1>3, <1>15, <1>16, <3>2
      <4> QED
        BY <1>2, <4>1 DEF Open, Author
    <3> QED
      BY <3>1, <3>2
  <2> QED
    BY <1>2, <2>1 DEF Calm, Unaccepted
<1>19. Final'
  BY <1>2, <1>3 DEF Final, Finished
<1> QED
  BY <1>9, <1>10, <1>11, <1>13, <1>14, <1>17, <1>18, <1>19 DEF Calm

\* The task of a group begins: what was stale of its sections is dropped.
LEMMA BeginGroupCalm ==
    ASSUME Typed, Typed', Calm, NEW g \in Groups, NEW k \in Gens, BeginGroup(g, k)
    PROVE  Calm'
<1>1. g \in Writers /\ g # Main /\ Main \in Writers /\ tasks[<<g, k>>].pc = "fresh"
  BY WritersAre DEF BeginGroup
<1>2. full /\ k = cur /\ cur # 0
  BY <1>1, Constants DEF Calm, Alone
<1>3. /\ rows[Main].status = "RUNNING" /\ plan.children = Groups
      /\ copies[k] = [row |-> rows[Main], plan |-> plan]
  BY <1>2 DEF Calm, Stages
<1>4. PICK A0 : A0 = rows[Main].repair
  OBVIOUS
<1>5. PICK r : r = ResetForRepair(rows[g], Mine(g), A0)
  OBVIOUS
<1>6. PICK q : q = Onward([r EXCEPT !.status = "RUNNING"], Mine(g))
  OBVIOUS
<1>7. /\ UNCHANGED <<full, copies, asked, docs, changed, wanted, crashes, faults>>
      /\ IF r.status = "COMPLETED" /\ Mine(g) \subseteq r.results
         THEN /\ tasks' = [tasks EXCEPT ![<<g, k>>] = IF k = cur THEN Task("done", r) ELSE NoTask]
              /\ UNCHANGED <<rows, plan, gate, cur>>
         ELSE MoveGroup(g, k, q, TRUE)
  <2>1. copies[k].row.repair = A0
    BY <1>3, <1>4
  <2>2. r = ResetForRepair(rows[g], Mine(g), copies[k].row.repair)
    BY <1>5, <2>1
  <2> QED
    BY <1>6, <2>2 DEF BeginGroup
<1>8. rows[g] \in Rows /\ Mine(g) \subseteq Sections
  BY <1>1, WritersAre DEF Typed, TypeOK
<1>9. PICK A : A = Mine(g) \cap A0
  OBVIOUS
<1>10. A \subseteq Sections
  BY <1>8, <1>9
<1>11. /\ r \in Rows
       /\ A = {} => r = rows[g]
       /\ A # {} => r.status = "RUNNING" /\ r.repair = A
       /\ \A s \in Sections : s \in A =>
             /\ s \notin r.results /\ r.phase[s] = "ABSENT"
             /\ \A p \in Repairable : r.override[s][p] = 0
       /\ \A s \in Sections : s \notin A =>
             /\ s \in r.results <=> s \in rows[g].results
             /\ r.phase[s] = rows[g].phase[s] /\ r.override[s] = rows[g].override[s]
  <2>1. r \in Rows /\ Dropped(rows[g], r, A)
    BY <1>5, <1>8, <1>9, ResetIs
  <2> QED
    BY <1>10, <2>1 DEF Dropped
<1>13. r.repair \subseteq Mine(g)
  <2>1. rows[g].repair \subseteq Mine(g)
    BY <1>2 DEF Calm, Mending
  <2> QED
    BY <1>9, <1>11, <2>1
<1>14. \A s \in Sections : wanted[s] \in Nat
  BY Constants DEF Typed, TypeOK, Versions
<1>15. \A s \in Sections, p \in Repairable : r.override[s][p] <= wanted[s]
  <2>1. \A s \in Sections, p \in Repairable : rows[g].override[s][p] <= wanted[s]
    BY <1>1 DEF Calm, Bounded
  <2> QED
    BY <1>11, <1>14, <2>1
<1>16. ASSUME NEW s \in Sections, Owner[s] = g PROVE Agree(r, docs[s], s, wanted[s])
  <2>1. s \in A <=> Stale(s)
    BY <1>1, <1>2, <1>3, <1>4, <1>9, <1>16, WritersAre DEF Stale
  <2>2. CASE s \in A
    <3>1. \A n \in {docs[s].BLUEPRINT, docs[s].CONTENT, docs[s].candidate} : n <= wanted[s]
      BY DEF Calm, Bounded
    <3>2. crashes = 0 => ~Settled(docs[s], wanted[s])
      BY <1>3, <2>1, <2>2 DEF Calm, Unaccepted, Open, Accepted, Settled
    <3>3. Written(r, docs[s], s) /\ Current(r, docs[s], s, wanted[s])
      BY <1>11, <2>2 DEF Written, Current
    <3> QED
      BY <3>1, <3>2, <3>3 DEF Agree
  <2>3. CASE s \notin A
    <3>1. Agree(rows[g], docs[s], s, wanted[s])
      BY <1>2, <1>3, <1>16, <2>1, <2>3, KnownIs DEF Author
    <3>2. /\ s \in r.results <=> s \in rows[g].results
          /\ r.phase[s] = rows[g].phase[s] /\ r.override[s] = rows[g].override[s]
      BY <1>11, <2>3
    <3> QED
      BY <3>1, <3>2 DEF Agree, Written, Current
  <2> QED
    BY <2>2, <2>3
<1>17. CASE r.status = "COMPLETED" /\ Mine(g) \subseteq r.results
  <2>1. r = rows[g]
    BY <1>11, <1>17
  <2>2. PICK x : x = Task("done", r)
    OBVIOUS
  <2>3. x \in Tasks /\ x.pc = "done" /\ x.row = r
    BY <1>11, <2>2, TaskIs
  <2>4. /\ tasks' = [tasks EXCEPT ![<<g, k>>] = x]
        /\ UNCHANGED <<full, plan, gate, copies, cur, asked, wanted, crashes>>
        /\ UNCHANGED <<rows, docs>>
    BY <1>2, <1>7, <1>17, <2>2
  <2>5. rows' = [rows EXCEPT ![g] = r]
    BY <2>1, <2>4 DEF Typed, TypeOK
  <2>6. Same(r, x.row) /\ CalledAt(g, x)' /\ x.pc \notin {"off", "fresh"}
    BY <2>3 DEF Same, CalledAt
  <2>7. /\ \A s \in Sections : Owner[s] # g => docs'[s] = docs[s]
        /\ \A s \in Sections : Owner[s] = g => Agree(r, docs'[s], s, wanted[s])
    BY <1>16, <2>4
  <2> QED
    BY <1>2, <1>11, <1>13, <1>15, <2>3, <2>4, <2>5, <2>6, <2>7, GroupStep
<1>18. CASE ~(r.status = "COMPLETED" /\ Mine(g) \subseteq r.results)
  <2>1. MoveGroup(g, k, q, TRUE)
    BY <1>7, <1>18
  <2>2. Movable(q, g) /\ q.repair = r.repair /\ q.override = r.override
    BY <1>5, <1>6, <1>8, BeginIs
  <2>3. PICK m : m = [r EXCEPT !.status = "RUNNING"]
    OBVIOUS
  <2>4. m \in Rows /\ m.results = r.results /\ m.phase = r.phase /\ m.override = r.override
    BY <1>11, <2>3 DEF Rows
  <2>5. q = Onward(m, Mine(g))
    BY <1>6, <2>3
  <2>6. ASSUME NEW s \in Sections, Owner[s] = g PROVE Agree(q, docs'[s], s, wanted[s])
    <3>1. Agree(m, docs[s], s, wanted[s])
      BY <1>16, <2>4, <2>6, AgreeIs
    <3>2. docs'[s] = docs[s]
      BY <1>7
    <3>3. Agree(q, docs[s], s, wanted[s])
      BY <1>1, <2>4, <2>5, <3>1, OnwardAgrees
    <3> QED
      BY <3>2, <3>3
  <2>7. /\ UNCHANGED <<full, copies, asked, wanted, crashes>>
        /\ \A s \in Sections : Owner[s] # g => docs'[s] = docs[s]
        /\ q.repair \subseteq Mine(g)
        /\ \A s \in Sections, p \in Repairable : q.override[s][p] <= wanted[s]
    BY <1>7, <1>13, <1>15, <2>2
  <2> QED
    BY <1>2, <2>1, <2>2, <2>6, <2>7, GroupMoves
<1> QED
  BY <1>17, <1>18

\* The groups are gathered: no section is stale any more, unless the parent blocks.
LEMMA GatherCalm ==
    ASSUME Typed, Typed', Calm, Gather
    PROVE  Calm'
<1>1. /\ full /\ cur # 0 /\ Gathered /\ cur' = 0
      /\ tasks' = [t \in Slots |-> IF t[2] = cur THEN NoTask ELSE tasks[t]]
      /\ UNCHANGED <<full, asked, docs, changed, wanted, crashes, faults>>
  BY GatherIs
<1>2. /\ asked = "NO" /\ ~gate /\ rows[Main].status = "RUNNING" /\ plan.step = "WRITE"
      /\ copies[cur].row = rows[Main] /\ copies[cur].plan = plan /\ plan.children = Groups
  BY <1>1 DEF Calm, Stages
<1>3. PICK r \in Rows :
         /\ r.status = rows[Main].status /\ r.override = rows[Main].override
         /\ \/ /\ rows' = [rows EXCEPT ![Main] = WrittenRow(r, plan)]
               /\ plan' = WrittenPlan(plan) /\ gate' = (gate \/ ~plan.skip)
            \/ /\ rows' = [rows EXCEPT ![Main] = Blocked(rows[Main])]
               /\ plan' = plan /\ UNCHANGED gate
  BY <1>2, GatherIs
<1>4. Main \in Writers /\ rows \in [Writers -> Rows] /\ plan \in Plans /\ rows[Main] \in Rows
  BY WritersAre DEF Typed, TypeOK
<1>5. \A w \in Writers : w # Main => rows'[w] = rows[w]
  BY <1>3, <1>4
<1>6. PICK e : e = rows'[Main]
  OBVIOUS
<1>7. /\ e.override = rows[Main].override
      /\ \/ /\ e.status = (IF plan.skip THEN "RUNNING" ELSE "WAITING_GATE") /\ e.repair = {}
            /\ plan'.step = "REVIEW" /\ plan'.children = Groups /\ gate' = ~plan.skip
         \/ /\ e.status = "BLOCKED" /\ e.repair = rows[Main].repair
            /\ plan' = plan /\ ~gate'
  <2>1. CASE /\ rows' = [rows EXCEPT ![Main] = WrittenRow(r, plan)]
             /\ plan' = WrittenPlan(plan) /\ gate' = (gate \/ ~plan.skip)
    <3>1. e = WrittenRow(r, plan)
      BY <1>4, <1>6, <2>1
    <3>2. gate' = ~plan.skip
      BY <1>2, <2>1 DEF Typed, TypeOK, Plans
    <3>3. /\ e.override = r.override /\ e.repair = {}
          /\ e.status = IF plan.skip THEN "RUNNING" ELSE "WAITING_GATE"
      BY <1>3, <3>1 DEF WrittenRow, Rows
    <3>4. plan'.step = "REVIEW" /\ plan'.children = plan.children
      BY <1>4, <2>1 DEF WrittenPlan, Plans
    <3> QED
      BY <1>2, <1>3, <3>2, <3>3, <3>4
  <2>2. CASE /\ rows' = [rows EXCEPT ![Main] = Blocked(rows[Main])]
             /\ plan' = plan /\ UNCHANGED gate
    <3>1. e = Blocked(rows[Main])
      BY <1>4, <1>6, <2>2
    <3> QED
      BY <1>2, <1>4, <2>2, <3>1 DEF Blocked, Rows
  <2> QED
    BY <1>3, <2>1, <2>2
<1>8. \A w \in Writers, j \in Gens : tasks'[<<w, j>>].pc = "off"
  <2> SUFFICES ASSUME NEW w \in Writers, NEW j \in Gens PROVE tasks'[<<w, j>>].pc = "off"
    OBVIOUS
  <2>1. tasks'[<<w, j>>] = IF j = cur THEN NoTask ELSE tasks[<<w, j>>]
    BY <1>1 DEF Slots
  <2> QED
    BY <2>1, TaskIs DEF Calm, Alone
<1>9. Alone' /\ Saved' /\ Called'
  BY <1>8, QuietIs
<1>10. Stages'
  BY <1>1, <1>2, <1>6, <1>7 DEF Stages
<1>11. Mending'
  BY <1>1, <1>5, WritersAre DEF Calm, Mending
<1>12. Bounded'
  <2>1. \A w \in Writers : rows'[w].override = rows[w].override
    BY <1>5, <1>6, <1>7
  <2> QED
    BY <1>1, <2>1 DEF Calm, Bounded
<1>13. \A s \in Sections : ~Stale(s)' => ~Stale(s)
  BY <1>1, <1>2, <1>6, <1>7, WritersAre DEF Stale, Gathered
<1>14. Known'
  BY <1>1, <1>5, <1>13, WritersAre DEF Calm, Known, Author
<1>15. Unaccepted'
  <2> SUFFICES ASSUME crashes = 0, rows'[Main].status # "BLOCKED", NEW s \in Sections, Open(s)'
               PROVE  ~Accepted(s)
    BY <1>1 DEF Unaccepted, Accepted
  <2>1. ~Stale(s)'
    BY <1>6, <1>7, WritersAre DEF Stale
  <2>2. Open(s)
    BY <1>1, <1>5, <2>1, WritersAre DEF Open, Author
  <2> QED
    BY <1>2, <2>2 DEF Calm, Unaccepted
<1>16. Final'
  BY <1>1, <1>2, <1>6, <1>7 DEF Final, Finished
<1> QED
  BY <1>9, <1>10, <1>11, <1>12, <1>14, <1>15, <1>16 DEF Calm

\* A step on the parent's row while nobody writes, that leaves its sections alone.
LEMMA RestIs ==
    ASSUME Typed, Calm, cur = 0, NEW e \in Rows, rows' = [rows EXCEPT ![Main] = e],
           e.results = rows[Main].results, e.phase = rows[Main].phase,
           e.override = rows[Main].override, e.repair = rows[Main].repair,
           e.status = "BLOCKED" \/ rows[Main].status # "BLOCKED",
           plan'.children = plan.children,
           plan'.step \in {"REVIEW", "END"} => plan.step \in {"REVIEW", "END"},
           UNCHANGED <<full, tasks, cur, docs, wanted, crashes>>
    PROVE  Alone' /\ Saved' /\ Called' /\ Mending' /\ Bounded' /\ Known' /\ Unaccepted'
<1>1. Main \in Writers /\ rows \in [Writers -> Rows]
  BY WritersAre DEF Typed, TypeOK
<1>2. rows'[Main] = e /\ \A w \in Writers : w # Main => rows'[w] = rows[w]
  BY <1>1
<1>3. \A w \in Writers : /\ rows'[w].results = rows[w].results /\ rows'[w].phase = rows[w].phase
                         /\ rows'[w].override = rows[w].override
                         /\ rows'[w].repair = rows[w].repair
  BY <1>1, <1>2
<1>4. Alone' /\ Saved' /\ Called'
  <2>1. \A w \in Writers, k \in Gens : tasks'[<<w, k>>].pc = "off"
    BY NoTasks
  <2> QED
    BY <2>1, QuietIs
<1>5. Mending'
  BY <1>1, <1>3, WritersAre DEF Calm, Mending
<1>6. Bounded'
  BY <1>3 DEF Calm, Bounded
<1>7. \A s \in Sections : Author(s)' = Author(s) /\ Author(s) \in Writers
  BY <1>1, WritersAre DEF Author
<1>8. \A s \in Sections : Stale(s)' <=> Stale(s)
  BY <1>1, <1>3 DEF Stale
<1>9. Known'
  <2> SUFFICES ASSUME NEW s \in Sections, ~Stale(s)
               PROVE  /\ Written(rows'[Author(s)], docs[s], s)
                      /\ full => Current(rows'[Author(s)], docs[s], s, wanted[s])
    BY <1>7, <1>8 DEF Known
  <2>1. /\ Written(rows[Author(s)], docs[s], s)
        /\ full => Current(rows[Author(s)], docs[s], s, wanted[s])
    BY DEF Calm, Known
  <2> QED
    BY <1>3, <1>7, <2>1 DEF Written, Current
<1>10. Unaccepted'
  <2> SUFFICES ASSUME crashes = 0, rows'[Main].status # "BLOCKED", NEW s \in Sections, Open(s)'
               PROVE  ~Accepted(s)
    BY DEF Unaccepted, Accepted
  <2>1. Open(s)
    BY <1>3, <1>7, <1>8 DEF Open
  <2> QED
    BY <1>2, <2>1 DEF Calm, Unaccepted
<1> QED
  BY <1>4, <1>5, <1>6, <1>9, <1>10

\* Rows with another status.
LEMMA StatusIs ==
    ASSUME NEW r \in Rows, NEW v \in {"RUNNING", "WAITING_GATE", "BLOCKED", "COMPLETED"},
           NEW e, e = [r EXCEPT !.status = v]
    PROVE  /\ e \in Rows /\ e.status = v /\ e.results = r.results /\ e.phase = r.phase
           /\ e.override = r.override /\ e.repair = r.repair
BY DEF Rows

\* The steps before the writing.
LEMMA UpstreamCalm == Typed /\ Calm /\ Upstream => Calm'
<1> SUFFICES ASSUME Typed, Calm, Upstream PROVE Calm'
  OBVIOUS
<1>1. /\ cur = 0 /\ asked = "NO" /\ ~gate /\ rows[Main].status = "RUNNING"
      /\ plan.step \in {"ARGUE", "PLAN"}
      /\ UNCHANGED <<full, gate, copies, tasks, cur, asked, docs, changed, wanted, crashes, faults>>
  BY DEF Upstream, At
<1>2. Main \in Writers /\ rows \in [Writers -> Rows] /\ rows[Main] \in Rows /\ plan \in Plans
  BY WritersAre DEF Typed, TypeOK
<1>3. rows[Main].repair = {}
  BY <1>1 DEF Calm, Stages
<1>4. \E e \in Rows :
         /\ rows' = [rows EXCEPT ![Main] = e]
         /\ e.results = rows[Main].results /\ e.phase = rows[Main].phase
         /\ e.override = rows[Main].override /\ e.repair = rows[Main].repair
         /\ e.status \in {"RUNNING", "BLOCKED"}
         /\ plan'.children = plan.children /\ plan'.step \in {"ARGUE", "PLAN", "WRITE"}
  <2>1. CASE plan' = [plan EXCEPT !.step = IF @ = "ARGUE" THEN "PLAN" ELSE "WRITE"] /\ UNCHANGED rows
    <3>1. rows' = [rows EXCEPT ![Main] = rows[Main]]
      BY <1>2, <2>1
    <3>2. plan'.children = plan.children /\ plan'.step \in {"ARGUE", "PLAN", "WRITE"}
      BY <1>2, <2>1 DEF Plans
    <3> QED
      BY <1>1, <1>2, <3>1, <3>2
  <2>2. CASE rows' = [rows EXCEPT ![Main] = Blocked(@)] /\ UNCHANGED plan
    <3>1. PICK e : e = Blocked(rows[Main])
      OBVIOUS
    <3>2. /\ e \in Rows /\ e.status = "BLOCKED" /\ e.results = rows[Main].results
          /\ e.phase = rows[Main].phase /\ e.override = rows[Main].override
          /\ e.repair = rows[Main].repair
      BY <1>2, <3>1, StatusIs DEF Blocked
    <3>3. rows' = [rows EXCEPT ![Main] = e]
      BY <2>2, <3>1
    <3> QED
      BY <1>1, <2>2, <3>2, <3>3
  <2> QED
    BY <2>1, <2>2 DEF Upstream
<1>5. PICK e \in Rows :
         /\ rows' = [rows EXCEPT ![Main] = e]
         /\ e.results = rows[Main].results /\ e.phase = rows[Main].phase
         /\ e.override = rows[Main].override /\ e.repair = rows[Main].repair
         /\ e.status \in {"RUNNING", "BLOCKED"}
         /\ plan'.children = plan.children /\ plan'.step \in {"ARGUE", "PLAN", "WRITE"}
  BY <1>4
<1>6. rows'[Main] = e
  BY <1>2, <1>5
<1>7. Alone' /\ Saved' /\ Called' /\ Mending' /\ Bounded' /\ Known' /\ Unaccepted'
  <2>1. UNCHANGED <<full, tasks, cur, docs, wanted, crashes>>
    BY <1>1
  <2>2. /\ e.status = "BLOCKED" \/ rows[Main].status # "BLOCKED"
        /\ plan'.step \in {"REVIEW", "END"} => plan.step \in {"REVIEW", "END"}
    BY <1>1, <1>5
  <2> QED
    BY <1>1, <1>5, <2>1, <2>2, RestIs
<1>8. Stages'
  BY <1>1, <1>3, <1>5, <1>6 DEF Stages
<1>9. Final'
  BY <1>1, <1>5, <1>6 DEF Final, Finished
<1> QED
  BY <1>7, <1>8, <1>9 DEF Calm

\* An advance never finds a gate open on a running parent.
LEMMA ParkCalm == Typed /\ Calm /\ Park => Calm'
BY DEF Park, Calm, Stages

\* A gate is decided.
LEMMA DecideCalm == Typed /\ Calm /\ Decide => Calm'
<1> SUFFICES ASSUME Typed, Calm, Decide PROVE Calm'
  OBVIOUS
<1>1. PICK v \in {"RUNNING", "BLOCKED"} : rows' = [rows EXCEPT ![Main].status = v]
  BY DEF Decide
<1>2. /\ gate /\ ~gate'
      /\ UNCHANGED <<full, plan, copies, tasks, cur, asked, docs, changed, wanted, crashes, faults>>
  BY DEF Decide
<1>3. Main \in Writers /\ rows \in [Writers -> Rows] /\ rows[Main] \in Rows /\ cur \in {0} \cup Gens
  BY WritersAre DEF Typed, TypeOK
<1>4. cur = 0 /\ asked = "NO" /\ rows[Main].status = "WAITING_GATE"
  BY <1>2 DEF Calm, Stages
<1>5. PICK e : e = [rows[Main] EXCEPT !.status = v]
  OBVIOUS
<1>6. /\ e \in Rows /\ e.status = v /\ e.results = rows[Main].results
      /\ e.phase = rows[Main].phase /\ e.override = rows[Main].override
      /\ e.repair = rows[Main].repair
  BY <1>3, <1>5, StatusIs
<1>7. rows' = [rows EXCEPT ![Main] = e] /\ rows'[Main] = e
  BY <1>1, <1>3, <1>5
<1>8. Alone' /\ Saved' /\ Called' /\ Mending' /\ Bounded' /\ Known' /\ Unaccepted'
  <2>1. UNCHANGED <<full, tasks, cur, docs, wanted, crashes>>
    BY <1>2
  <2>2. /\ e.status = "BLOCKED" \/ rows[Main].status # "BLOCKED"
        /\ plan'.children = plan.children
        /\ plan'.step \in {"REVIEW", "END"} => plan.step \in {"REVIEW", "END"}
    BY <1>2, <1>4
  <2> QED
    BY <1>4, <1>6, <1>7, <2>1, <2>2, RestIs
<1>9. Stages'
  BY <1>2, <1>4, <1>6, <1>7 DEF Calm, Stages
<1>10. Final'
  BY <1>2, <1>4, <1>6, <1>7 DEF Final, Finished
<1> QED
  BY <1>8, <1>9, <1>10 DEF Calm

\* What is handed to the full-text critic is in its last form.
LEMMA SubmitCalm == Typed /\ Calm /\ Submit => Calm'
<1> SUFFICES ASSUME Typed, Calm, Submit PROVE Calm'
  OBVIOUS
<1>1. /\ cur = 0 /\ asked = "NO" /\ ~gate /\ rows[Main].status = "RUNNING" /\ plan.step = "REVIEW"
      /\ UNCHANGED <<full, plan, gate, tasks, cur, docs, wanted, crashes, faults>>
  BY DEF Submit, At
<1>2. Main \in Writers /\ rows \in [Writers -> Rows] /\ rows[Main] \in Rows
  BY WritersAre DEF Typed, TypeOK
<1>3. rows[Main].repair = {} /\ (full => plan.children = Groups)
  BY <1>1 DEF Calm, Stages
<1>4. \/ rows' = [rows EXCEPT ![Main] = Blocked(@)] /\ UNCHANGED <<copies, asked, changed>>
      \/ /\ full => Reviewable
         /\ copies' = [copies EXCEPT ![0] = [row |-> rows[Main], plan |-> plan]]
         /\ changed' = {} /\ UNCHANGED rows
  BY DEF Submit
<1>5. PICK e \in Rows :
         /\ rows' = [rows EXCEPT ![Main] = e]
         /\ e.results = rows[Main].results /\ e.phase = rows[Main].phase
         /\ e.override = rows[Main].override /\ e.repair = rows[Main].repair
         /\ e.status \in {"RUNNING", "BLOCKED"}
  <2>1. CASE rows' = [rows EXCEPT ![Main] = Blocked(@)]
    <3>1. PICK e : e = Blocked(rows[Main])
      OBVIOUS
    <3>2. /\ e \in Rows /\ e.status = "BLOCKED" /\ e.results = rows[Main].results
          /\ e.phase = rows[Main].phase /\ e.override = rows[Main].override
          /\ e.repair = rows[Main].repair
      BY <1>2, <3>1, StatusIs DEF Blocked
    <3> QED
      BY <2>1, <3>1, <3>2
  <2>2. CASE UNCHANGED rows
    <3>1. rows' = [rows EXCEPT ![Main] = rows[Main]]
      BY <1>2, <2>2
    <3> QED
      BY <1>1, <1>2, <3>1
  <2> QED
    BY <1>4, <2>1, <2>2
<1>6. rows'[Main] = e /\ (UNCHANGED rows => e = rows[Main])
  BY <1>2, <1>5
<1>7. Alone' /\ Saved' /\ Called' /\ Mending' /\ Bounded' /\ Known' /\ Unaccepted'
  <2>1. /\ UNCHANGED <<full, tasks, cur, docs, wanted, crashes>>
        /\ e.status = "BLOCKED" \/ rows[Main].status # "BLOCKED"
        /\ plan'.children = plan.children
        /\ plan'.step \in {"REVIEW", "END"} => plan.step \in {"REVIEW", "END"}
    BY <1>1
  <2> QED
    BY <1>1, <1>5, <2>1, RestIs
<1>8. Stages'
  <2>1. CASE asked' = "NO"
    BY <1>1, <1>3, <1>5, <1>6, <2>1 DEF Stages
  <2>2. CASE asked' # "NO"
    <3>1. copies' = [copies EXCEPT ![0] = [row |-> rows[Main], plan |-> plan]] /\ UNCHANGED rows
      BY <1>1, <1>4, <2>2
    <3>2. copies'[0] = [row |-> rows[Main], plan |-> plan]
      BY <3>1 DEF Typed, TypeOK
    <3> QED
      BY <1>1, <1>3, <3>1, <3>2 DEF Stages
  <2> QED
    BY <2>1, <2>2
<1>9. Final'
  <2>1. ~Finished'
    BY <1>5, <1>6 DEF Finished
  <2> SUFFICES ASSUME asked' # "NO" PROVE Final'
    BY <2>1 DEF Final
  <2>2. changed' = {} /\ (full => Reviewable)
    BY <1>1, <1>4
  <2>3. ASSUME NEW s \in Sections
        PROVE  /\ docs[s].kind = "POLISH" /\ docs[s].approved
               /\ full => docs[s].candidate = wanted[s]
    <3>1. ~Stale(s)
      BY <1>1, <1>3, WritersAre DEF Stale
    <3>2. CASE full
      <4>1. Owner[s] \in Groups /\ rows[Owner[s]].results = Mine(Owner[s]) /\ s \in Mine(Owner[s])
        BY <2>2, <3>2, WritersAre DEF Reviewable
      <4>2. /\ Written(rows[Owner[s]], docs[s], s)
            /\ Current(rows[Owner[s]], docs[s], s, wanted[s])
        BY <3>1, <3>2 DEF Calm, Known, Author
      <4>3. docs[s].candidate = wanted[s]
        BY <4>1, <4>2 DEF Written, Current
      <4>4. docs[s].kind = "POLISH" /\ docs[s].approved
        BY <2>2, <3>2 DEF Reviewable
      <4> QED
        BY <4>3, <4>4
    <3>3. CASE ~full
      <4>1. s \in rows[Main].results
        BY <1>1, <3>3 DEF Calm, Mending
      <4>2. Written(rows[Main], docs[s], s)
        BY <3>1, <3>3 DEF Calm, Known, Author
      <4> QED
        BY <3>3, <4>1, <4>2 DEF Written
    <3> QED
      BY <3>2, <3>3
  <2>4. UNCHANGED <<full, docs, wanted>>
    BY <1>1
  <2> QED
    BY <2>2, <2>3, <2>4 DEF Final
<1> QED
  BY <1>7, <1>8, <1>9 DEF Calm

\* A verdict that leaves every text as it is: passed, refused or put to a gate.
LEMMA VerdictCalm ==
    ASSUME Typed, Calm, asked # "NO", asked' = "NO",
           NEW v \in {"COMPLETED", "BLOCKED", "WAITING_GATE"},
           NEW e, e = [rows[Main] EXCEPT !.status = v], rows' = [rows EXCEPT ![Main] = e],
           plan'.children = plan.children, plan'.step \in {"REVIEW", "END"},
           gate' => v = "WAITING_GATE",
           UNCHANGED <<full, tasks, cur, changed, docs, wanted, crashes>>
    PROVE  Calm'
<1>1. Main \in Writers /\ rows \in [Writers -> Rows] /\ rows[Main] \in Rows
  BY WritersAre DEF Typed, TypeOK
<1>2. /\ cur = 0 /\ rows[Main].status = "RUNNING" /\ plan.step = "REVIEW"
      /\ rows[Main].repair = {} /\ (full => plan.children = Groups)
  BY DEF Calm, Stages
<1>3. /\ e \in Rows /\ e.status = v /\ e.results = rows[Main].results
      /\ e.phase = rows[Main].phase /\ e.override = rows[Main].override
      /\ e.repair = rows[Main].repair
  BY <1>1, StatusIs
<1>4. rows'[Main] = e
  BY <1>1
<1>5. Alone' /\ Saved' /\ Called' /\ Mending' /\ Bounded' /\ Known' /\ Unaccepted'
  <2>1. /\ e.status = "BLOCKED" \/ rows[Main].status # "BLOCKED"
        /\ plan'.step \in {"REVIEW", "END"} => plan.step \in {"REVIEW", "END"}
    BY <1>2
  <2> QED
    BY <1>2, <1>3, <2>1, RestIs
<1>6. Stages'
  BY <1>2, <1>3, <1>4 DEF Stages
<1>7. Final'
  BY DEF Calm, Final
<1> QED
  BY <1>5, <1>6, <1>7 DEF Calm

\* The critic sends the plan back: what was written is of an earlier demand.
LEMMA RevisionCalm ==
    ASSUME Typed, Typed', Calm, asked # "NO", asked' = "NO",
           NEW e, e = ScheduleRevision(rows[Main], full), rows' = [rows EXCEPT ![Main] = e],
           plan'.children = (IF full THEN {} ELSE plan.children), plan'.step \in {"ARGUE", "PLAN"},
           \A s \in Sections : wanted'[s] = wanted[s] + 1,
           docs' = IF full THEN [s \in Sections |-> NewDoc] ELSE docs,
           UNCHANGED <<full, gate, tasks, cur, changed, crashes>>
    PROVE  Calm'
<1>1. Main \in Writers /\ rows \in [Writers -> Rows] /\ rows[Main] \in Rows /\ full \in BOOLEAN
  BY WritersAre DEF Typed, TypeOK
<1>2. cur = 0 /\ ~gate /\ rows[Main].status = "RUNNING" /\ plan.step = "REVIEW"
  BY DEF Calm, Stages
<1>3. /\ e \in Rows /\ e.status = "RUNNING" /\ e.results = {} /\ e.repair = {}
      /\ e.override = rows[Main].override /\ (~full => e.phase = rows[Main].phase)
  BY <1>1, <1>2, ScheduleIs
<1>4. rows'[Main] = e /\ \A w \in Writers : w # Main => rows'[w] = rows[w]
  BY <1>1
<1>5. Alone' /\ Saved' /\ Called'
  <2>1. \A w \in Writers, k \in Gens : tasks'[<<w, k>>].pc = "off"
    BY <1>2, NoTasks
  <2> QED
    BY <2>1, QuietIs
<1>6. Stages'
  BY <1>2, <1>3, <1>4 DEF Stages
<1>7. Mending'
  BY <1>3, <1>4, WritersAre DEF Calm, Mending
<1>8. \A s \in Sections : wanted[s] \in Nat /\ wanted'[s] = wanted[s] + 1 /\ docs[s] \in Docs
  BY Constants DEF Typed, TypeOK, Versions
<1>9. \A s \in Sections :
         /\ docs'[s].BLUEPRINT <= wanted'[s] /\ docs'[s].CONTENT <= wanted'[s]
         /\ docs'[s].candidate < wanted'[s]
  <2> SUFFICES ASSUME NEW s \in Sections
               PROVE  /\ docs'[s].BLUEPRINT <= wanted'[s] /\ docs'[s].CONTENT <= wanted'[s]
                      /\ docs'[s].candidate < wanted'[s]
    OBVIOUS
  <2>1. CASE full
    BY <1>8, <2>1 DEF NewDoc
  <2>2. CASE ~full
    <3>1. /\ docs[s].BLUEPRINT <= wanted[s] /\ docs[s].CONTENT <= wanted[s]
          /\ docs[s].candidate <= wanted[s]
      BY DEF Calm, Bounded
    <3>2. docs[s].BLUEPRINT \in Nat /\ docs[s].CONTENT \in Nat /\ docs[s].candidate \in Nat
      BY <1>8, Constants DEF Docs, Versions
    <3> QED
      BY <1>8, <2>2, <3>1, <3>2
  <2> QED
    BY <2>1, <2>2
<1>10. Bounded'
  <2>1. ASSUME NEW w \in Writers, NEW s \in Sections, NEW p \in Repairable
        PROVE  rows'[w].override[s][p] <= wanted'[s]
    <3>1. rows'[w].override = rows[w].override
      BY <1>3, <1>4
    <3>2. rows[w].override[s][p] <= wanted[s] /\ rows[w].override[s][p] \in Nat
      <4>1. rows[w] \in Rows
        BY <1>1
      <4>2. rows[w].override \in [Sections -> [Repairable -> Versions]]
        BY <4>1, RowIs
      <4> QED
        BY <4>2, Constants DEF Calm, Bounded, Versions
    <3> QED
      BY <1>8, <3>1, <3>2
  <2>2. ASSUME NEW s \in Sections, NEW n \in {docs'[s].BLUEPRINT, docs'[s].CONTENT, docs'[s].candidate}
        PROVE  n <= wanted'[s]
    <3>1. docs'[s].candidate \in Nat
      BY Constants DEF Typed, TypeOK, Docs, Versions
    <3> QED
      BY <1>8, <1>9, <2>2, <3>1
  <2> QED
    BY <2>1, <2>2 DEF Bounded
<1>11. Known'
  <2>1. CASE full
    BY <2>1 DEF Known, Stale
  <2>2. CASE ~full
    <3> SUFFICES ASSUME NEW s \in Sections PROVE Written(e, docs[s], s)
      BY <1>4, <2>2 DEF Known, Author
    <3>1. Written(rows[Main], docs[s], s)
      BY <2>2 DEF Calm, Known, Author, Stale
    <3> QED
      BY <1>3, <2>2, <3>1 DEF Written
  <2> QED
    BY <2>1, <2>2
<1>12. Unaccepted'
  <2>1. ASSUME NEW s \in Sections PROVE docs'[s].candidate # wanted'[s]
    <3>1. docs'[s].candidate \in Nat /\ wanted'[s] \in Nat
      BY Constants DEF Typed, TypeOK, Docs, Versions
    <3> QED
      BY <1>9, <3>1
  <2> QED
    BY <2>1 DEF Unaccepted, Accepted
<1>13. Final'
  BY <1>3, <1>4 DEF Final, Finished
<1> QED
  BY <1>5, <1>6, <1>7, <1>10, <1>11, <1>12, <1>13 DEF Calm

\* The critic sends sections back to their writers: those are stale, and no other.
LEMMA RewriteCalm ==
    ASSUME Typed, Typed', Calm, asked # "NO", asked' = "NO",
           NEW A \in SUBSET Sections,
           NEW e, e = ScheduleRepair(rows[Main], A), rows' = [rows EXCEPT ![Main] = e],
           plan'.children = plan.children, plan'.step = "WRITE",
           \A s \in Sections : wanted'[s] = IF s \in A THEN wanted[s] + 1 ELSE wanted[s],
           UNCHANGED <<full, gate, tasks, cur, changed, docs, crashes>>
    PROVE  Calm'
<1>1. Main \in Writers /\ rows \in [Writers -> Rows] /\ rows[Main] \in Rows
  BY WritersAre DEF Typed, TypeOK
<1>2. /\ cur = 0 /\ ~gate /\ rows[Main].status = "RUNNING" /\ plan.step = "REVIEW"
      /\ rows[Main].repair = {} /\ (full => plan.children = Groups)
  BY DEF Calm, Stages
<1>3. /\ e \in Rows /\ e.status = "RUNNING" /\ e.results = rows[Main].results \ A
      /\ e.repair = A /\ e.override = rows[Main].override
      /\ \A s \in Sections : e.phase[s] = IF s \in A THEN "ABSENT" ELSE rows[Main].phase[s]
  BY <1>1, <1>2, ScheduleIs
<1>4. rows'[Main] = e /\ \A w \in Writers : w # Main => rows'[w] = rows[w]
  BY <1>1
<1>5. Alone' /\ Saved' /\ Called'
  <2>1. \A w \in Writers, k \in Gens : tasks'[<<w, k>>].pc = "off"
    BY <1>2, NoTasks
  <2> QED
    BY <2>1, QuietIs
<1>6. Stages'
  BY <1>2, <1>3, <1>4 DEF Stages
<1>7. Mending'
  <2>1. CASE full
    BY <1>4, <2>1, WritersAre DEF Calm, Mending
  <2>2. CASE ~full
    <3>1. rows[Main].results = Sections
      BY <1>2, <2>2 DEF Calm, Mending
    <3>2. Sections \subseteq e.results \cup e.repair
      BY <1>3, <3>1
    <3> QED
      BY <1>4, <2>2, <3>2 DEF Mending
  <2> QED
    BY <2>1, <2>2
<1>8. \A s \in Sections : /\ wanted[s] \in Nat /\ wanted[s] <= wanted'[s]
                          /\ s \in A => wanted[s] < wanted'[s]
                          /\ s \notin A => wanted'[s] = wanted[s]
  BY Constants DEF Typed, TypeOK, Versions
<1>9. \A s \in Sections : /\ docs[s].BLUEPRINT \in Nat /\ docs[s].CONTENT \in Nat
                          /\ docs[s].candidate \in Nat /\ wanted'[s] \in Nat
  BY Constants DEF Typed, TypeOK, Docs, Versions
<1>10. Bounded'
  <2>1. ASSUME NEW w \in Writers, NEW s \in Sections, NEW p \in Repairable
        PROVE  rows'[w].override[s][p] <= wanted'[s]
    <3>1. rows'[w].override = rows[w].override
      BY <1>3, <1>4
    <3>2. rows[w].override[s][p] <= wanted[s] /\ rows[w].override[s][p] \in Nat
      <4>1. rows[w] \in Rows
        BY <1>1
      <4>2. rows[w].override \in [Sections -> [Repairable -> Versions]]
        BY <4>1, RowIs
      <4> QED
        BY <4>2, Constants DEF Calm, Bounded, Versions
    <3> QED
      BY <1>8, <1>9, <3>1, <3>2
  <2>2. ASSUME NEW s \in Sections, NEW n \in {docs'[s].BLUEPRINT, docs'[s].CONTENT, docs'[s].candidate}
        PROVE  n <= wanted'[s]
    <3>1. n <= wanted[s] /\ n \in Nat
      BY <1>9, <2>2 DEF Calm, Bounded
    <3> QED
      BY <1>8, <1>9, <3>1
  <2> QED
    BY <2>1, <2>2 DEF Bounded
<1>11. \A s \in Sections :
          /\ Stale(s)' <=> full /\ s \in A
          /\ ~Stale(s)
  BY <1>2, <1>3, <1>4, WritersAre DEF Stale
<1>12. Known'
  <2> SUFFICES ASSUME NEW s \in Sections, ~Stale(s)'
               PROVE  /\ Written(rows'[Author(s)], docs[s], s)
                      /\ full => Current(rows'[Author(s)], docs[s], s, wanted'[s])
    BY DEF Known, Author
  <2>1. /\ Written(rows[Author(s)], docs[s], s)
        /\ full => Current(rows[Author(s)], docs[s], s, wanted[s])
    BY <1>11 DEF Calm, Known
  <2>2. CASE full
    <3>1. s \notin A /\ Author(s) \in Writers /\ Author(s) # Main
      BY <1>11, <2>2, WritersAre DEF Author
    <3>2. rows'[Author(s)] = rows[Author(s)] /\ wanted'[s] = wanted[s]
      BY <1>4, <1>8, <3>1
    <3> QED
      BY <2>1, <3>2
  <2>3. CASE ~full
    <3>1. Author(s) = Main /\ rows'[Author(s)] = e
      BY <1>4, <2>3 DEF Author
    <3>2. Written(e, docs[s], s)
      BY <1>3, <2>1, <3>1 DEF Written
    <3> QED
      BY <2>3, <3>1, <3>2
  <2> QED
    BY <2>2, <2>3
<1>13. Unaccepted'
  <2> SUFFICES ASSUME crashes = 0, NEW s \in Sections, Open(s)'
               PROVE  ~Settled(docs[s], wanted'[s])
    BY DEF Unaccepted, Accepted, Settled
  <2>1. CASE s \in A
    <3>1. docs[s].candidate <= wanted[s]
      BY DEF Calm, Bounded
    <3> QED
      BY <1>8, <1>9, <2>1, <3>1 DEF Settled
  <2>2. CASE s \notin A
    <3>1. rows[Author(s)].phase[s] \notin {"EXPRESSION_CRITIC", "DONE"}
      <4>1. CASE full
        <5>1. rows'[Owner[s]] = rows[Owner[s]]
          BY <1>4, WritersAre
        <5> QED
          BY <1>11, <2>2, <4>1, <5>1 DEF Open, Author
      <4>2. CASE ~full
        BY <1>3, <1>4, <1>11, <2>2, <4>2 DEF Open, Author
      <4> QED
        BY <4>1, <4>2
    <3>2. ~Settled(docs[s], wanted[s])
      BY <1>2, <3>1 DEF Calm, Unaccepted, Open, Accepted, Settled
    <3> QED
      BY <1>8, <2>2, <3>2
  <2> QED
    BY <2>1, <2>2
<1>14. Final'
  BY <1>3, <1>4 DEF Final, Finished
<1> QED
  BY <1>5, <1>6, <1>7, <1>10, <1>12, <1>13, <1>14 DEF Calm

\* The critic's verdict, whichever it is.
LEMMA ConcludeCalm ==
    ASSUME Typed, Typed', Calm, Conclude
    PROVE  Calm' /\ UNCHANGED faults
<1> DEFINE c == copies[0].row
           p == copies[0].plan
           Put(r, q) == rows' = [rows EXCEPT ![Main] = r] /\ plan' = q
<1>1. /\ asked # "NO" /\ asked' = "NO"
      /\ UNCHANGED <<full, tasks, cur, changed, crashes, faults>>
  BY ConcludeIs
<1>2. c = rows[Main] /\ p = plan /\ ~gate /\ plan.step = "REVIEW" /\ p \in Plans
  BY <1>1 DEF Calm, Stages, Typed, TypeOK
<1>3. \/ /\ Put([c EXCEPT !.status = "COMPLETED"], [p EXCEPT !.step = "END"])
         /\ UNCHANGED <<gate, docs, wanted>>
      \/ Put(Blocked(c), p) /\ UNCHANGED <<gate, docs, wanted>>
      \/ \E q \in Plans, step \in {"ARGUE", "PLAN"} :
            /\ q.step = step /\ q.children = (IF full THEN {} ELSE p.children)
            /\ Put(ScheduleRevision(c, full), q)
            /\ \A s \in Sections : wanted'[s] = wanted[s] + 1
            /\ docs' = IF full THEN [s \in Sections |-> NewDoc] ELSE docs
            /\ UNCHANGED gate
      \/ \E A \in (SUBSET Sections) \ {{}}, q \in Plans :
            /\ q.step = "WRITE" /\ q.children = p.children
            /\ Put(ScheduleRepair(c, A), q)
            /\ \A s \in Sections : wanted'[s] = IF s \in A THEN wanted[s] + 1 ELSE wanted[s]
            /\ UNCHANGED <<gate, docs>>
      \/ \E q \in Plans :
            /\ q.step = p.step /\ q.children = p.children
            /\ Put([c EXCEPT !.status = "WAITING_GATE"], q)
            /\ gate' = TRUE /\ UNCHANGED <<docs, wanted>>
  BY ConcludeIs
<1> HIDE DEF c, p
<1>4. UNCHANGED <<full, tasks, cur, changed, crashes>>
  BY <1>1
<1>5. CASE /\ Put([c EXCEPT !.status = "COMPLETED"], [p EXCEPT !.step = "END"])
           /\ UNCHANGED <<gate, docs, wanted>>
  <2>1. plan'.children = plan.children /\ plan'.step = "END" /\ ~gate'
    BY <1>2, <1>5 DEF Plans
  <2>2. PICK e : e = [rows[Main] EXCEPT !.status = "COMPLETED"]
    OBVIOUS
  <2>3. rows' = [rows EXCEPT ![Main] = e] /\ UNCHANGED <<docs, wanted>>
    BY <1>2, <1>5, <2>2
  <2> QED
    BY <1>1, <1>4, <2>1, <2>2, <2>3, VerdictCalm
<1>6. CASE Put(Blocked(c), p) /\ UNCHANGED <<gate, docs, wanted>>
  <2>1. plan'.children = plan.children /\ plan'.step = "REVIEW" /\ ~gate'
    BY <1>2, <1>6
  <2>2. PICK e : e = [rows[Main] EXCEPT !.status = "BLOCKED"]
    OBVIOUS
  <2>3. rows' = [rows EXCEPT ![Main] = e] /\ UNCHANGED <<docs, wanted>>
    BY <1>2, <1>6, <2>2 DEF Blocked
  <2> QED
    BY <1>1, <1>4, <2>1, <2>2, <2>3, VerdictCalm
<1>7. ASSUME NEW q \in Plans, NEW step \in {"ARGUE", "PLAN"},
             q.step = step, q.children = (IF full THEN {} ELSE p.children),
             Put(ScheduleRevision(c, full), q),
             \A s \in Sections : wanted'[s] = wanted[s] + 1,
             docs' = (IF full THEN [s \in Sections |-> NewDoc] ELSE docs),
             UNCHANGED gate
      PROVE  Calm'
  <2>1. /\ plan'.children = (IF full THEN {} ELSE plan.children)
        /\ plan'.step \in {"ARGUE", "PLAN"}
    BY <1>2, <1>7
  <2>2. PICK e : e = ScheduleRevision(rows[Main], full)
    OBVIOUS
  <2>3. rows' = [rows EXCEPT ![Main] = e]
    BY <1>2, <1>7, <2>2
  <2>4. UNCHANGED <<full, gate, tasks, cur, changed, crashes>>
    BY <1>4, <1>7
  <2> QED
    BY <1>1, <1>7, <2>1, <2>2, <2>3, <2>4, RevisionCalm
<1>8. ASSUME NEW A \in (SUBSET Sections) \ {{}}, NEW q \in Plans,
             q.step = "WRITE", q.children = p.children,
             Put(ScheduleRepair(c, A), q),
             \A s \in Sections : wanted'[s] = IF s \in A THEN wanted[s] + 1 ELSE wanted[s],
             UNCHANGED <<gate, docs>>
      PROVE  Calm'
  <2>1. plan'.children = plan.children /\ plan'.step = "WRITE" /\ A \in SUBSET Sections
    BY <1>2, <1>8
  <2>2. PICK e : e = ScheduleRepair(rows[Main], A)
    OBVIOUS
  <2>3. rows' = [rows EXCEPT ![Main] = e]
    BY <1>2, <1>8, <2>2
  <2>4. UNCHANGED <<full, gate, tasks, cur, changed, docs, crashes>>
    BY <1>4, <1>8
  <2> QED
    BY <1>1, <1>8, <2>1, <2>2, <2>3, <2>4, RewriteCalm
<1>9. ASSUME NEW q \in Plans, q.step = p.step, q.children = p.children,
             Put([c EXCEPT !.status = "WAITING_GATE"], q),
             gate' = TRUE, UNCHANGED <<docs, wanted>>
      PROVE  Calm'
  <2>1. plan'.children = plan.children /\ plan'.step = "REVIEW"
    BY <1>2, <1>9
  <2>2. PICK e : e = [rows[Main] EXCEPT !.status = "WAITING_GATE"]
    OBVIOUS
  <2>3. rows' = [rows EXCEPT ![Main] = e]
    BY <1>2, <1>9, <2>2
  <2>4. UNCHANGED <<full, tasks, cur, changed, docs, wanted, crashes>>
    BY <1>4, <1>9
  <2> QED
    BY <1>1, <2>1, <2>2, <2>3, <2>4, VerdictCalm
<1> QED
  BY <1>1, <1>3, <1>5, <1>6, <1>7, <1>8, <1>9

\* The process dies: what was committed is of a section that its row has not passed.
LEMMA CrashCalm == Typed /\ Typed' /\ Calm /\ Crash => Calm'
<1> SUFFICES ASSUME Typed, Typed', Calm, Crash PROVE Calm'
  OBVIOUS
<1>1. /\ crashes' = crashes + 1 /\ tasks' = [t \in Slots |-> NoTask]
      /\ cur' = 0 /\ asked' = "NO"
      /\ UNCHANGED <<full, rows, plan, gate, wanted, faults>>
  BY DEF Crash
<1>2. crashes \in Nat /\ crashes' # 0
  BY <1>1 DEF Typed, TypeOK
<1>3. Alone' /\ Saved' /\ Called'
  <2>1. \A w \in Writers, k \in Gens : tasks'[<<w, k>>].pc = "off"
    BY <1>1, TaskIs DEF Slots
  <2> QED
    BY <2>1, QuietIs
<1>4. Stages'
  BY <1>1 DEF Calm, Stages
<1>5. Mending'
  BY <1>1 DEF Calm, Mending
<1>6. \A s \in Sections : ~Stale(s)' => ~Stale(s)
  BY <1>1 DEF Stale
<1>7. Unaccepted'
  BY <1>2 DEF Unaccepted
<1>8. CASE UNCHANGED <<docs, changed>>
  <2>1. Bounded'
    BY <1>1, <1>8 DEF Calm, Bounded
  <2>2. Known'
    BY <1>1, <1>6, <1>8 DEF Calm, Known, Author
  <2>3. Final'
    BY <1>1, <1>8 DEF Calm, Final, Finished
  <2> QED
    BY <1>3, <1>4, <1>5, <1>7, <2>1, <2>2, <2>3 DEF Calm
<1>9. ASSUME NEW w \in Writers, NEW k \in Gens, tasks[<<w, k>>].pc = "await", Commit(w, k)
      PROVE  Calm'
  <2>1. PICK t, s, c : t = tasks[<<w, k>>] /\ s = Active(t.row, Mine(w)) /\ c = t.row.phase[s]
    OBVIOUS
  <2>2. tasks[<<w, k>>].pc \in Drafting
    BY <1>9 DEF Drafting
  <2>3. /\ cur # 0 /\ s \in Sections /\ c \in Phases /\ t.seen \in Versions
        /\ Same(rows[w], t.row) /\ CalledAt(w, t) /\ Author(s) = w
        /\ Written(t.row, docs[s], s)
    BY <2>1, <2>2, AtIs
  <2>4. PICK e : e = Produced(docs[s], c, t.seen, t.of, k)
    OBVIOUS
  <2>5. docs'[s] = e /\ \A u \in Sections : u # s => docs'[u] = docs[u]
    BY <1>9, <2>1, <2>4, CommitIs
  <2>6. docs[s] \in Docs /\ wanted[s] \in Nat
    BY <2>3, Constants DEF Typed, TypeOK, Versions
  <2>7. t.seen <= wanted[s]
    BY <1>9, <2>1, <2>3 DEF CalledAt
  <2>8. Bounded'
    <3>1. /\ docs[s].BLUEPRINT <= wanted[s] /\ docs[s].CONTENT <= wanted[s]
          /\ docs[s].candidate <= wanted[s]
      BY <2>3 DEF Calm, Bounded
    <3>2. /\ e.BLUEPRINT <= wanted[s] /\ e.CONTENT <= wanted[s] /\ e.candidate <= wanted[s]
      BY <2>3, <2>4, <2>6, <2>7, <3>1, ProducedBounded
    <3>3. ASSUME NEW u \in Sections, NEW n \in {docs'[u].BLUEPRINT, docs'[u].CONTENT, docs'[u].candidate}
          PROVE  n <= wanted[u]
      <4>1. CASE u = s
        BY <2>5, <3>2, <3>3, <4>1
      <4>2. CASE u # s
        BY <2>5, <3>3, <4>2 DEF Calm, Bounded
      <4> QED
        BY <4>1, <4>2
    <3> QED
      BY <1>1, <3>3 DEF Calm, Bounded
  <2>9. Known'
    <3> SUFFICES ASSUME NEW u \in Sections, ~Stale(u)
                 PROVE  /\ Written(rows[Author(u)], docs'[u], u)
                        /\ full => Current(rows[Author(u)], docs'[u], u, wanted[u])
      BY <1>1, <1>6 DEF Known, Author
    <3>1. /\ Written(rows[Author(u)], docs[u], u)
          /\ full => Current(rows[Author(u)], docs[u], u, wanted[u])
      BY DEF Calm, Known
    <3>2. CASE u = s
      <4>1. Written(rows[w], docs[s], s) /\ (full => Current(rows[w], docs[s], s, wanted[s]))
        BY <2>3, <3>1, <3>2
      <4>2. c = rows[w].phase[s]
        BY <2>1, <2>3 DEF Same
      <4>3. PICK r, d, of, v : r = rows[w] /\ d = docs[s] /\ of = t.of /\ v = wanted[s]
        OBVIOUS
      <4>4. /\ c = r.phase[s] /\ d \in Docs /\ e = Produced(d, c, t.seen, of, k)
            /\ Written(r, d, s) /\ (full => Current(r, d, s, v))
        BY <2>4, <2>6, <4>1, <4>2, <4>3
      <4>5. Written(r, e, s) /\ (full => Current(r, e, s, v))
        BY <2>3, <4>4, ProducedKeeps
      <4> QED
        BY <2>3, <2>5, <3>2, <4>3, <4>5
    <3>3. CASE u # s
      BY <2>5, <3>1, <3>3
    <3> QED
      BY <3>2, <3>3
  <2>10. Final'
    <3>1. rows[Main].status = "RUNNING"
      BY <2>3 DEF Calm, Stages
    <3> QED
      BY <1>1, <3>1 DEF Final, Finished
  <2> QED
    BY <1>3, <1>4, <1>5, <1>7, <2>8, <2>9, <2>10 DEF Calm
<1> QED
  <2>1. \/ UNCHANGED <<docs, changed>>
        \/ \E w \in Writers, k \in Gens : tasks[<<w, k>>].pc = "await" /\ Commit(w, k)
    <3>1. CASE \E t \in Slots : tasks[t].pc = "await" /\ Commit(t[1], t[2])
      <4>1. \E w \in Writers, k \in Gens : tasks[<<w, k>>].pc = "await" /\ Commit(w, k)
        BY <3>1 DEF Slots
      <4> QED
        BY <4>1
    <3> QED
      BY <3>1 DEF Crash
  <2> QED
    BY <1>8, <1>9, <2>1

\* Until a task is lost to an exception every step keeps the parent, the groups, the
\* texts and the demands in agreement.
LEMMA NextCalm == Typed /\ Typed' /\ Calm /\ [Next]_vars /\ faults' = 0 /\ faults \in Nat => Calm'
<1> SUFFICES ASSUME Typed, Typed', Calm, [Next]_vars, faults' = 0, faults \in Nat PROVE Calm'
  OBVIOUS
<1>1. CASE UNCHANGED vars
  <2>1. UNCHANGED <<full, rows, plan, gate, copies, tasks, cur, asked, docs, changed, wanted, crashes>>
    BY <1>1 DEF vars
  <2>2. Alone' /\ Stages' /\ Saved' /\ Mending' /\ Bounded'
    BY <2>1 DEF Calm, Alone, Stages, Saved, SavedAt, Mending, Bounded
  <2>3. Called'
    BY <2>1 DEF Calm, Called, CalledAt
  <2>4. Known' /\ Unaccepted' /\ Final'
    BY <2>1 DEF Calm, Known, Stale, Author, Unaccepted, Open, Accepted, Final, Finished
  <2> QED
    BY <2>2, <2>3, <2>4 DEF Calm
<1>2. CASE Advance
  BY <1>2, UpstreamCalm, StartSerialCalm, StartGroupsCalm, ParkCalm, SubmitCalm DEF Advance
<1>3. CASE Work
  BY <1>3, BeginGroupCalm, WriteCalm, GatherCalm, ConcludeCalm DEF Work
<1>4. CASE Decide
  BY <1>4, DecideCalm
<1>5. CASE \E w \in Writers, k \in Gens : Fail(w, k)
  <2>1. faults' = faults + 1
    BY <1>5 DEF Fail
  <2> QED
    BY <2>1
<1>6. CASE Crash
  BY <1>6, CrashCalm
<1> QED
  BY <1>1, <1>2, <1>3, <1>4, <1>5, <1>6 DEF Next

\* Exceptions are counted.
LEMMA FaultsGrow == Typed /\ [Next]_vars /\ faults' = 0 => faults = 0
<1> SUFFICES ASSUME Typed, [Next]_vars PROVE UNCHANGED faults \/ faults' = faults + 1
  BY DEF Typed, TypeOK
<1>1. CASE UNCHANGED vars
  BY <1>1 DEF vars
<1>2. CASE Advance
  BY <1>2 DEF Advance, Upstream, StartSerial, StartGroups, Park, Submit
<1>3. CASE Work
  <2>1. ASSUME NEW w \in Writers, NEW k \in Gens, Write(w, k) PROVE UNCHANGED faults
    BY <2>1 DEF Write, Ask, AnswerPass, AnswerRevise, AnswerRepair, RecheckPass, Refuse
  <2>2. ASSUME NEW g \in Groups, NEW k \in Gens, BeginGroup(g, k) PROVE UNCHANGED faults
    BY <2>2 DEF BeginGroup
  <2>3. Gather => UNCHANGED faults
    BY GatherIs
  <2>4. Conclude => UNCHANGED faults
    BY ConcludeIs
  <2> QED
    BY <1>3, <2>1, <2>2, <2>3, <2>4 DEF Work
<1>4. CASE Decide \/ (\E w \in Writers, k \in Gens : Fail(w, k)) \/ Crash
  BY <1>4 DEF Decide, Fail, Crash
<1> QED
  BY <1>1, <1>2, <1>3, <1>4 DEF Next

\* A new workflow has nothing to agree about.
LEMMA InitCalm == Init => Calm
<1> SUFFICES ASSUME Init PROVE Calm
  OBVIOUS
<1>1. /\ rows = [w \in Writers |-> NewRow] /\ plan = NewPlan /\ gate = FALSE
      /\ tasks = [t \in Slots |-> NoTask] /\ cur = 0 /\ asked = "NO"
      /\ docs = [s \in Sections |-> NewDoc] /\ wanted = [s \in Sections |-> 1]
  BY DEF Init
<1>2. \A w \in Writers : /\ rows[w].status = "RUNNING" /\ rows[w].results = {}
                         /\ rows[w].repair = {}
                         /\ \A s \in Sections : /\ rows[w].phase[s] = "ABSENT"
                                                /\ \A p \in Repairable : rows[w].override[s][p] = 0
  BY <1>1 DEF NewRow
<1>3. \A w \in Writers, k \in Gens : tasks[<<w, k>>].pc = "off"
  BY <1>1, TaskIs DEF Slots
<1>4. \A s \in Sections : /\ docs[s].BLUEPRINT = 0 /\ docs[s].CONTENT = 0 /\ docs[s].candidate = 0
                          /\ ~docs[s].approved /\ wanted[s] = 1
  BY <1>1 DEF NewDoc
<1>5. plan.step = "PLAN"
  BY <1>1 DEF NewPlan
<1>6. Alone /\ Saved /\ Called
  BY <1>3 DEF Alone, Saved, SavedAt, Called, CalledAt, Drafting
<1>7. Stages /\ Mending /\ Bounded
  BY <1>1, <1>2, <1>4, <1>5, WritersAre DEF Stages, Mending, Bounded
<1>8. Known
  BY <1>2, <1>4, WritersAre DEF Known, Written, Current, Author
<1>9. Unaccepted /\ Final
  BY <1>1, <1>2, <1>4, WritersAre DEF Unaccepted, Accepted, Final, Finished
<1> QED
  BY <1>6, <1>7, <1>8, <1>9 DEF Calm

\* The invariant holds initially and every step keeps it.
LEMMA Inductive == Spec => []IInv
<1>1. Init => IInv
  BY InitTyped, InitCalm DEF IInv
<1>2. IInv /\ [Next]_vars => IInv'
  <2> SUFFICES ASSUME IInv, [Next]_vars PROVE IInv'
    OBVIOUS
  <2>1. Typed' /\ Typed /\ faults \in Nat
    BY NextTyped DEF IInv, Typed, TypeOK
  <2> QED
    BY <2>1, NextCalm, FaultsGrow DEF IInv
<1> QED
  BY <1>1, <1>2, PTL DEF Spec

-----------------------------------------------------------------------------
(* The properties                                                           *)

\* However the sections were written, repaired, sent back and written again, and after
\* any crash: unless an exception left tasks behind, what a full-text review lets pass
\* is what it was shown, every section's latest text a polish that its critic passed.
THEOREM AuthoringEndReviewed == Spec => []EndIsWhatWasReviewedWithoutFault
<1>1. IInv => EndIsWhatWasReviewedWithoutFault
  BY DEF IInv, Calm, Final, EndIsWhatWasReviewedWithoutFault, EndIsWhatWasReviewed
<1> QED
  BY <1>1, Inductive, PTL

\* A full proposal never ends with a section still in a version from before the
\* review's last demand for it.
THEOREM AuthoringRewritesArrive == Spec => []GroupRewritesReachTheEnd
<1>1. IInv => GroupRewritesReachTheEnd
  BY DEF IInv, Calm, Final, GroupRewritesReachTheEnd, RewritesReachTheEnd
<1> QED
  BY <1>1, Inductive, PTL

\* A text that is committed is not one in place of an accepted text.
LEMMA CommitSpares ==
    ASSUME Typed, Calm, crashes = 0, NEW w \in Writers, NEW k \in Gens,
           tasks[<<w, k>>].pc = "await", Commit(w, k), NEW u \in Sections, Accepted(u)
    PROVE  docs'[u] = docs[u]
<1>1. PICK t, s, c : t = tasks[<<w, k>>] /\ s = Active(t.row, Mine(w)) /\ c = t.row.phase[s]
  OBVIOUS
<1>2. tasks[<<w, k>>].pc \in Drafting
  BY DEF Drafting
<1>3. /\ cur # 0 /\ s \in Sections /\ c \in Phases /\ t.seen \in Versions
      /\ Same(rows[w], t.row) /\ Author(s) = w
  BY <1>1, <1>2, AtIs
<1>4. /\ \A x \in Sections : x # s => docs'[x] = docs[x]
      /\ docs'[s] = Produced(docs[s], c, t.seen, t.of, k)
  BY <1>1, CommitIs
<1>5. CASE u # s
  BY <1>4, <1>5
<1>6. CASE u = s
  <2>1. rows[Main].status = "RUNNING"
    BY <1>3 DEF Calm, Stages
  <2>2. c = rows[w].phase[s]
    BY <1>1, <1>3 DEF Same
  <2>3. c \in {"EXPRESSION_CRITIC", "DONE"}
    BY <1>3, <1>6, <2>1, <2>2 DEF Calm, Unaccepted, Open
  <2>4. c = "EXPRESSION_CRITIC" /\ docs[s].approved
    BY <1>3, <1>6, <2>3, PhasesAre DEF Accepted
  <2>5. PICK d, of : d = docs[s] /\ of = t.of
    OBVIOUS
  <2>6. d \in Docs /\ d.approved /\ docs'[s] = Produced(d, c, t.seen, of, k)
    BY <1>3, <1>4, <2>4, <2>5 DEF Typed, TypeOK
  <2>7. docs'[s] = d
    BY <1>3, <2>4, <2>6, ProducedIs
  <2> QED
    BY <1>6, <2>5, <2>7
<1> QED
  BY <1>5, <1>6

\* No step replaces an accepted text that is not sent back with it.
LEMMA AcceptedStays ==
    ASSUME Typed, Calm, [Next]_vars, crashes = 0, NEW u \in Sections, Accepted(u), wanted' = wanted
    PROVE  docs'[u] = docs[u]
<1>1. CASE UNCHANGED vars
  BY <1>1 DEF vars
<1>2. CASE Advance \/ Decide
  BY <1>2 DEF Advance, Upstream, StartSerial, StartGroups, Park, Submit, Decide
<1>3. CASE Work
  <2>1. ASSUME NEW w \in Writers, NEW k \in Gens, Write(w, k) PROVE docs'[u] = docs[u]
    <3>1. CASE AnswerPass(w, k)
      <4>1. tasks[<<w, k>>].pc = "await" /\ Commit(w, k)
        BY <3>1 DEF AnswerPass
      <4> QED
        BY <4>1, CommitSpares
    <3>2. CASE ~AnswerPass(w, k)
      BY <2>1, <3>2 DEF Write, Ask, AnswerRevise, AnswerRepair, RecheckPass, Refuse
    <3> QED
      BY <3>1, <3>2
  <2>2. ASSUME NEW g \in Groups, NEW k \in Gens, BeginGroup(g, k) PROVE docs'[u] = docs[u]
    BY <2>2 DEF BeginGroup
  <2>3. Gather => docs'[u] = docs[u]
    BY GatherIs
  <2>4. ASSUME Conclude PROVE docs'[u] = docs[u]
    <3>1. wanted[u] \in Nat
      BY Constants DEF Typed, TypeOK, Versions
    <3>2. UNCHANGED docs \/ wanted'[u] = wanted[u] + 1
      BY <2>4, ConcludeIs
    <3> QED
      BY <3>1, <3>2
  <2> QED
    BY <1>3, <2>1, <2>2, <2>3, <2>4 DEF Work
<1>4. ASSUME NEW w \in Writers, NEW k \in Gens, Fail(w, k) PROVE docs'[u] = docs[u]
  <2>1. tasks[<<w, k>>].pc = "await" /\ (Commit(w, k) \/ UNCHANGED <<docs, changed>>)
    BY <1>4 DEF Fail
  <2> QED
    BY <2>1, CommitSpares
<1>5. CASE Crash
  <2>1. CASE \E t \in Slots : tasks[t].pc = "await" /\ Commit(t[1], t[2])
    <3>1. PICK w \in Writers, k \in Gens : tasks[<<w, k>>].pc = "await" /\ Commit(w, k)
      BY <2>1 DEF Slots
    <3> QED
      BY <3>1, CommitSpares
  <2> QED
    BY <1>5, <2>1 DEF Crash
<1> QED
  BY <1>1, <1>2, <1>3, <1>4, <1>5 DEF Next

\* An integration repair rewrites the sections that were demanded and no other: no task,
\* of any group and in any order of their answers, replaces a text that its critic has
\* passed and that nobody has sent back since.
THEOREM AuthoringRewritesDemanded == Spec => OnlyDemandedRewritten
<1>1. IInv /\ [Next]_vars =>
         [\A s \in Sections :
             crashes = 0 /\ faults = 0 /\ Accepted(s) /\ wanted' = wanted => docs'[s] = docs[s]]_vars
  BY AcceptedStays DEF IInv
<1> QED
  BY <1>1, Inductive, PTL DEF Spec, OnlyDemandedRewritten
=============================================================================
