--------------------------- MODULE ProjectFlowProofs ---------------------------
(***************************************************************************)
(* What ProjectFlow guarantees for any number of requests, sections and    *)
(* workflows, whatever is started, lost, refused or written in between.    *)
(***************************************************************************)
EXTENDS ProjectFlow, SequenceTheorems, FiniteSetTheorems, TLAPS

\* The rows of the two tables, and their histories.
Keys == {NoKey} \cup {r.key : r \in Requests}
Partial(S) == UNION {[m -> S] : m \in SUBSET Sections}
FlowRow == [type : Types, key : Keys, status : Statuses, split : BOOLEAN, parent : Nat,
            children : SUBSET Nat, step : Partial(Steps), wrote : Partial(Nat)]
TextRow == [flow : Nat, section : Sections, prompt : Producers, pass : BOOLEAN]
Typed ==
    /\ flows \in Seq(FlowRow)
    /\ texts \in Seq(TextRow)
    /\ losses \in 0 .. MaxTrouble
    /\ answered \in [Requests -> SUBSET Nat]

\* A key names one workflow of a type, and that is what its requests are answered with.
KeysName ==
    /\ \A f, g \in Ids :
          flows[f].key = flows[g].key /\ flows[f].key # NoKey /\ flows[f].type = flows[g].type => f = g
    /\ \A r \in Requests : \A a \in answered[r] :
          a \in Ids /\ flows[a].type = r.type /\ flows[a].key = r.key

\* Who is whose child, and which sections a workflow has.
FamilyOf(f) ==
    /\ flows[f].parent \in 0 .. f - 1
    /\ flows[f].parent # 0 => flows[f].type = "authoring"
    /\ flows[f].children \subseteq {c \in Ids : flows[c].parent = f}
    /\ DOMAIN flows[f].wrote = DOMAIN flows[f].step
    /\ flows[f].type = "authoring" /\ flows[f].parent = 0 /\ ~flows[f].split =>
          DOMAIN flows[f].step = Sections
    /\ \A c, d \in flows[f].children :
          c # d => DOMAIN flows[c].step \cap DOMAIN flows[d].step = {}
Families == \A f \in Ids : FamilyOf(f)

\* The PASS texts of a section of a workflow.
Passed(f, s) ==
    {t \in 1 .. Len(texts) : texts[t].flow = f /\ texts[t].section = s /\ texts[t].pass}
\* w is the newest of the texts ts, or 0.
NewestOf(w, ts) == IF w = 0 THEN ts = {} ELSE w \in ts /\ \A t \in ts : t <= w
\* A workflow knows the newest text of each of its sections, and what it is.
WroteOf(f, s) ==
    LET w == flows[f].wrote[s] IN
    /\ NewestOf(w, Passed(f, s))
    /\ flows[f].step[s] # "todo" => w # 0
    /\ flows[f].step[s] = "drafted" => texts[w].prompt = "P-WRITE-CONTENT"
Wrote ==
    /\ \A f \in Ids : \A s \in DOMAIN flows[f].step : WroteOf(f, s)
    /\ \A t \in 1 .. Len(texts) :
          texts[t].flow \in Ids /\ texts[t].section \in DOMAIN flows[texts[t].flow].step

\* A proposal that was completed has the whole document, and nothing in it moves again.
ProposalDone(g) ==
    /\ Sections \subseteq UNION {DOMAIN flows[c].step : c \in Authors(g)}
    /\ \A c \in Authors(g) :
          /\ flows[c].status = "COMPLETED"
          /\ \A s \in DOMAIN flows[c].step : flows[c].step[s] = "polished"
Proposal(g) ==
    flows[g].type = "authoring" /\ flows[g].status = "COMPLETED" /\ flows[g].parent = 0
Done == \A g \in Ids : Proposal(g) => ProposalDone(g)

\* Who stands still: what is marked, and what was started without all that it needs and
\* was not recovered since.  Every other export has a proposal.
Held ==
    /\ marked \subseteq Ids /\ unmet \subseteq Ids /\ resumed \subseteq unmet
    /\ \A f \in marked \cup (unmet \ resumed) :
          flows[f].status = "BLOCKED" /\ flows[f].parent = 0
    /\ \A f \in Ids \ unmet : flows[f].type = "export" => \E g \in Ids : Proposal(g)

IInv == Typed /\ KeysName /\ Families /\ Wrote /\ Done /\ Held /\ ReadsOwn

\* Abbreviations, visible in every proof below.
USE DEF Ids, recovery, vars

-----------------------------------------------------------------------------
(* Rows.                                                                    *)

\* What a partial function is.
LEMMA PartialFunctions ==
    ASSUME NEW S, NEW p
    PROVE  p \in Partial(S) <=> /\ p \in [DOMAIN p -> S]
                                /\ DOMAIN p \subseteq Sections
BY DEF Partial

\* ... and what becomes of one that is changed at a point.
LEMMA PartialExcept ==
    ASSUME NEW S, NEW p \in Partial(S), NEW s \in DOMAIN p, NEW v \in S
    PROVE  /\ [p EXCEPT ![s] = v] \in Partial(S)
           /\ DOMAIN [p EXCEPT ![s] = v] = DOMAIN p
           /\ \A x \in DOMAIN p : [p EXCEPT ![s] = v][x] = IF x = s THEN v ELSE p[x]
<1>1. PICK m \in SUBSET Sections : p \in [m -> S]
  BY DEF Partial
<1>2. DOMAIN p = m /\ [p EXCEPT ![s] = v] \in [m -> S]
  BY <1>1
<1>3. \A x \in m : [p EXCEPT ![s] = v][x] = IF x = s THEN v ELSE p[x]
  BY <1>1
<1>4. [p EXCEPT ![s] = v] \in Partial(S)
  BY <1>2 DEF Partial
<1> QED
  BY <1>2, <1>3, <1>4

\* A table with a row added at its end.
LEMMA RowAdded ==
    ASSUME NEW S, NEW table \in Seq(S), NEW row \in S
    PROVE  /\ Append(table, row) \in Seq(S)
           /\ Len(table) \in Nat /\ Len(Append(table, row)) = Len(table) + 1
           /\ \A i \in 1 .. Len(table) : Append(table, row)[i] = table[i]
           /\ Append(table, row)[Len(table) + 1] = row
BY AppendProperties, LenProperties

\* A table with a row replaced.
LEMMA RowChanged ==
    ASSUME NEW S, NEW table \in Seq(S), NEW f \in 1 .. Len(table), NEW row \in S
    PROVE  /\ [table EXCEPT ![f] = row] \in Seq(S)
           /\ Len(table) \in Nat /\ Len([table EXCEPT ![f] = row]) = Len(table)
           /\ \A i \in 1 .. Len(table) :
                 [table EXCEPT ![f] = row][i] = IF i = f THEN row ELSE table[i]
BY ExceptSeq, LenProperties

\* The fields of a row.
LEMMA RowFields ==
    ASSUME Typed, NEW f \in Ids
    PROVE  /\ flows[f] \in FlowRow
           /\ flows[f].type \in Types /\ flows[f].key \in Keys /\ flows[f].status \in Statuses
           /\ flows[f].split \in BOOLEAN /\ flows[f].parent \in Nat
           /\ flows[f].children \subseteq Nat
           /\ flows[f].step \in Partial(Steps) /\ flows[f].wrote \in Partial(Nat)
<1>1. flows[f] \in FlowRow
  BY ElementOfSeq DEF Typed
<1> QED
  BY <1>1 DEF FlowRow

\* A row that is inserted.
LEMMA NewRow ==
    ASSUME NEW type \in Types, NEW key \in Keys, NEW status \in Statuses, NEW split \in BOOLEAN,
           NEW mine \in SUBSET Sections, NEW parent \in Nat
    PROVE  Flow(type, key, status, split, mine, parent) \in FlowRow
<1>1. [s \in mine |-> "todo"] \in Partial(Steps)
  BY DEF Partial, Steps
<1>2. [s \in mine |-> 0] \in Partial(Nat)
  BY DEF Partial
<1> QED
  BY <1>1, <1>2 DEF Flow, FlowRow
-----------------------------------------------------------------------------
(* What a step does to the table of workflows.                              *)

\* The table of workflows with a row inserted.
LEMMA FlowAdded ==
    ASSUME Typed, NEW row \in FlowRow, flows' = Append(flows, row)
    PROVE  /\ flows' \in Seq(FlowRow) /\ Len(flows') = Len(flows) + 1
           /\ flows'[Len(flows) + 1] = row
           /\ \A g \in Ids : flows'[g] = flows[g]
BY RowAdded DEF Typed

\* ... with the row of a workflow replaced.
LEMMA FlowChanged ==
    ASSUME Typed, NEW f \in Ids, NEW row \in FlowRow
    PROVE  /\ [flows EXCEPT ![f] = row] \in Seq(FlowRow)
           /\ Len([flows EXCEPT ![f] = row]) = Len(flows)
           /\ \A g \in Ids : [flows EXCEPT ![f] = row][g] = IF g = f THEN row ELSE flows[g]
BY RowChanged DEF Typed

\* ... with another status for a workflow.
LEMMA StatusSet ==
    ASSUME Typed, NEW f \in Ids, NEW st \in Statuses, SetStatus(f, st)
    PROVE  /\ flows' \in Seq(FlowRow) /\ Len(flows') = Len(flows)
           /\ \A g \in Ids :
                 flows'[g] = IF g = f THEN [flows[f] EXCEPT !.status = st] ELSE flows[g]
<1> DEFINE row == [flows[f] EXCEPT !.status = st]
<1>1. row \in FlowRow
  BY RowFields DEF FlowRow
<1>2. flows' = [flows EXCEPT ![f] = row]
  BY DEF SetStatus
<1> HIDE DEF row
<1>3. /\ flows' \in Seq(FlowRow) /\ Len(flows') = Len(flows)
      /\ \A g \in Ids : flows'[g] = IF g = f THEN row ELSE flows[g]
  BY <1>1, <1>2, FlowChanged
<1> QED
  BY <1>3 DEF row

\* ... with a section of a workflow that is to be written again.
LEMMA Rewritten ==
    ASSUME Typed, NEW f \in Ids, NEW s \in DOMAIN flows[f].step,
           flows' = [flows EXCEPT ![f].step[s] = "todo", ![f].status = "RUNNING"]
    PROVE  /\ flows' \in Seq(FlowRow) /\ Len(flows') = Len(flows)
           /\ \A g \in Ids :
                 flows'[g] = IF g = f
                             THEN [flows[f] EXCEPT !.step = [flows[f].step EXCEPT ![s] = "todo"],
                                                   !.status = "RUNNING"]
                             ELSE flows[g]
<1> DEFINE step == [flows[f].step EXCEPT ![s] = "todo"]
           row == [flows[f] EXCEPT !.step = step, !.status = "RUNNING"]
<1>0. Typed /\ f \in Ids
  OBVIOUS
<1>1. step \in Partial(Steps)
  BY RowFields, PartialExcept DEF Steps
<1>2. flows' = [flows EXCEPT ![f] = row]
  BY DEF Typed
<1> HIDE DEF step
<1>3. row \in FlowRow
  BY <1>1, RowFields DEF FlowRow, Statuses
<1> HIDE DEF row
<1>4. /\ flows' \in Seq(FlowRow) /\ Len(flows') = Len(flows)
      /\ \A g \in Ids : flows'[g] = IF g = f THEN row ELSE flows[g]
  BY ONLY <1>0, <1>2, <1>3, FlowChanged
<1> QED
  BY <1>4 DEF row, step

\* ... with a child that its parent records.
LEMMA ChildAdded ==
    ASSUME Typed, NEW f \in Ids, NEW row \in FlowRow,
           flows' = Append([flows EXCEPT ![f].children = @ \cup {Len(flows) + 1}], row)
    PROVE  /\ flows' \in Seq(FlowRow) /\ Len(flows') = Len(flows) + 1
           /\ flows'[Len(flows) + 1] = row
           /\ \A g \in Ids :
                 flows'[g] = IF g = f
                             THEN [flows[f] EXCEPT !.children = @ \cup {Len(flows) + 1}]
                             ELSE flows[g]
<1> DEFINE parent == [flows[f] EXCEPT !.children = @ \cup {Len(flows) + 1}]
           table == [flows EXCEPT ![f] = parent]
<1>0. Typed /\ f \in Ids
  OBVIOUS
<1>1. Len(flows) + 1 \in Nat
  BY LenProperties DEF Typed
<1>2. parent \in FlowRow
  BY <1>1, RowFields DEF FlowRow
<1>3. flows' = Append(table, row)
  BY DEF Typed
<1> HIDE DEF parent
<1>4. /\ table \in Seq(FlowRow) /\ Len(table) = Len(flows)
      /\ \A g \in Ids : table[g] = IF g = f THEN parent ELSE flows[g]
  BY <1>2, FlowChanged, Zenon DEF table
<1> HIDE DEF table
<1>5. /\ flows' \in Seq(FlowRow) /\ Len(flows') = Len(flows) + 1
      /\ flows'[Len(flows) + 1] = row
      /\ \A g \in Ids : flows'[g] = table[g]
  BY ONLY <1>3, <1>4, row \in FlowRow, RowAdded
<1> QED
  BY <1>4, <1>5 DEF parent

\* The rows that requests and proposals insert.
LEMMA Insertable ==
    ASSUME Typed
    PROVE  /\ \A r \in Requests : NewFlow(r, r.key) \in FlowRow /\ NewFlow(r, NoKey) \in FlowRow
           /\ \A f \in Ids, s \in Sections : Flow("authoring", NoKey, "RUNNING", FALSE, {s}, f) \in FlowRow
<1>1. ASSUME NEW r \in Requests, NEW key \in {r.key, NoKey} PROVE NewFlow(r, key) \in FlowRow
  <2>1. key \in Keys
    BY DEF Keys
  <2>2. r.type \in Types /\ r.split \in BOOLEAN
    BY RequestsAssumption
  <2>3. StartStatus(r) \in Statuses
    BY DEF StartStatus, Statuses
  <2> DEFINE own == IF r.type = "authoring" /\ ~r.split THEN Sections ELSE {}
  <2>4. own \in SUBSET Sections
    OBVIOUS
  <2> HIDE DEF own
  <2>5. Flow(r.type, key, StartStatus(r), r.split, own, 0) \in FlowRow
    BY <2>1, <2>2, <2>3, <2>4, NewRow
  <2> QED
    BY <2>5 DEF NewFlow, own
<1>2. ASSUME NEW f \in Ids, NEW s \in Sections
      PROVE  Flow("authoring", NoKey, "RUNNING", FALSE, {s}, f) \in FlowRow
  <2>1. "authoring" \in Types /\ NoKey \in Keys /\ "RUNNING" \in Statuses /\ {s} \in SUBSET Sections /\ f \in Nat
    BY LenProperties DEF Types, Needs, Keys, Statuses, Typed
  <2> QED
    BY <2>1, NewRow
<1> QED
  BY <1>1, <1>2

\* Who writes a section of an authoring that can be reviewed as a whole.
LEMMA AuthorIs ==
    ASSUME Typed, Families, NEW f \in Ids, Integrable(f), NEW s \in Sections
    PROVE  /\ Author(f, s) \in Authors(f) /\ Author(f, s) \in Ids
           /\ s \in DOMAIN flows[Author(f, s)].step
<1>1. Authors(f) \subseteq Ids
  BY DEF Authors, Families, FamilyOf
<1>2. \E c \in Authors(f) : s \in DOMAIN flows[c].step
  <2>1. CASE flows[f].split
    BY <2>1 DEF Integrable, Unassigned, Authors
  <2>2. CASE ~flows[f].split
    BY <2>2 DEF Integrable, Authors, Families, FamilyOf
  <2> QED
    BY <2>1, <2>2
<1> QED
  BY <1>1, <1>2 DEF Author

-----------------------------------------------------------------------------
(* What any step leaves as it was.                                          *)

\* A step that starts a workflow, and the row it adds: a client's, or a child's.
Insert == \E r \in Requests : Start(r) \/ StartDies(r)
Bear == \E f \in Ids, s \in Sections : Spawn(f, s) \/ SpawnDies(f, s)
\* One that only changes the status of a workflow.
Settle == \E f \in Ids : \/ Run(f) \/ ChildDone(f) \/ IntegrationPass(f) \/ Export(f)
                        \/ Fault(f) \/ Recover(f)
\* One that writes a section, or has it written again.
Write == \E f \in Ids, s \in Sections : (\E pass \in BOOLEAN : Draft(f, s, pass)) \/ Polish(f, s)
Rewrite == \E f \in Ids, s \in Sections : IntegrationRewrites(f, s)

\* Every step is one of these, or inserts and changes nothing.
LEMMA Kinds ==
    ASSUME [Next]_vars
    PROVE  \/ Insert \/ Bear \/ Settle \/ Write \/ Rewrite
           \/ (\E r \in Requests : StartAgain(r)) \/ UNCHANGED vars
BY DEF Next, Step, Insert, Bear, Settle, Write, Rewrite

\* What a workflow is never changed in.
Same(g) ==
    /\ flows'[g].type = flows[g].type /\ flows'[g].key = flows[g].key
    /\ flows'[g].split = flows[g].split /\ flows'[g].parent = flows[g].parent
    /\ DOMAIN flows'[g].step = DOMAIN flows[g].step
    /\ DOMAIN flows'[g].wrote = DOMAIN flows[g].wrote
\* What only writing and rewriting, what only a spawn, and what only settling and
\* rewriting change.
SameWork(g) == flows'[g].step = flows[g].step /\ flows'[g].wrote = flows[g].wrote
SameChildren(g) == flows'[g].children = flows[g].children
SameStatus(g) == flows'[g].status = flows[g].status

\* A start adds one row, with the request's key or with none.
LEMMA InsertFrame ==
    ASSUME Typed, NEW r \in Requests, Start(r) \/ StartDies(r)
    PROVE  \E key \in Keys :
              /\ key \in {r.key, NoKey}
              /\ key # NoKey => Started(r.type, r.key) = {} /\ Start(r)
              /\ flows' \in Seq(FlowRow) /\ Len(flows') = Len(flows) + 1
              /\ flows'[Len(flows) + 1] = NewFlow(r, key)
              /\ \A g \in Ids : flows'[g] = flows[g]
<1>1. CASE Start(r)
  BY <1>1, Insertable, FlowAdded DEF Start, Keys
<1>2. CASE StartDies(r)
  BY <1>2, Insertable, FlowAdded DEF StartDies, Keys
<1> QED
  BY <1>1, <1>2

\* A spawn adds one child, and changes of its parent at most the children it records.
LEMMA BearFrame ==
    ASSUME Typed, NEW f \in Ids, NEW s \in Sections, Spawn(f, s) \/ SpawnDies(f, s)
    PROVE  /\ flows' \in Seq(FlowRow) /\ Len(flows') = Len(flows) + 1
           /\ flows'[Len(flows) + 1] = Flow("authoring", NoKey, "RUNNING", FALSE, {s}, f)
           /\ \A g \in Ids : g # f => flows'[g] = flows[g]
           /\ Same(f) /\ SameWork(f) /\ SameStatus(f)
           /\ \/ SameChildren(f)
              \/ flows'[f].children = flows[f].children \cup {Len(flows) + 1}
<1> DEFINE row == Flow("authoring", NoKey, "RUNNING", FALSE, {s}, f)
<1>1. row \in FlowRow
  BY Insertable
<1> HIDE DEF row
<1>2. flows[f] \in FlowRow
  BY RowFields
<1>3. CASE SpawnDies(f, s)
  <2>1. flows' = Append(flows, row)
    BY <1>3 DEF SpawnDies, row
  <2>2. /\ flows' \in Seq(FlowRow) /\ Len(flows') = Len(flows) + 1
        /\ flows'[Len(flows) + 1] = row
        /\ \A g \in Ids : flows'[g] = flows[g]
    BY ONLY Typed, <1>1, <2>1, FlowAdded
  <2> QED
    BY <2>2 DEF row, Same, SameWork, SameStatus, SameChildren
<1>4. CASE Spawn(f, s)
  <2>1. flows' = Append([flows EXCEPT ![f].children = @ \cup {Len(flows) + 1}], row)
    BY <1>4 DEF Spawn, row
  <2>2. /\ flows' \in Seq(FlowRow) /\ Len(flows') = Len(flows) + 1
        /\ flows'[Len(flows) + 1] = row
        /\ \A g \in Ids : flows'[g] = IF g = f
                                      THEN [flows[f] EXCEPT !.children = @ \cup {Len(flows) + 1}]
                                      ELSE flows[g]
    BY ONLY Typed, f \in Ids, <1>1, <2>1, ChildAdded
  <2>3. flows'[f] = [flows[f] EXCEPT !.children = @ \cup {Len(flows) + 1}]
    BY <2>2
  <2>4. Same(f) /\ SameWork(f) /\ SameStatus(f)
    BY <1>2, <2>3 DEF FlowRow, Same, SameWork, SameStatus
  <2>5. flows'[f].children = flows[f].children \cup {Len(flows) + 1}
    BY <1>2, <2>3 DEF FlowRow
  <2> QED
    BY <2>2, <2>4, <2>5 DEF row
<1> QED
  BY <1>3, <1>4

\* A workflow ends or is blocked: its status changes and nothing else.
LEMMA SettleFrame ==
    ASSUME Typed, NEW f \in Ids, NEW st \in Statuses, SetStatus(f, st)
    PROVE  /\ flows' \in Seq(FlowRow) /\ Len(flows') = Len(flows)
           /\ \A g \in Ids : g # f => flows'[g] = flows[g]
           /\ Same(f) /\ SameWork(f) /\ SameChildren(f) /\ flows'[f].status = st
<1>1. /\ flows' \in Seq(FlowRow) /\ Len(flows') = Len(flows)
      /\ \A g \in Ids :
            flows'[g] = IF g = f THEN [flows[f] EXCEPT !.status = st] ELSE flows[g]
  BY StatusSet
<1>2. flows[f] \in FlowRow /\ flows'[f] = [flows[f] EXCEPT !.status = st]
  BY <1>1, RowFields
<1>3. Same(f) /\ SameWork(f) /\ SameChildren(f) /\ flows'[f].status = st
  BY ONLY <1>2 DEF FlowRow, Same, SameWork, SameChildren
<1> QED
  BY <1>1, <1>3

\* Who ends: an authoring that is no child, only after a review of all of it; and who
\* stops or goes on without having run: one that a fault meets, or that is recovered.
LEMMA Settled ==
    ASSUME Settle
    PROVE  \E f \in Ids, st \in Statuses :
              /\ SetStatus(f, st)
              /\ \/ Running(f)
                 \/ Recover(f)
                 \/ st = "BLOCKED" /\ flows[f].status # "COMPLETED"
              /\ st = "COMPLETED" => \/ flows[f].type # "authoring" \/ flows[f].parent # 0
                                     \/ Integrable(f)
<1>1. ASSUME NEW f \in Ids, Run(f) \/ Export(f)
      PROVE  \E st \in {"BLOCKED", "COMPLETED"} :
                SetStatus(f, st) /\ Running(f) /\ flows[f].type # "authoring"
  BY <1>1 DEF Run, Export
<1>2. ASSUME NEW f \in Ids, ChildDone(f)
      PROVE  SetStatus(f, "COMPLETED") /\ Running(f) /\ flows[f].parent # 0
  BY <1>2 DEF ChildDone
<1>3. ASSUME NEW f \in Ids, IntegrationPass(f)
      PROVE  SetStatus(f, "COMPLETED") /\ Running(f) /\ Integrable(f)
  BY <1>3 DEF IntegrationPass, Integrable
<1>4. ASSUME NEW f \in Ids, Fault(f)
      PROVE  SetStatus(f, "BLOCKED") /\ flows[f].status # "COMPLETED"
  BY <1>4 DEF Fault
<1>5. ASSUME NEW f \in Ids, Recover(f) PROVE SetStatus(f, "RUNNING") /\ Recover(f)
  BY <1>5 DEF Recover
<1>6. "BLOCKED" \in Statuses /\ "COMPLETED" \in Statuses /\ "RUNNING" \in Statuses
  BY DEF Statuses
<1> QED
  BY <1>1, <1>2, <1>3, <1>4, <1>5, <1>6, Zenon DEF Settle

\* A section is written: the workflow knows its new text.
LEMMA StepFrame ==
    ASSUME Typed, NEW f \in Ids, FamilyOf(f), NEW s \in DOMAIN flows[f].step,
           NEW v \in Steps, NEW w \in Nat,
           flows' = [flows EXCEPT ![f].step[s] = v, ![f].wrote[s] = w]
    PROVE  /\ flows' \in Seq(FlowRow) /\ Len(flows') = Len(flows)
           /\ \A g \in Ids : g # f => flows'[g] = flows[g]
           /\ Same(f) /\ SameChildren(f) /\ SameStatus(f)
           /\ flows'[f].step[s] = v /\ flows'[f].wrote[s] = w
           /\ \A x \in DOMAIN flows[f].step : x # s =>
                 flows'[f].step[x] = flows[f].step[x] /\ flows'[f].wrote[x] = flows[f].wrote[x]
<1> DEFINE step == [flows[f].step EXCEPT ![s] = v]
           wrote == [flows[f].wrote EXCEPT ![s] = w]
           row == [flows[f] EXCEPT !.step = step, !.wrote = wrote]
<1>0. Typed /\ f \in Ids
  OBVIOUS
<1>1. flows[f] \in FlowRow
  BY RowFields
<1>2. DOMAIN flows[f].wrote = DOMAIN flows[f].step
  BY DEF FamilyOf
<1>3. /\ step \in Partial(Steps) /\ wrote \in Partial(Nat)
      /\ DOMAIN step = DOMAIN flows[f].step /\ DOMAIN wrote = DOMAIN flows[f].wrote
      /\ \A x \in DOMAIN flows[f].step : step[x] = IF x = s THEN v ELSE flows[f].step[x]
      /\ \A x \in DOMAIN flows[f].step : wrote[x] = IF x = s THEN w ELSE flows[f].wrote[x]
  BY <1>2, RowFields, PartialExcept
<1>4. flows' = [flows EXCEPT ![f] = row]
  <2>1. flows \in Seq(FlowRow)
    BY DEF Typed
  <2> QED
    BY <2>1
<1> HIDE DEF step, wrote
<1>5. row \in FlowRow
  BY <1>1, <1>3 DEF FlowRow
<1>6. /\ row.type = flows[f].type /\ row.key = flows[f].key
      /\ row.split = flows[f].split /\ row.parent = flows[f].parent
      /\ row.children = flows[f].children /\ row.status = flows[f].status
      /\ row.step = step /\ row.wrote = wrote
  BY <1>1 DEF FlowRow
<1> HIDE DEF row
<1>7. /\ flows' \in Seq(FlowRow) /\ Len(flows') = Len(flows)
      /\ \A g \in Ids : flows'[g] = IF g = f THEN row ELSE flows[g]
  BY ONLY <1>0, <1>4, <1>5, FlowChanged
<1>8. flows'[f] = row /\ \A g \in Ids : g # f => flows'[g] = flows[g]
  BY ONLY <1>0, <1>7
<1>9. Same(f) /\ SameChildren(f) /\ SameStatus(f)
  BY ONLY <1>3, <1>6, <1>8 DEF Same, SameChildren, SameStatus
<1>10. s \in DOMAIN flows[f].step
  OBVIOUS
<1> QED
  BY ONLY <1>3, <1>6, <1>7, <1>8, <1>9, <1>10

\* A rewrite runs the author of one section again, with this section to be written.
LEMMA RewriteFrame ==
    ASSUME Typed, Families, NEW f \in Ids, NEW s \in Sections, IntegrationRewrites(f, s)
    PROVE  \E c \in Ids :
              /\ c \in Authors(f) /\ s \in DOMAIN flows[c].step
              /\ flows' \in Seq(FlowRow) /\ Len(flows') = Len(flows)
              /\ \A g \in Ids : g # c => flows'[g] = flows[g]
              /\ Same(c) /\ SameChildren(c) /\ flows'[c].status = "RUNNING"
              /\ flows'[c].wrote = flows[c].wrote /\ flows'[c].step[s] = "todo"
              /\ \A x \in DOMAIN flows[c].step : x # s => flows'[c].step[x] = flows[c].step[x]
<1>1. Integrable(f)
  BY DEF IntegrationRewrites
<1> DEFINE c == Author(f, s)
<1>2. c \in Authors(f) /\ c \in Ids /\ s \in DOMAIN flows[c].step
  BY <1>1, AuthorIs
<1>3. flows' = [flows EXCEPT ![c].step[s] = "todo", ![c].status = "RUNNING"]
  BY DEF IntegrationRewrites
<1> HIDE DEF c
<1> DEFINE step == [flows[c].step EXCEPT ![s] = "todo"]
<1>4. /\ flows' \in Seq(FlowRow) /\ Len(flows') = Len(flows)
      /\ \A g \in Ids :
            flows'[g] = IF g = c THEN [flows[c] EXCEPT !.step = step, !.status = "RUNNING"]
                        ELSE flows[g]
  BY ONLY Typed, <1>2, <1>3, Rewritten
<1>5. /\ DOMAIN step = DOMAIN flows[c].step
      /\ \A x \in DOMAIN flows[c].step : step[x] = IF x = s THEN "todo" ELSE flows[c].step[x]
  BY <1>2, RowFields, PartialExcept DEF Steps
<1>6. flows[c] \in FlowRow
  BY <1>2, RowFields
<1> HIDE DEF step
<1>7. flows'[c] = [flows[c] EXCEPT !.step = step, !.status = "RUNNING"]
  BY <1>2, <1>4
<1>8. /\ flows'[c].type = flows[c].type /\ flows'[c].key = flows[c].key
      /\ flows'[c].split = flows[c].split /\ flows'[c].parent = flows[c].parent
      /\ flows'[c].children = flows[c].children /\ flows'[c].status = "RUNNING"
      /\ flows'[c].step = step /\ flows'[c].wrote = flows[c].wrote
  BY ONLY <1>6, <1>7 DEF FlowRow
<1> QED
  BY <1>2, <1>4, <1>5, <1>8 DEF Same, SameChildren

\* A section is written by its own running workflow, or the draft is refused.
Refused(f, s) ==
    flows' = flows /\ texts' = Append(texts, NewText(f, s, "P-WRITE-CONTENT", FALSE))
Written(f, s, v, prompt) ==
    /\ texts' = Append(texts, NewText(f, s, prompt, TRUE))
    /\ flows' = [flows EXCEPT ![f].step[s] = v, ![f].wrote[s] = Len(texts) + 1]
\* Every write is one of the three, by a workflow that runs.
LEMMA WriteFrame ==
    ASSUME Write
    PROVE  \E f \in Ids, s \in Sections :
              /\ Running(f) /\ s \in DOMAIN flows[f].step
              /\ \/ Refused(f, s)
                 \/ Written(f, s, "drafted", "P-WRITE-CONTENT")
                 \/ Written(f, s, "polished", "P-EXPRESSION-POLISH")
<1>1. ASSUME NEW f \in Ids, NEW s \in Sections, Draft(f, s, TRUE)
      PROVE  Running(f) /\ s \in DOMAIN flows[f].step /\ Written(f, s, "drafted", "P-WRITE-CONTENT")
  BY <1>1 DEF Draft, Written
<1>2. ASSUME NEW f \in Ids, NEW s \in Sections, Draft(f, s, FALSE)
      PROVE  Running(f) /\ s \in DOMAIN flows[f].step /\ Refused(f, s)
  BY <1>2 DEF Draft, Refused
<1>3. ASSUME NEW f \in Ids, NEW s \in Sections, Polish(f, s)
      PROVE  Running(f) /\ s \in DOMAIN flows[f].step /\ Written(f, s, "polished", "P-EXPRESSION-POLISH")
  BY <1>3 DEF Polish, Written
<1> QED
  BY <1>1, <1>2, <1>3, Zenon DEF Write

\* No step takes a workflow away or changes what it is.
LEMMA Grown ==
    ASSUME Typed, Families, [Next]_vars
    PROVE  /\ flows' \in Seq(FlowRow)
           /\ Len(flows) \in Nat /\ Len(flows') \in Nat /\ Len(flows) <= Len(flows')
           /\ \A g \in Ids : Same(g) /\ flows[g].children \subseteq flows'[g].children
<1>1. Len(flows) \in Nat /\ flows \in Seq(FlowRow)
  BY LenProperties DEF Typed
<1> DEFINE Goal == /\ flows' \in Seq(FlowRow) /\ Len(flows) <= Len(flows')
                   /\ \A g \in Ids : Same(g) /\ flows[g].children \subseteq flows'[g].children
<1>2. CASE flows' = flows
  BY <1>1, <1>2 DEF Same
<1>3. CASE Insert
  BY <1>1, <1>3, InsertFrame DEF Insert, Same
<1>4. CASE Bear
  <2>1. PICK f \in Ids, s \in Sections : Spawn(f, s) \/ SpawnDies(f, s)
    BY <1>4 DEF Bear
  <2>2. /\ flows' \in Seq(FlowRow) /\ Len(flows') = Len(flows) + 1
        /\ \A g \in Ids : g # f => flows'[g] = flows[g]
        /\ Same(f) /\ flows[f].children \subseteq flows'[f].children
    BY <2>1, BearFrame DEF SameChildren
  <2> QED
    BY ONLY <1>1, <2>2 DEF Same
<1>5. CASE Settle
  <2>1. PICK f \in Ids, st \in Statuses : SetStatus(f, st)
    BY <1>5, Settled
  <2>2. /\ flows' \in Seq(FlowRow) /\ Len(flows') = Len(flows)
        /\ \A g \in Ids : g # f => flows'[g] = flows[g]
        /\ Same(f) /\ SameChildren(f)
    BY <2>1, SettleFrame
  <2> QED
    BY ONLY <1>1, <2>2 DEF Same, SameChildren
<1>6. CASE Write
  <2>1. PICK f \in Ids, s \in Sections :
           /\ s \in DOMAIN flows[f].step
           /\ \/ flows' = flows
              \/ \E v \in Steps : flows' = [flows EXCEPT ![f].step[s] = v, ![f].wrote[s] = Len(texts) + 1]
    BY <1>6, WriteFrame DEF Refused, Written, Steps
  <2>2. CASE flows' # flows
    <3>1. PICK v \in Steps : flows' = [flows EXCEPT ![f].step[s] = v, ![f].wrote[s] = Len(texts) + 1]
      BY <2>1, <2>2
    <3>2. Len(texts) + 1 \in Nat /\ FamilyOf(f)
      BY LenProperties DEF Typed, Families
    <3>3. /\ flows' \in Seq(FlowRow) /\ Len(flows') = Len(flows)
          /\ \A g \in Ids : g # f => flows'[g] = flows[g]
          /\ Same(f) /\ SameChildren(f)
      BY <2>1, <3>1, <3>2, StepFrame
    <3> QED
      BY ONLY <1>1, <3>3 DEF Same, SameChildren
  <2> QED
    BY <1>2, <2>2
<1>7. CASE Rewrite
  <2>1. PICK c \in Ids :
           /\ flows' \in Seq(FlowRow) /\ Len(flows') = Len(flows)
           /\ \A g \in Ids : g # c => flows'[g] = flows[g]
           /\ Same(c) /\ SameChildren(c)
    BY <1>7, RewriteFrame DEF Rewrite
  <2> QED
    BY ONLY <1>1, <2>1 DEF Same, SameChildren
<1>8. ASSUME NEW r \in Requests, StartAgain(r) PROVE flows' = flows
  BY <1>8 DEF StartAgain
<1>9. Goal
  BY <1>2, <1>3, <1>4, <1>5, <1>6, <1>7, <1>8, Kinds
<1> QED
  BY <1>1, <1>9, LenProperties

\* The texts written so far stay.
LEMMA TextsGrown ==
    ASSUME Typed, Families, [Next]_vars
    PROVE  /\ texts' \in Seq(TextRow) /\ Len(texts) \in Nat
           /\ \/ texts' = texts
              \/ Write
<1>1. texts \in Seq(TextRow) /\ Len(texts) \in Nat
  BY LenProperties DEF Typed
<1>2. CASE Write
  <2>1. PICK f \in Ids, s \in Sections, prompt \in Producers, pass \in BOOLEAN :
           texts' = Append(texts, NewText(f, s, prompt, pass))
    BY <1>2, WriteFrame DEF Refused, Written, Producers
  <2>2. NewText(f, s, prompt, pass) \in TextRow
    BY DEF NewText, TextRow
  <2> QED
    BY <1>1, <1>2, <2>1, <2>2, AppendProperties
<1>3. CASE texts' = texts
  BY <1>1, <1>3
<1> QED
  BY <1>2, <1>3, Kinds DEF Insert, Start, StartDies, Bear, Spawn, SpawnDies, Settle, Run, ChildDone,
     IntegrationPass, Export, Fault, Recover, Rewrite, IntegrationRewrites, StartAgain

-----------------------------------------------------------------------------
(* The parts of the invariant, one after another.                           *)

\* The newest of the workflows that a key names is the one there is.
LEMMA NamedOnce ==
    ASSUME Typed, KeysName, NEW r \in Requests, Started(r.type, r.key) # {}
    PROVE  Newest(Started(r.type, r.key)) \in Started(r.type, r.key)
<1>1. PICK f \in Started(r.type, r.key) : TRUE
  OBVIOUS
<1>2. f \in Nat /\ f <= f
  BY LenProperties DEF Started, Typed
<1>3. \A g \in Started(r.type, r.key) : g = f
  BY <1>1 DEF Started, KeysName
<1>4. \E x \in Started(r.type, r.key) : \A g \in Started(r.type, r.key) : g <= x
  BY <1>1, <1>2, <1>3
<1> QED
  BY <1>4 DEF Newest

\* What a request is answered with, and when.
LEMMA AnsweredStep ==
    ASSUME Typed, KeysName, [Next]_vars
    PROVE  \/ answered' = answered
           \/ \E r \in Requests : \E a \in Ids' :
                 /\ answered' = [answered EXCEPT ![r] = @ \cup {a}]
                 /\ flows'[a].type = r.type /\ flows'[a].key = r.key
<1>1. ASSUME NEW r \in Requests, Start(r)
      PROVE  \E a \in Ids' : /\ answered' = [answered EXCEPT ![r] = @ \cup {a}]
                             /\ flows'[a].type = r.type /\ flows'[a].key = r.key
  <2>1. NewFlow(r, r.key) \in FlowRow /\ flows' = Append(flows, NewFlow(r, r.key))
    BY <1>1, Insertable DEF Start
  <2>2. /\ Len(flows') = Len(flows) + 1 /\ flows'[Len(flows) + 1] = NewFlow(r, r.key)
        /\ Len(flows) \in Nat
    BY <2>1, FlowAdded, LenProperties DEF Typed
  <2>3. NewFlow(r, r.key).type = r.type /\ NewFlow(r, r.key).key = r.key
    BY DEF NewFlow, Flow
  <2>4. Len(flows) + 1 \in Ids'
    BY <2>2
  <2> QED
    BY <1>1, <2>2, <2>3, <2>4 DEF Start
<1>2. ASSUME NEW r \in Requests, StartAgain(r)
      PROVE  \E a \in Ids' : /\ answered' = [answered EXCEPT ![r] = @ \cup {a}]
                             /\ flows'[a].type = r.type /\ flows'[a].key = r.key
  BY <1>2, NamedOnce DEF StartAgain, Started
<1>3. ASSUME NEW r \in Requests, StartDies(r) PROVE answered' = answered
  BY <1>3 DEF StartDies
<1> QED
  BY <1>1, <1>2, <1>3, Kinds DEF Insert, Bear, Spawn, SpawnDies, Settle, Run, ChildDone,
     IntegrationPass, Export, Fault, Recover, Write, Draft, Polish, Rewrite, IntegrationRewrites

\* The rows of a table that have something in common can be counted.
LEMMA RowsCounted == ASSUME NEW n \in Nat, NEW S \in SUBSET (1 .. n) PROVE Cardinality(S) \in Nat
<1>1. IsFiniteSet(1 .. n)
  BY FS_Interval
<1> QED
  BY <1>1, FS_Subset, FS_CardinalityType

\* The bound on the trouble of a run is one on its losses.
LEMMA TroubleCounted ==
    ASSUME Typed, Families, [Next]_vars PROVE losses' \in 0 .. MaxTrouble
<1>1. MaxTrouble \in Nat /\ losses \in Nat /\ losses <= MaxTrouble
  BY BoundsAssumption DEF Typed
<1>2. CASE losses' = losses
  BY <1>1, <1>2
<1>3. CASE Next /\ losses' = losses + 1
  <2> DEFINE blocked == {f \in Ids' : flows'[f].status = "BLOCKED"}
             refused == {t \in 1 .. Len(texts') : ~texts'[t].pass}
  <2>1. Len(flows') \in Nat /\ Len(texts') \in Nat
    BY Grown, TextsGrown, LenProperties
  <2>2. Cardinality(blocked) \in Nat /\ Cardinality(refused) \in Nat
    <3>1. blocked \in SUBSET (1 .. Len(flows')) /\ refused \in SUBSET (1 .. Len(texts'))
      OBVIOUS
    <3> QED
      BY ONLY <2>1, <3>1, RowsCounted
  <2>3. losses' + Cardinality(blocked) + Cardinality(refused) <= MaxTrouble
    BY <1>3, Zenon DEF Next, Within, Trouble
  <2> HIDE DEF blocked, refused
  <2> QED
    BY <1>1, <1>3, <2>2, <2>3
<1> QED
  BY ZenonT(40), <1>2, <1>3 DEF Next, Step, Start, StartAgain, StartDies, Run, ChildDone, IntegrationPass,
     Export, Fault, Recover, Spawn, SpawnDies, Draft, Polish, IntegrationRewrites

\* The tables keep their types.
LEMMA TypedStep ==
    ASSUME Typed, KeysName, Families, [Next]_vars PROVE Typed'
<1>1. answered' \in [Requests -> SUBSET Nat]
  <2>1. Ids' \subseteq Nat
    OBVIOUS
  <2> QED
    BY <2>1, AnsweredStep DEF Typed
<1> QED
  BY <1>1, Grown, TextsGrown, TroubleCounted DEF Typed

\* Two workflows of a type are never stored under one key, and who asks under the key is
\* told of the one there is.
LEMMA KeysStep ==
    ASSUME Typed, KeysName, Families, [Next]_vars PROVE KeysName'
<1>1. /\ Len(flows) \in Nat /\ Len(flows') \in Nat /\ Len(flows) <= Len(flows')
      /\ \A g \in Ids : flows'[g].type = flows[g].type /\ flows'[g].key = flows[g].key
  BY Grown DEF Same
<1>2. \A r \in Requests : \A a \in answered'[r] :
         a \in Ids' /\ flows'[a].type = r.type /\ flows'[a].key = r.key
  <2> SUFFICES ASSUME NEW r \in Requests, NEW a \in answered'[r]
               PROVE  a \in Ids' /\ flows'[a].type = r.type /\ flows'[a].key = r.key
    OBVIOUS
  <2>1. CASE a \in answered[r]
    BY <1>1, <2>1 DEF KeysName
  <2>2. CASE a \notin answered[r]
    BY <2>2, AnsweredStep DEF Typed
  <2> QED
    BY <2>1, <2>2
<1>3. CASE Len(flows') = Len(flows)
  BY <1>1, <1>2, <1>3 DEF KeysName
<1>4. CASE Insert
  <2>1. PICK r \in Requests : Start(r) \/ StartDies(r)
    BY <1>4 DEF Insert
  <2>2. PICK key \in Keys :
           /\ key \in {r.key, NoKey}
           /\ key # NoKey => Started(r.type, r.key) = {}
           /\ Len(flows') = Len(flows) + 1 /\ flows'[Len(flows) + 1] = NewFlow(r, key)
    BY <2>1, InsertFrame
  <2>3. flows'[Len(flows) + 1].type = r.type /\ flows'[Len(flows) + 1].key = key
    BY <2>2 DEF NewFlow, Flow
  <2>4. \A f \in Ids : ~(flows[f].key = key /\ key # NoKey /\ flows[f].type = r.type)
    BY <2>2 DEF Started
  <2>5. Ids' = Ids \cup {Len(flows) + 1}
    BY <1>1, <2>2
  <2>6. ASSUME NEW f \in Ids', NEW g \in Ids', flows'[f].key = flows'[g].key,
               flows'[f].key # NoKey, flows'[f].type = flows'[g].type
        PROVE  f = g
    <3>1. CASE f \in Ids /\ g \in Ids
      BY <1>1, <2>6, <3>1 DEF KeysName
    <3>2. CASE f \notin Ids \/ g \notin Ids
      BY <1>1, <2>3, <2>4, <2>5, <2>6, <3>2
    <3> QED
      BY <3>1, <3>2
  <2> QED
    BY <1>2, <2>6 DEF KeysName
<1>5. CASE Bear
  <2>1. Len(flows') = Len(flows) + 1 /\ flows'[Len(flows) + 1].key = NoKey
    <3>1. PICK f \in Ids, s \in Sections : Spawn(f, s) \/ SpawnDies(f, s)
      BY <1>5 DEF Bear
    <3>2. /\ Len(flows') = Len(flows) + 1
          /\ flows'[Len(flows) + 1] = Flow("authoring", NoKey, "RUNNING", FALSE, {s}, f)
      BY <3>1, BearFrame
    <3> QED
      BY <3>2 DEF Flow
  <2>2. Ids' = Ids \cup {Len(flows) + 1}
    BY <1>1, <2>1
  <2> QED
    BY <1>1, <1>2, <2>1, <2>2 DEF KeysName
<1>6. CASE Settle \/ Write \/ Rewrite
  <2>1. Len(flows') = Len(flows)
    <3>1. CASE Settle
      BY <3>1, Settled, SettleFrame
    <3>2. CASE Write
      <4>1. PICK f \in Ids, s \in Sections :
               /\ s \in DOMAIN flows[f].step
               /\ \/ flows' = flows
                  \/ \E v \in Steps : flows' = [flows EXCEPT ![f].step[s] = v, ![f].wrote[s] = Len(texts) + 1]
        BY <3>2, WriteFrame DEF Refused, Written, Steps
      <4>2. Len(texts) + 1 \in Nat /\ FamilyOf(f)
        BY LenProperties DEF Typed, Families
      <4>3. ASSUME NEW v \in Steps, flows' = [flows EXCEPT ![f].step[s] = v, ![f].wrote[s] = Len(texts) + 1]
            PROVE  Len(flows') = Len(flows)
        BY <4>1, <4>2, <4>3, StepFrame
      <4> QED
        BY <4>1, <4>3
    <3>3. CASE Rewrite
      BY <3>3, RewriteFrame DEF Rewrite
    <3> QED
      BY <1>6, <3>1, <3>2, <3>3
  <2> QED
    BY <1>3, <2>1
<1>7. CASE flows' = flows
  BY <1>3, <1>7
<1> QED
  BY <1>4, <1>5, <1>6, <1>7, Kinds DEF StartAgain

\* A row that is written, settled or rewritten keeps its place and its children, and so
\* does every other.
LEMMA WriteKeeps ==
    ASSUME Typed, Families, Write
    PROVE  /\ Len(flows') = Len(flows)
           /\ \A g \in Ids : SameChildren(g) /\ SameStatus(g) /\ (~Running(g) => flows'[g] = flows[g])
<1>1. PICK f \in Ids, s \in Sections :
         /\ Running(f) /\ s \in DOMAIN flows[f].step
         /\ \/ flows' = flows
            \/ \E v \in Steps : flows' = [flows EXCEPT ![f].step[s] = v, ![f].wrote[s] = Len(texts) + 1]
  BY WriteFrame DEF Refused, Written, Steps
<1>2. Len(texts) + 1 \in Nat /\ FamilyOf(f)
  BY LenProperties DEF Typed, Families
<1>3. ASSUME NEW v \in Steps, flows' = [flows EXCEPT ![f].step[s] = v, ![f].wrote[s] = Len(texts) + 1]
      PROVE  /\ Len(flows') = Len(flows) /\ SameChildren(f) /\ SameStatus(f)
             /\ \A g \in Ids : g # f => flows'[g] = flows[g]
  BY <1>1, <1>2, <1>3, StepFrame
<1> QED
  BY <1>1, <1>3 DEF SameChildren, SameStatus

\* What ends a workflow or sends a section back adds no workflow and no child.
LEMMA OthersKeep ==
    ASSUME Typed, Families, Settle \/ Rewrite
    PROVE  Len(flows') = Len(flows) /\ \A g \in Ids : SameChildren(g)
<1>1. CASE Settle
  <2>1. PICK f \in Ids, st \in Statuses : SetStatus(f, st)
    BY <1>1, Settled
  <2> QED
    BY <2>1, SettleFrame DEF SameChildren
<1>2. CASE Rewrite
  BY <1>2, RewriteFrame DEF Rewrite, SameChildren
<1> QED
  BY <1>1, <1>2

\* A workflow has the children that name it as their parent, each with sections of its own.
LEMMA FamiliesStep ==
    ASSUME Typed, Families, [Next]_vars PROVE Families'
<1>1. /\ Len(flows) \in Nat /\ Len(flows') \in Nat /\ Len(flows) <= Len(flows')
      /\ \A g \in Ids : Same(g)
  BY Grown
<1>2. ASSUME NEW g \in Ids, SameChildren(g) PROVE FamilyOf(g)'
  <2>1. FamilyOf(g) /\ flows[g].children \subseteq Ids /\ flows'[g].children = flows[g].children
    BY <1>2 DEF Families, FamilyOf, SameChildren
  <2>2. \A c \in flows[g].children : flows'[c].parent = flows[c].parent
                                     /\ DOMAIN flows'[c].step = DOMAIN flows[c].step
    BY <1>1, <2>1 DEF Same
  <2>3. Same(g)
    BY <1>1
  <2>4. Ids \subseteq Ids'
    BY <1>1
  <2> QED
    BY ONLY <2>1, <2>2, <2>3, <2>4 DEF FamilyOf, Same
<1>3. CASE Len(flows') = Len(flows) /\ \A g \in Ids : SameChildren(g)
  BY <1>1, <1>2, <1>3 DEF Families
<1>4. CASE Insert
  <2>1. PICK r \in Requests, key \in Keys : /\ Len(flows') = Len(flows) + 1
                                            /\ flows'[Len(flows) + 1] = NewFlow(r, key)
                                            /\ \A g \in Ids : flows'[g] = flows[g]
    BY <1>4, InsertFrame DEF Insert
  <2>2. PICK new \in Nat : new = Len(flows) + 1
    BY <1>1
  <2>3. /\ flows'[new].parent = 0 /\ flows'[new].children = {}
        /\ DOMAIN flows'[new].wrote = DOMAIN flows'[new].step
        /\ flows'[new].type = "authoring" /\ ~flows'[new].split => DOMAIN flows'[new].step = Sections
    BY <2>1, <2>2 DEF NewFlow, Flow
  <2>4. FamilyOf(new)'
    BY ONLY <2>2, <1>1, <2>3 DEF FamilyOf
  <2>5. Ids' = Ids \cup {new}
    BY <1>1, <2>1, <2>2
  <2>6. \A g \in Ids : FamilyOf(g)'
    BY <1>2, <2>1 DEF SameChildren
  <2> QED
    BY <2>4, <2>5, <2>6 DEF Families
<1>5. CASE Bear
  <2>1. PICK f \in Ids, s \in Sections : Spawn(f, s) \/ SpawnDies(f, s)
    BY <1>5 DEF Bear
  <2>0. PICK new \in Nat : new = Len(flows) + 1
    BY <1>1
  <2>2. /\ Len(flows') = new
        /\ flows'[new] = Flow("authoring", NoKey, "RUNNING", FALSE, {s}, f)
        /\ \A g \in Ids : g # f => flows'[g] = flows[g]
        /\ \/ SameChildren(f)
           \/ flows'[f].children = flows[f].children \cup {new}
        /\ s \in Unassigned(f)
    BY <2>0, <2>1, BearFrame DEF Spawn, SpawnDies
  <2>3. new \notin Ids /\ f \in 0 .. new - 1 /\ f # 0 /\ Ids' = Ids \cup {new}
    BY <1>1, <2>0, <2>2
  <2>4. /\ flows'[new].parent = f /\ flows'[new].type = "authoring" /\ DOMAIN flows'[new].step = {s}
        /\ DOMAIN flows'[new].wrote = {s} /\ flows'[new].children = {}
    BY <2>2 DEF Flow
  <2>5. FamilyOf(new)'
    BY ONLY <2>3, <2>4 DEF FamilyOf
  <2>6. ASSUME flows'[f].children = flows[f].children \cup {new} PROVE FamilyOf(f)'
    <3>1. FamilyOf(f) /\ flows[f].children \subseteq Ids
      BY DEF Families, FamilyOf
    <3>2. \A c \in flows[f].children : flows'[c].parent = flows[c].parent
                                       /\ DOMAIN flows'[c].step = DOMAIN flows[c].step
      BY <1>1, <3>1 DEF Same
    <3>3. \A c \in flows[f].children : s \notin DOMAIN flows[c].step
      BY <2>2 DEF Unassigned
    <3>4. \A c \in flows'[f].children : c \in Ids' /\ flows'[c].parent = f
      BY <2>3, <2>4, <2>6, <3>1, <3>2 DEF FamilyOf
    <3>5. \A c, d \in flows'[f].children :
             c # d => DOMAIN flows'[c].step \cap DOMAIN flows'[d].step = {}
      BY <2>4, <2>6, <3>1, <3>2, <3>3 DEF FamilyOf
    <3>6. /\ flows'[f].type = flows[f].type /\ flows'[f].split = flows[f].split
          /\ flows'[f].parent = flows[f].parent
          /\ DOMAIN flows'[f].step = DOMAIN flows[f].step
          /\ DOMAIN flows'[f].wrote = DOMAIN flows[f].wrote
      BY <1>1 DEF Same
    <3>7. flows'[f].children \subseteq {c \in Ids' : flows'[c].parent = f}
      BY <3>4
    <3> QED
      BY ONLY <3>1, <3>5, <3>6, <3>7 DEF FamilyOf
  <2>7. FamilyOf(f)'
    BY <1>2, <2>2, <2>6
  <2>8. \A g \in Ids : g # f => FamilyOf(g)'
    BY <1>2, <2>2 DEF SameChildren
  <2> QED
    BY <2>3, <2>5, <2>7, <2>8 DEF Families
<1>6. CASE flows' = flows
  BY <1>3, <1>6 DEF SameChildren
<1>7. CASE Settle \/ Write \/ Rewrite
  BY <1>3, <1>7, WriteKeeps, OthersKeep
<1> QED
  BY <1>4, <1>5, <1>6, <1>7, Kinds DEF StartAgain

\* What a text that passes changes of its workflow.
LEMMA WrittenFrame ==
    ASSUME Typed, Families, NEW f \in Ids, NEW s \in DOMAIN flows[f].step, NEW v \in Steps,
           NEW prompt, Written(f, s, v, prompt)
    PROVE  /\ \A g \in Ids : g # f => flows'[g] = flows[g]
           /\ flows'[f].step[s] = v /\ flows'[f].wrote[s] = Len(texts) + 1
           /\ \A x \in DOMAIN flows[f].step : x # s =>
                 flows'[f].step[x] = flows[f].step[x] /\ flows'[f].wrote[x] = flows[f].wrote[x]
<1>1. FamilyOf(f)
  BY DEF Families
<1>2. ASSUME NEW w \in Nat, flows' = [flows EXCEPT ![f].step[s] = v, ![f].wrote[s] = w]
      PROVE  /\ \A g \in Ids : g # f => flows'[g] = flows[g]
             /\ flows'[f].step[s] = v /\ flows'[f].wrote[s] = w
             /\ \A x \in DOMAIN flows[f].step : x # s =>
                   flows'[f].step[x] = flows[f].step[x] /\ flows'[f].wrote[x] = flows[f].wrote[x]
  <2>1. \A g \in Ids : g # f => flows'[g] = flows[g]
    BY <1>1, <1>2, StepFrame
  <2>2. flows'[f].step[s] = v
    BY <1>1, <1>2, StepFrame
  <2>3. flows'[f].wrote[s] = w
    <3>1. flows \in Seq(FlowRow) /\ flows[f] \in FlowRow
      BY RowFields DEF Typed
    <3>2. DOMAIN flows[f].wrote = DOMAIN flows[f].step
      BY <1>1 DEF FamilyOf
    <3> QED
      BY <1>2, <3>1, <3>2 DEF FlowRow
  <2>4. ASSUME NEW x \in DOMAIN flows[f].step, x # s
        PROVE  flows'[f].step[x] = flows[f].step[x] /\ flows'[f].wrote[x] = flows[f].wrote[x]
    BY <1>1, <1>2, <2>4, StepFrame
  <2> QED
    BY <2>1, <2>2, <2>3, <2>4
<1>3. Len(texts) + 1 \in Nat
  BY LenProperties DEF Typed
<1> QED
  BY <1>2, <1>3 DEF Written

\* What else stays: the texts known to a workflow, unless it writes.
LEMMA WorkKept ==
    ASSUME Typed, Families, Insert \/ Bear \/ Settle
    PROVE  /\ texts' = texts
           /\ \A g \in Ids : SameWork(g)
           /\ \A g \in Ids' \ Ids : \A s \in DOMAIN flows'[g].step :
                 flows'[g].step[s] = "todo" /\ flows'[g].wrote[s] = 0
<1>0. Len(flows) \in Nat
  BY LenProperties DEF Typed
<1>1. CASE Insert
  <2>1. PICK r \in Requests, key \in Keys : /\ Len(flows') = Len(flows) + 1
                                            /\ flows'[Len(flows) + 1] = NewFlow(r, key)
                                            /\ \A g \in Ids : flows'[g] = flows[g]
    BY <1>1, InsertFrame DEF Insert
  <2>2. \A s \in DOMAIN NewFlow(r, key).step :
           NewFlow(r, key).step[s] = "todo" /\ NewFlow(r, key).wrote[s] = 0
    BY DEF NewFlow, Flow
  <2>3. texts' = texts
    BY <1>1 DEF Insert, Start, StartDies
  <2>4. Ids' \ Ids = {Len(flows) + 1}
    BY <1>0, <2>1
  <2> QED
    BY <2>1, <2>2, <2>3, <2>4 DEF SameWork
<1>2. CASE Bear
  <2>1. PICK f \in Ids, s \in Sections : Spawn(f, s) \/ SpawnDies(f, s)
    BY <1>2 DEF Bear
  <2>2. /\ Len(flows') = Len(flows) + 1
        /\ flows'[Len(flows) + 1] = Flow("authoring", NoKey, "RUNNING", FALSE, {s}, f)
        /\ \A g \in Ids : g # f => flows'[g] = flows[g]
        /\ SameWork(f)
    BY <2>1, BearFrame
  <2>3. texts' = texts
    BY <2>1 DEF Spawn, SpawnDies
  <2>4. Ids' \ Ids = {Len(flows) + 1}
    BY <1>0, <2>2
  <2>5. \A x \in DOMAIN flows'[Len(flows) + 1].step :
           flows'[Len(flows) + 1].step[x] = "todo" /\ flows'[Len(flows) + 1].wrote[x] = 0
    BY <2>2 DEF Flow
  <2> QED
    BY ONLY <2>2, <2>3, <2>4, <2>5 DEF SameWork
<1>3. CASE Settle
  <2>1. PICK f \in Ids, st \in Statuses : SetStatus(f, st)
    BY <1>3, Settled
  <2>2. texts' = texts
    BY <1>3 DEF Settle, Run, ChildDone, IntegrationPass, Export, Fault, Recover
  <2> QED
    BY <2>1, <2>2, SettleFrame DEF SameWork
<1> QED
  BY <1>1, <1>2, <1>3

\* What a new text changes of what is known.
LEMMA TextAdded ==
    ASSUME Typed, NEW f \in Ids, NEW s \in Sections, NEW prompt \in Producers, NEW pass \in BOOLEAN,
           texts' = Append(texts, NewText(f, s, prompt, pass))
    PROVE  /\ Len(texts) \in Nat /\ Len(texts') = Len(texts) + 1
           /\ \A t \in 1 .. Len(texts) : texts'[t] = texts[t]
           /\ texts'[Len(texts) + 1] = NewText(f, s, prompt, pass)
           /\ \A g, x : Passed(g, x)' = IF g = f /\ x = s /\ pass
                                        THEN Passed(g, x) \cup {Len(texts) + 1} ELSE Passed(g, x)
<1>1. /\ Len(texts) \in Nat /\ Len(texts') = Len(texts) + 1
      /\ \A t \in 1 .. Len(texts) : texts'[t] = texts[t]
      /\ texts'[Len(texts) + 1] = NewText(f, s, prompt, pass)
  <2>1. NewText(f, s, prompt, pass) \in TextRow
    <3>1. f \in Nat
      BY LenProperties DEF Typed
    <3> QED
      BY <3>1 DEF NewText, TextRow
  <2> QED
    BY <2>1, RowAdded DEF Typed
<1>2. 1 .. Len(texts') = (1 .. Len(texts)) \cup {Len(texts) + 1}
  BY <1>1
<1>3. /\ texts'[Len(texts) + 1].flow = f /\ texts'[Len(texts) + 1].section = s
      /\ texts'[Len(texts) + 1].pass = pass
  BY <1>1 DEF NewText
<1>4. ASSUME NEW g, NEW x
      PROVE  Passed(g, x)' = IF g = f /\ x = s /\ pass
                             THEN Passed(g, x) \cup {Len(texts) + 1} ELSE Passed(g, x)
  <2>1. \A t \in 1 .. Len(texts) : t \in Passed(g, x)' <=> t \in Passed(g, x)
    BY <1>1, <1>2 DEF Passed
  <2>2. Len(texts) + 1 \in Passed(g, x)' <=> (g = f /\ x = s /\ pass)
    BY <1>1, <1>2, <1>3 DEF Passed
  <2>3. /\ \A t \in Passed(g, x) : t \in 1 .. Len(texts)
        /\ \A t \in Passed(g, x)' : t \in 1 .. Len(texts) \/ t = Len(texts) + 1
    BY <1>2 DEF Passed
  <2> QED
    <3>1. CASE g = f /\ x = s /\ pass
      BY ONLY <2>1, <2>2, <2>3, <3>1
    <3>2. CASE ~(g = f /\ x = s /\ pass)
      <4>1. \A t \in Passed(g, x)' : t \in Passed(g, x)
        BY ONLY <2>1, <2>2, <2>3, <3>2
      <4>2. \A t \in Passed(g, x) : t \in Passed(g, x)'
        BY ONLY <2>1, <2>3
      <4>3. Passed(g, x)' = Passed(g, x)
        BY ONLY <4>1, <4>2
      <4> QED
        BY ONLY <3>2, <4>3
    <3> QED
      BY <3>1, <3>2
<1> QED
  BY <1>1, <1>4

\* A workflow goes on knowing the newest text of each of its sections.
LEMMA WroteStep ==
    ASSUME Typed, Families, Wrote, [Next]_vars PROVE Wrote'
<1>0. /\ Len(flows) \in Nat /\ Len(flows') \in Nat /\ Len(flows) <= Len(flows')
      /\ \A g \in Ids : Same(g)
  BY Grown
<1>1. \A g \in Ids : DOMAIN flows'[g].step = DOMAIN flows[g].step
  BY <1>0 DEF Same
<1>2. \A t \in 1 .. Len(texts) : texts[t].flow \in Ids'
                                 /\ texts[t].section \in DOMAIN flows'[texts[t].flow].step
  BY <1>0, <1>1 DEF Wrote
<1>3. ASSUME NEW g \in Ids, NEW s \in DOMAIN flows[g].step, texts' = texts,
             flows'[g].wrote[s] = flows[g].wrote[s],
             flows'[g].step[s] = flows[g].step[s] \/ flows'[g].step[s] = "todo"
      PROVE  WroteOf(g, s)'
  <2>1. WroteOf(g, s)
    BY DEF Wrote
  <2> QED
    BY ONLY <1>3, <2>1 DEF WroteOf, Passed, NewestOf
<1>4. CASE texts' = texts /\ Ids' = Ids /\ \A g \in Ids : SameWork(g)
  <2>1. ASSUME NEW g \in Ids, NEW s \in DOMAIN flows[g].step PROVE WroteOf(g, s)'
    BY <1>3, <1>4 DEF SameWork
  <2> QED
    <3>1. \A g \in Ids' : \A s \in DOMAIN flows'[g].step : WroteOf(g, s)'
      BY <1>1, <1>4, <2>1
    <3>2. \A t \in 1 .. Len(texts') :
             texts'[t].flow \in Ids' /\ texts'[t].section \in DOMAIN flows'[texts'[t].flow].step
      BY <1>2, <1>4
    <3> QED
      BY ONLY <3>1, <3>2 DEF Wrote
<1>5. CASE Insert \/ Bear \/ Settle
  <2>1. /\ texts' = texts
        /\ \A g \in Ids : SameWork(g)
        /\ \A g \in Ids' \ Ids : \A s \in DOMAIN flows'[g].step :
              flows'[g].step[s] = "todo" /\ flows'[g].wrote[s] = 0
    BY <1>5, WorkKept
  <2>2. ASSUME NEW g \in Ids' \ Ids, NEW s \in DOMAIN flows'[g].step PROVE WroteOf(g, s)'
    <3>1. Passed(g, s)' = {}
      BY <2>1 DEF Passed, Wrote
    <3> QED
      BY <2>1, <3>1 DEF WroteOf, NewestOf
  <2>3. ASSUME NEW g \in Ids, NEW s \in DOMAIN flows'[g].step PROVE WroteOf(g, s)'
    BY <1>1, <1>3, <2>1 DEF SameWork
  <2> QED
    BY <1>2, <2>1, <2>2, <2>3 DEF Wrote
<1>6. CASE Rewrite
  <2>1. PICK c \in Ids, s \in Sections :
           /\ s \in DOMAIN flows[c].step /\ Len(flows') = Len(flows)
           /\ \A g \in Ids : g # c => flows'[g] = flows[g]
           /\ flows'[c].wrote = flows[c].wrote /\ flows'[c].step[s] = "todo"
           /\ \A x \in DOMAIN flows[c].step : x # s => flows'[c].step[x] = flows[c].step[x]
    BY <1>6, RewriteFrame DEF Rewrite
  <2>2. texts' = texts
    BY <1>6 DEF Rewrite, IntegrationRewrites
  <2>3. ASSUME NEW g \in Ids, NEW x \in DOMAIN flows'[g].step PROVE WroteOf(g, x)'
    BY <1>1, <1>3, <2>1, <2>2
  <2> QED
    BY <1>2, <2>1, <2>2, <2>3 DEF Wrote
<1>7. CASE Write
  <2>1. PICK f \in Ids, s \in Sections :
           /\ s \in DOMAIN flows[f].step
           /\ \/ Refused(f, s)
              \/ Written(f, s, "drafted", "P-WRITE-CONTENT")
              \/ Written(f, s, "polished", "P-EXPRESSION-POLISH")
    BY <1>7, WriteFrame
  <2>2. Ids' = Ids
    BY <1>7, WriteKeeps
  <2>3. ASSUME NEW prompt \in Producers, NEW pass \in BOOLEAN,
               texts' = Append(texts, NewText(f, s, prompt, pass))
        PROVE  \A t \in 1 .. Len(texts') :
                  texts'[t].flow \in Ids' /\ texts'[t].section \in DOMAIN flows'[texts'[t].flow].step
    <3>1. /\ Len(texts) \in Nat /\ Len(texts') = Len(texts) + 1
          /\ \A t \in 1 .. Len(texts) : texts'[t] = texts[t]
          /\ texts'[Len(texts) + 1] = NewText(f, s, prompt, pass)
      BY <2>3, TextAdded
    <3>2. NewText(f, s, prompt, pass).flow = f /\ NewText(f, s, prompt, pass).section = s
      BY DEF NewText
    <3> QED
      BY <1>1, <1>2, <2>1, <2>2, <3>1, <3>2
  <2>4. ASSUME Refused(f, s) PROVE Wrote'
    <3>1. texts' = Append(texts, NewText(f, s, "P-WRITE-CONTENT", FALSE)) /\ flows' = flows
      BY <2>4 DEF Refused
    <3>2. /\ Len(texts) \in Nat
          /\ \A t \in 1 .. Len(texts) : texts'[t] = texts[t]
          /\ \A g, x : Passed(g, x)' = Passed(g, x)
      <4>1. FALSE \in BOOLEAN /\ "P-WRITE-CONTENT" \in Producers
        BY DEF Producers
      <4>2. /\ Len(texts) \in Nat
            /\ \A t \in 1 .. Len(texts) : texts'[t] = texts[t]
            /\ \A g, x : Passed(g, x)' = IF g = f /\ x = s /\ FALSE
                                         THEN Passed(g, x) \cup {Len(texts) + 1} ELSE Passed(g, x)
        BY <3>1, <4>1, TextAdded, Zenon
      <4> QED
        BY ONLY <4>2
    <3>3. ASSUME NEW g \in Ids, NEW x \in DOMAIN flows[g].step PROVE WroteOf(g, x)'
      <4>1. WroteOf(g, x)
        BY DEF Wrote
      <4>2. flows[g].wrote[x] # 0 => texts'[flows[g].wrote[x]] = texts[flows[g].wrote[x]]
        BY <3>2, <4>1 DEF WroteOf, NewestOf, Passed
      <4> QED
        BY ONLY <3>1, <3>2, <4>1, <4>2 DEF WroteOf, NewestOf
    <3> QED
      BY <2>2, <2>3, <3>1, <3>3 DEF Wrote, Producers
  <2>5. ASSUME NEW v \in Steps, NEW prompt \in Producers, Written(f, s, v, prompt),
               v = "drafted" => prompt = "P-WRITE-CONTENT"
        PROVE  Wrote'
    <3>1. /\ texts' = Append(texts, NewText(f, s, prompt, TRUE))
          /\ flows' = [flows EXCEPT ![f].step[s] = v, ![f].wrote[s] = Len(texts) + 1]
      BY <2>5 DEF Written
    <3>2. /\ Len(texts) \in Nat /\ Len(texts') = Len(texts) + 1
          /\ \A t \in 1 .. Len(texts) : texts'[t] = texts[t]
          /\ texts'[Len(texts) + 1] = NewText(f, s, prompt, TRUE)
          /\ \A g, x : Passed(g, x)' = IF g = f /\ x = s
                                       THEN Passed(g, x) \cup {Len(texts) + 1} ELSE Passed(g, x)
      <4>1. /\ Len(texts) \in Nat /\ Len(texts') = Len(texts) + 1
            /\ \A t \in 1 .. Len(texts) : texts'[t] = texts[t]
            /\ texts'[Len(texts) + 1] = NewText(f, s, prompt, TRUE)
            /\ \A g, x : Passed(g, x)' = IF g = f /\ x = s /\ TRUE
                                         THEN Passed(g, x) \cup {Len(texts) + 1} ELSE Passed(g, x)
        BY <3>1, TextAdded, Zenon
      <4> QED
        BY ONLY <4>1
    <3>3. FamilyOf(f) /\ Len(texts) + 1 \in Nat
      BY <3>2 DEF Families
    <3>4. /\ \A g \in Ids : g # f => flows'[g] = flows[g]
          /\ flows'[f].step[s] = v /\ flows'[f].wrote[s] = Len(texts) + 1
          /\ \A x \in DOMAIN flows[f].step : x # s =>
                flows'[f].step[x] = flows[f].step[x] /\ flows'[f].wrote[x] = flows[f].wrote[x]
      BY <2>1, <2>5, WrittenFrame
    <3>5. ASSUME NEW g \in Ids, NEW x \in DOMAIN flows[g].step, g # f \/ x # s PROVE WroteOf(g, x)'
      <4>1. WroteOf(g, x)
        BY DEF Wrote
      <4>2. flows[g].wrote[x] # 0 => texts'[flows[g].wrote[x]] = texts[flows[g].wrote[x]]
        BY <3>2, <4>1 DEF WroteOf, NewestOf, Passed
      <4>3. flows'[g].wrote[x] = flows[g].wrote[x] /\ flows'[g].step[x] = flows[g].step[x]
        BY <3>4, <3>5
      <4>4. Passed(g, x)' = Passed(g, x)
        BY <3>2, <3>5
      <4> QED
        BY ONLY <4>1, <4>2, <4>3, <4>4 DEF WroteOf, NewestOf
    <3>6. WroteOf(f, s)'
      <4>1. Passed(f, s)' = Passed(f, s) \cup {Len(texts) + 1}
        BY <3>2
      <4>2. \A t \in Passed(f, s)' : t <= Len(texts) + 1
        BY <3>2, <4>1 DEF Passed
      <4>3. v = "drafted" => texts'[Len(texts) + 1].prompt = "P-WRITE-CONTENT"
        BY <2>5, <3>2 DEF NewText
      <4>4. Len(texts) + 1 # 0 /\ Len(texts) + 1 \in Passed(f, s)'
        BY <3>2, <4>1
      <4> QED
        BY ONLY <3>4, <4>2, <4>3, <4>4 DEF WroteOf, NewestOf
    <3>7. \A g \in Ids : \A x \in DOMAIN flows[g].step : WroteOf(g, x)'
      BY <3>5, <3>6
    <3>8. \A t \in 1 .. Len(texts') :
             texts'[t].flow \in Ids' /\ texts'[t].section \in DOMAIN flows'[texts'[t].flow].step
      BY <2>3, <3>1
    <3> QED
      BY ONLY <1>1, <2>2, <3>7, <3>8 DEF Wrote
  <2>6. "drafted" \in Steps /\ "polished" \in Steps /\ "P-WRITE-CONTENT" \in Producers
        /\ "P-EXPRESSION-POLISH" \in Producers
    BY DEF Steps, Producers
  <2> QED
    BY <2>1, <2>4, <2>5, <2>6
<1>8. ASSUME UNCHANGED <<flows, texts>> PROVE Wrote'
  BY <1>4, <1>8 DEF SameWork
<1> QED
  BY <1>5, <1>6, <1>7, <1>8, Kinds DEF StartAgain

\* A workflow that is not running, that nothing running has as its child and that is not
\* recovered is left alone.
LEMMA Rests ==
    ASSUME Typed, Families, [Next]_vars, NEW c \in Ids, ~Running(c), ~Recover(c),
           flows[c].parent = 0 \/ ~Running(flows[c].parent)
    PROVE  flows'[c] = flows[c]
<1>1. CASE Insert
  BY <1>1, InsertFrame DEF Insert
<1>2. CASE Bear
  <2>1. PICK f \in Ids, s \in Sections : Spawn(f, s) \/ SpawnDies(f, s)
    BY <1>2 DEF Bear
  <2>2. f # c
    BY <2>1 DEF Spawn, SpawnDies
  <2> QED
    BY <2>1, <2>2, BearFrame
<1>3. CASE Settle
  <2>1. PICK f \in Ids, st \in Statuses :
           /\ SetStatus(f, st)
           /\ Running(f) \/ Recover(f) \/ (st = "BLOCKED" /\ flows[f].status # "COMPLETED")
    BY <1>3, Settled
  <2>2. CASE f # c
    BY <2>1, <2>2, SettleFrame
  <2>3. CASE f = c
    <3>1. st = "BLOCKED" /\ flows[c].status = "BLOCKED" /\ flows[c] \in FlowRow
      BY <2>1, <2>3, RowFields DEF Running, Statuses
    <3>2. flows'[c] = [flows[c] EXCEPT !.status = "BLOCKED"]
      BY <2>1, <2>3, <3>1, StatusSet
    <3> QED
      BY ONLY <3>1, <3>2 DEF FlowRow
  <2> QED
    BY <2>2, <2>3
<1>4. CASE Write
  BY <1>4, WriteKeeps
<1>5. CASE Rewrite
  <2>1. PICK f \in Ids, s \in Sections : IntegrationRewrites(f, s)
    BY <1>5 DEF Rewrite
  <2>2. PICK a \in Ids : a \in Authors(f) /\ \A g \in Ids : g # a => flows'[g] = flows[g]
    BY <2>1, RewriteFrame
  <2>3. Running(f)
    BY <2>1 DEF IntegrationRewrites, Integrable
  <2>4. a = f \/ flows[a].parent = f
    <3>1. FamilyOf(f)
      BY DEF Families
    <3>2. a = f \/ a \in flows[f].children
      BY <2>2 DEF Authors
    <3> QED
      BY ONLY <3>1, <3>2 DEF FamilyOf
  <2>5. a # c
    BY <2>3, <2>4, LenProperties DEF Typed
  <2> QED
    BY <2>2, <2>5
<1>6. CASE flows' = flows
  BY <1>6
<1> QED
  BY <1>1, <1>2, <1>3, <1>4, <1>5, <1>6, Kinds DEF StartAgain

\* A completed proposal stays one, whatever happens around it.
LEMMA StaysDone ==
    ASSUME Typed, Families, [Next]_vars, NEW g \in Ids, Proposal(g), ProposalDone(g)
    PROVE  Proposal(g)' /\ ProposalDone(g)'
<1>1. flows'[g] = flows[g]
  BY Rests DEF Proposal, Running, Recover
<1>2. Authors(g)' = Authors(g)
  BY <1>1 DEF Authors
<1>3. ASSUME NEW c \in Authors(g) PROVE flows'[c] = flows[c]
  <2>1. c = g \/ (c \in Ids /\ flows[c].parent = g)
    <3>1. FamilyOf(g)
      BY DEF Families
    <3>2. c = g \/ c \in flows[g].children
      BY DEF Authors
    <3> QED
      BY ONLY <3>1, <3>2 DEF FamilyOf
  <2>2. CASE c = g
    BY <1>1, <2>2
  <2>3. CASE c \in Ids /\ flows[c].parent = g
    <3>1. flows[c].status = "COMPLETED" /\ flows[g].status = "COMPLETED"
      BY DEF ProposalDone, Proposal
    <3> QED
      BY <2>3, <3>1, Rests DEF Running, Recover
  <2> QED
    BY <2>1, <2>2, <2>3
<1>4. Proposal(g)'
  BY <1>1 DEF Proposal
<1>5. ProposalDone(g)'
  BY ONLY <1>2, <1>3, ProposalDone(g) DEF ProposalDone
<1> QED
  BY <1>4, <1>5

\* A proposal is completed by a review of all of it.
LEMMA BecomesDone ==
    ASSUME Typed, Families, [Next]_vars, NEW g \in Ids', Proposal(g)', ~(g \in Ids /\ Proposal(g))
    PROVE  ProposalDone(g)'
<1>0. Len(flows) \in Nat
  BY LenProperties DEF Typed
<1>1. Settle
  <2>1. ~Insert
    <3>1. ASSUME Insert PROVE FALSE
      <4>1. PICK r \in Requests, key \in Keys : /\ Len(flows') = Len(flows) + 1
                                                /\ flows'[Len(flows) + 1] = NewFlow(r, key)
                                                /\ \A h \in Ids : flows'[h] = flows[h]
        BY <3>1, InsertFrame DEF Insert
      <4>2. flows'[Len(flows) + 1].status # "COMPLETED"
        BY <4>1 DEF NewFlow, Flow, StartStatus
      <4>3. g = Len(flows) + 1 \/ g \in Ids
        BY <1>0, <4>1
      <4> QED
        BY <4>1, <4>2, <4>3 DEF Proposal
    <3> QED
      BY <3>1
  <2>2. ~Bear
    <3>1. ASSUME Bear PROVE FALSE
      <4>1. PICK f \in Ids, s \in Sections : Spawn(f, s) \/ SpawnDies(f, s)
        BY <3>1 DEF Bear
      <4>2. /\ Len(flows') = Len(flows) + 1
            /\ flows'[Len(flows) + 1] = Flow("authoring", NoKey, "RUNNING", FALSE, {s}, f)
            /\ \A h \in Ids : h # f => flows'[h] = flows[h]
            /\ Same(f) /\ SameStatus(f)
        BY <4>1, BearFrame
      <4>3. flows'[Len(flows) + 1].status # "COMPLETED"
        BY <4>2 DEF Flow
      <4>4. g = Len(flows) + 1 \/ g \in Ids
        BY <1>0, <4>2
      <4> QED
        BY <4>2, <4>3, <4>4 DEF Proposal, Same, SameStatus
    <3> QED
      BY <3>1
  <2>3. ~Write
    BY WriteKeeps, Grown DEF Proposal, SameStatus, Same
  <2>4. ~Rewrite
    <3>1. ASSUME Rewrite PROVE FALSE
      <4>1. PICK c \in Ids : /\ Len(flows') = Len(flows) /\ flows'[c].status = "RUNNING"
                             /\ \A h \in Ids : h # c => flows'[h] = flows[h]
        BY <3>1, RewriteFrame DEF Rewrite
      <4> QED
        BY <4>1 DEF Proposal
    <3> QED
      BY <3>1
  <2>5. flows' # flows
    BY DEF Proposal
  <2> QED
    BY <2>1, <2>2, <2>3, <2>4, <2>5, Kinds DEF StartAgain
<1>2. PICK f \in Ids, st \in Statuses :
         /\ SetStatus(f, st)
         /\ st = "COMPLETED" => \/ flows[f].type # "authoring" \/ flows[f].parent # 0
                                \/ Integrable(f)
  BY <1>1, Settled
<1>3. /\ Len(flows') = Len(flows) /\ \A h \in Ids : h # f => flows'[h] = flows[h]
      /\ Same(f) /\ SameWork(f) /\ SameChildren(f) /\ flows'[f].status = st
  BY <1>2, SettleFrame
<1>4. g = f /\ flows[g].type = "authoring" /\ flows[g].parent = 0 /\ st = "COMPLETED"
  BY <1>3 DEF Proposal, Same
<1>5. Integrable(g)
  BY <1>2, <1>4
<1>6. Authors(g)' = Authors(g)
  BY <1>3, <1>4 DEF Authors, Same, SameChildren
<1>7. flows'[g].status = "COMPLETED" /\ flows'[g].step = flows[g].step
  BY <1>3, <1>4 DEF SameWork, Proposal
<1>8. ASSUME NEW c \in Authors(g)
      PROVE  flows'[c].status = "COMPLETED" /\ flows'[c].step = flows[c].step
  <2>1. CASE c = g
    BY <1>7, <2>1
  <2>2. CASE c # g
    <3>1. flows[g].split /\ c \in flows[g].children /\ c \in Ids
      BY <1>4, <2>2 DEF Authors, Families, FamilyOf
    <3> QED
      BY <1>3, <1>4, <1>5, <2>2, <3>1 DEF Integrable
  <2> QED
    BY <2>1, <2>2
<1>9. Sections \subseteq UNION {DOMAIN flows[c].step : c \in Authors(g)}
  <2>1. CASE flows[g].split
    BY <1>5, <2>1 DEF Integrable, Unassigned, Authors
  <2>2. CASE ~flows[g].split
    BY <1>4, <2>2 DEF Authors, Families, FamilyOf
  <2> QED
    BY <2>1, <2>2
<1>10. \A c \in Authors(g) : \A s \in DOMAIN flows[c].step : flows[c].step[s] = "polished"
  BY <1>5 DEF Integrable
<1>11. Sections \subseteq UNION {DOMAIN flows'[c].step : c \in Authors(g)}
  BY <1>8, <1>9
<1> QED
  BY ONLY <1>6, <1>8, <1>10, <1>11 DEF ProposalDone

\* A proposal that is completed is a whole one.
LEMMA DoneStep ==
    ASSUME Typed, Families, Done, [Next]_vars PROVE Done'
BY StaysDone, BecomesDone DEF Done

\* What a step notes of starts, faults and recoveries.
LEMMA Noted ==
    ASSUME [Next]_vars
    PROVE  \/ Insert
           \/ \E f \in Ids : Fault(f) \/ Recover(f)
           \/ UNCHANGED recovery /\ \A f \in Ids : ~Recover(f)
<1>1. ASSUME UNCHANGED recovery, NEW f \in Ids PROVE ~Recover(f)
  BY <1>1 DEF Recover
<1>2. ASSUME Bear \/ Write \/ Rewrite \/ (\E r \in Requests : StartAgain(r)) \/ UNCHANGED vars
      PROVE  UNCHANGED recovery
  BY <1>2 DEF Bear, Spawn, SpawnDies, Write, Draft, Polish, Rewrite, IntegrationRewrites, StartAgain
<1>3. ASSUME Settle PROVE (\E f \in Ids : Fault(f) \/ Recover(f)) \/ UNCHANGED recovery
  BY <1>3 DEF Settle, Run, ChildDone, IntegrationPass, Export
<1> QED
  BY <1>1, <1>2, <1>3, Kinds

\* A WF-5 that was started without a completed proposal stands still until it is
\* recovered; every other has one.
LEMMA HeldStep ==
    ASSUME Typed, Families, Done, Held, [Next]_vars PROVE Held'
<1>0. /\ Len(flows) \in Nat /\ Len(flows') \in Nat /\ Len(flows) <= Len(flows')
      /\ \A g \in Ids : flows'[g].type = flows[g].type /\ flows'[g].parent = flows[g].parent
  BY Grown DEF Same
<1>1. (\E g \in Ids : Proposal(g)) => \E g \in Ids' : Proposal(g)'
  BY <1>0, StaysDone DEF Done
<1>2. ASSUME NEW f \in marked \cup (unmet \ resumed), ~Recover(f)
      PROVE  flows'[f].status = "BLOCKED" /\ flows'[f].parent = 0
  <2>1. f \in Ids /\ flows[f].status = "BLOCKED" /\ flows[f].parent = 0
    BY DEF Held
  <2> QED
    BY <1>2, <2>1, Rests DEF Running
<1>3. \A f \in Ids \ unmet : flows'[f].type = "export" => \E g \in Ids' : Proposal(g)'
  BY <1>0, <1>1 DEF Held
<1>4. CASE Insert
  <2>1. PICK r \in Requests : Start(r) \/ StartDies(r)
    BY <1>4 DEF Insert
  <2> DEFINE new == Len(flows) + 1
  <2>2. PICK key \in Keys : /\ Len(flows') = new /\ flows'[new] = NewFlow(r, key)
                            /\ \A g \in Ids : flows'[g] = flows[g]
    BY <2>1, InsertFrame
  <2>3. /\ flows'[new].type = r.type /\ flows'[new].status = StartStatus(r)
        /\ flows'[new].parent = 0
    BY <2>2 DEF NewFlow, Flow
  <2>4. /\ marked' = marked /\ resumed' = resumed
        /\ unmet' = IF StartStatus(r) = "BLOCKED" THEN unmet \cup {new} ELSE unmet
    BY <2>1 DEF Start, StartDies, Note
  <2>5. ASSUME r.type = "export", StartStatus(r) # "BLOCKED" PROVE \E g \in Ids : Proposal(g)
    <3>1. "authoring" \in Required(r)
      BY <2>5 DEF Required, Needs
    <3>2. Completed("authoring")
      BY <2>5, <3>1 DEF StartStatus
    <3> QED
      BY <3>2 DEF Completed, Proposal
  <2>6. new \notin Ids /\ Ids' = Ids \cup {new}
    BY <1>0, <2>2
  <2> HIDE DEF new
  <2>7. marked' \subseteq Ids' /\ unmet' \subseteq Ids' /\ resumed' \subseteq unmet'
    BY <2>4, <2>6 DEF Held
  <2>8. \A f \in marked' \cup (unmet' \ resumed') :
           flows'[f].status = "BLOCKED" /\ flows'[f].parent = 0
    BY <2>2, <2>3, <2>4, <2>6 DEF Held
  <2>9. \A f \in Ids' \ unmet' : flows'[f].type = "export" => \E g \in Ids' : Proposal(g)'
    BY <1>1, <1>3, <2>3, <2>4, <2>5, <2>6
  <2> QED
    BY <2>7, <2>8, <2>9 DEF Held
<1>5. ASSUME NEW h \in Ids, Fault(h) PROVE Held'
  <2>1. SetStatus(h, "BLOCKED") /\ flows[h].parent = 0
    BY <1>5 DEF Fault
  <2>2. /\ Len(flows') = Len(flows) /\ flows'[h].status = "BLOCKED"
        /\ \A g \in Ids : g # h => flows'[g] = flows[g]
    BY <2>1, SettleFrame DEF Statuses
  <2>3. marked' = marked \cup {h} /\ UNCHANGED <<unmet, resumed>>
    BY <1>5 DEF Fault
  <2> QED
    BY <1>0, <1>3, <2>1, <2>2, <2>3 DEF Held
<1>6. ASSUME NEW h \in Ids, Recover(h) PROVE Held'
  <2>1. SetStatus(h, "RUNNING")
    BY <1>6 DEF Recover
  <2>2. /\ Len(flows') = Len(flows) /\ \A g \in Ids : g # h => flows'[g] = flows[g]
    BY <2>1, SettleFrame DEF Statuses
  <2>3. /\ marked' = marked \ {h} /\ unmet' = unmet
        /\ resumed' = resumed \cup ({h} \cap unmet)
    BY <1>6 DEF Recover
  <2> QED
    BY <1>0, <1>3, <2>2, <2>3 DEF Held
<1>7. CASE ~Insert /\ UNCHANGED recovery /\ \A f \in Ids : ~Recover(f)
  <2>1. marked' \subseteq Ids' /\ unmet' \subseteq Ids' /\ resumed' \subseteq unmet'
    BY <1>0, <1>7 DEF Held
  <2>2. \A f \in marked' \cup (unmet' \ resumed') :
           flows'[f].status = "BLOCKED" /\ flows'[f].parent = 0
    BY <1>2, <1>7 DEF Held
  <2>3. ASSUME NEW f \in Ids' \ Ids PROVE flows'[f].type # "export"
    <3>1. Len(flows') # Len(flows)
      BY <1>0
    <3>2. Bear
      BY <1>7, <3>1, WriteKeeps, OthersKeep, Kinds DEF StartAgain
    <3>3. PICK h \in Ids, s \in Sections : Spawn(h, s) \/ SpawnDies(h, s)
      BY <3>2 DEF Bear
    <3>4. /\ Len(flows') = Len(flows) + 1
          /\ flows'[Len(flows) + 1] = Flow("authoring", NoKey, "RUNNING", FALSE, {s}, h)
      BY <3>3, BearFrame
    <3>5. f = Len(flows) + 1
      BY <1>0, <3>4
    <3> QED
      BY <3>4, <3>5 DEF Flow
  <2>4. \A f \in Ids' \ unmet' : flows'[f].type = "export" => \E g \in Ids' : Proposal(g)'
    BY <1>3, <1>7, <2>3
  <2> QED
    BY <2>1, <2>2, <2>4 DEF Held
<1> QED
  BY <1>4, <1>5, <1>6, <1>7, Noted

\* The newest of a set of texts.
LEMMA NewestIs ==
    ASSUME NEW ts \in SUBSET Nat, NEW w \in ts, \A t \in ts : t <= w
    PROVE  LatestText(ts) = w
<1>1. \A x \in ts : (\A t \in ts : t <= x) => x = w
  OBVIOUS
<1>2. Newest(ts) = w
  BY <1>1 DEF Newest
<1> QED
  BY <1>2 DEF LatestText

\* A polish is shown the draft of its own workflow.
LEMMA PolishReads ==
    ASSUME Typed, Wrote, NEW f \in Ids, NEW s \in Sections, Polish(f, s)
    PROVE  shown'[1] = shown'[2]
<1> DEFINE w == flows[f].wrote[s]
<1>1. s \in DOMAIN flows[f].step /\ flows[f].step[s] = "drafted"
  BY DEF Polish
<1>2. WroteOf(f, s)
  BY <1>1 DEF Wrote
<1>3. /\ w \in Passed(f, s) /\ \A t \in Passed(f, s) : t <= w
      /\ texts[w].prompt = "P-WRITE-CONTENT"
  BY <1>1, <1>2 DEF WroteOf, NewestOf
<1>4. SectionTexts(f, s) \subseteq Passed(f, s) /\ w \in SectionTexts(f, s)
  BY <1>3 DEF SectionTexts, Passed
<1>5. SectionTexts(f, s) \in SUBSET Nat
  BY LenProperties DEF SectionTexts, Typed
<1>6. LatestText(SectionTexts(f, s)) = w
  BY <1>3, <1>4, <1>5, NewestIs
<1> QED
  BY <1>6 DEF Polish

\* An integration review is shown what each author of the document wrote last.
LEMMA DocumentReads ==
    ASSUME Typed, Families, Wrote, NEW f \in Ids, Integrable(f), ShowDocument(f)
    PROVE  shown'[1] = shown'[2]
<1> DEFINE fs == Authors(f)
           of(s) == {t \in 1 .. Len(texts) : /\ texts[t].flow \in fs /\ texts[t].section = s
                                             /\ texts[t].pass}
<1>1. ASSUME NEW s \in Sections PROVE of(s) # {} /\ LatestText(of(s)) = flows[Author(f, s)].wrote[s]
  <2> DEFINE a == Author(f, s)
             w == flows[a].wrote[s]
  <2>1. a \in Authors(f) /\ a \in Ids /\ s \in DOMAIN flows[a].step
    BY AuthorIs
  <2>2. flows[a].step[s] = "polished"
    BY <2>1 DEF Integrable
  <2>3. WroteOf(a, s)
    BY <2>1 DEF Wrote
  <2> HIDE DEF a
  <2>4. w \in Passed(a, s) /\ \A t \in Passed(a, s) : t <= w
    BY <2>2, <2>3 DEF WroteOf, NewestOf
  <2>5. ASSUME NEW t \in of(s) PROVE t \in Passed(a, s)
    <3>1. /\ texts[t].flow \in Authors(f) /\ s \in DOMAIN flows[texts[t].flow].step
          /\ texts[t].section = s /\ texts[t].pass /\ t \in 1 .. Len(texts)
      BY DEF Wrote
    <3>2. texts[t].flow = a
      BY <2>1, <3>1 DEF Authors, Families, FamilyOf
    <3> QED
      BY <3>1, <3>2 DEF Passed
  <2>6. Passed(a, s) \subseteq of(s)
    BY <2>1 DEF Passed
  <2>7. of(s) = Passed(a, s)
    BY <2>5, <2>6
  <2>8. Passed(a, s) \in SUBSET Nat
    BY LenProperties DEF Passed, Typed
  <2>9. LatestText(Passed(a, s)) = w
    BY <2>4, <2>8, NewestIs
  <2>10. Passed(a, s) # {}
    BY <2>4
  <2> QED
    BY <2>7, <2>9, <2>10 DEF a
<1>2. {s \in Sections : of(s) # {}} = Sections
  BY <1>1
<1>3. Candidates(fs) = [s \in {s \in Sections : of(s) # {}} |-> LatestText(of(s))]
  BY DEF Candidates
<1>4. Candidates(fs) = [s \in Sections |-> flows[Author(f, s)].wrote[s]]
  BY <1>1, <1>2, <1>3
<1> QED
  BY <1>4 DEF ShowDocument

\* No prompt is shown what another workflow wrote.
LEMMA ReadsOwnStep ==
    ASSUME Typed, Families, Wrote, ReadsOwn, [Next]_vars PROVE ReadsOwn'
<1>1. ASSUME NEW f \in Ids, NEW s \in Sections, Polish(f, s) PROVE ReadsOwn'
  BY <1>1, PolishReads DEF ReadsOwn
<1>2. ASSUME NEW f \in Ids, IntegrationPass(f) PROVE ReadsOwn'
  BY <1>2, DocumentReads DEF ReadsOwn, IntegrationPass
<1>3. ASSUME NEW f \in Ids, NEW s \in Sections, IntegrationRewrites(f, s) PROVE ReadsOwn'
  BY <1>3, DocumentReads DEF ReadsOwn, IntegrationRewrites
<1>4. CASE shown' = shown
  BY <1>4 DEF ReadsOwn
<1> QED
  BY <1>1, <1>2, <1>3, <1>4 DEF Next, Step, Start, StartAgain, StartDies, Run, ChildDone,
     Export, Fault, Recover, Spawn, SpawnDies, Draft

-----------------------------------------------------------------------------

\* A project begins with nothing in it.
LEMMA InitHolds == Init => IInv
<1> SUFFICES ASSUME Init PROVE IInv
  OBVIOUS
<1>1. flows = <<>> /\ texts = <<>> /\ Len(flows) = 0 /\ Len(texts) = 0
  BY DEF Init
<1>2. Ids = {} /\ 1 .. Len(texts) = {}
  BY <1>1
<1>3. Typed
  <2>1. <<>> \in Seq(FlowRow) /\ <<>> \in Seq(TextRow)
    BY EmptySeq
  <2>2. losses \in 0 .. MaxTrouble
    BY BoundsAssumption DEF Init
  <2> QED
    BY <1>1, <2>1, <2>2 DEF Typed, Init
<1>4. KeysName
  BY <1>2 DEF KeysName, Init
<1>5. Families /\ Wrote /\ Done /\ Held
  BY <1>2 DEF Families, Wrote, Done, Held, Init
<1>6. ReadsOwn
  BY DEF Init, ReadsOwn
<1> QED
  BY <1>3, <1>4, <1>5, <1>6 DEF IInv

\* What the workflows of a project are, whatever is asked, lost, refused or written:
\* the invariant the theorems below rest on (runtime_workflows, workflow_authoring_base,
\* context_base).
THEOREM Inductive == Spec => []IInv
<1>1. IInv /\ [Next]_vars => IInv'
  BY TypedStep, KeysStep, FamiliesStep, WroteStep, DoneStep, HeldStep, ReadsOwnStep DEF IInv
<1> QED
  BY InitHolds, <1>1, PTL DEF Spec

\* The tables hold rows of what the code stores, a child's parent is older than the
\* child, and a section that is not to be written has a text.
THEOREM ProjectTyped == Spec => []TypeOK
<1>1. IInv => TypeOK
  <2> SUFFICES ASSUME IInv PROVE TypeOK
    OBVIOUS
  <2>1. Typed /\ Families /\ Wrote /\ KeysName
    BY DEF IInv
  <2>2. ASSUME NEW f \in Ids
        PROVE  /\ flows[f].type \in Types /\ flows[f].status \in Statuses
               /\ flows[f].parent \in 0 .. f - 1 /\ flows[f].split \in BOOLEAN
               /\ flows[f].children \subseteq {c \in Ids : flows[c].parent = f}
    BY <2>1, RowFields DEF Families, FamilyOf
  <2>3. ASSUME NEW f \in Ids
        PROVE  /\ DOMAIN flows[f].step \subseteq Sections
               /\ \A s \in DOMAIN flows[f].step : flows[f].step[s] \in Steps
    BY <2>1, RowFields, PartialFunctions
  <2>4. ASSUME NEW f \in Ids, NEW s \in DOMAIN flows[f].step
        PROVE  /\ flows[f].wrote[s] \in 0 .. Len(texts)
               /\ flows[f].step[s] # "todo" => flows[f].wrote[s] # 0
    <3>1. WroteOf(f, s)
      BY <2>1 DEF Wrote
    <3>2. Len(texts) \in Nat
      BY <2>1, LenProperties DEF Typed
    <3> QED
      BY <3>1, <3>2 DEF WroteOf, NewestOf, Passed
  <2>5. ASSUME NEW t \in 1 .. Len(texts)
        PROVE  /\ texts[t].flow \in Ids /\ texts[t].section \in Sections
               /\ texts[t].prompt \in Producers /\ texts[t].pass \in BOOLEAN
    <3>1. texts[t] \in TextRow
      BY <2>1, ElementOfSeq DEF Typed
    <3> QED
      BY <2>1, <3>1 DEF TextRow, Wrote
  <2>6. losses \in 0 .. MaxTrouble /\ \A r \in Requests : answered[r] \subseteq Ids
    BY <2>1 DEF Typed, KeysName
  <2>7. /\ marked \cup unmet \subseteq Ids /\ resumed \subseteq unmet
        /\ \A f \in marked : flows[f].status = "BLOCKED"
    BY DEF IInv, Held
  <2> QED
    BY <2>2, <2>3, <2>4, <2>5, <2>6, <2>7 DEF TypeOK
<1> QED
  BY Inductive, <1>1, PTL

\* Whoever repeats a start under the same key is told of the same workflow, after any
\* number of lost answers and deaths between the two transactions of a start
\* (runtime_workflows.start).
THEOREM ProjectAnswersAlike == Spec => []SameAnswer
<1>1. IInv => SameAnswer
  <2> SUFFICES ASSUME IInv, NEW r \in Requests, r.key # NoKey PROVE Cardinality(answered[r]) <= 1
    BY DEF SameAnswer
  <2>1. \A a, b \in answered[r] : a = b
    BY DEF IInv, KeysName
  <2>2. CASE answered[r] = {}
    BY <2>2, FS_EmptySet
  <2>3. CASE answered[r] # {}
    <3>1. PICK a \in answered[r] : answered[r] = {a}
      BY <2>1, <2>3
    <3>2. Cardinality({a}) = 1
      BY FS_Singleton, Zenon
    <3> QED
      BY ONLY <3>1, <3>2
  <2> QED
    BY <2>2, <2>3
<1> QED
  BY Inductive, <1>1, PTL

\* Whatever is started, blocked, faulted, recovered, completed or lost, and in whatever
\* order, a WF-5 that is not blocked has a proposal that was completed as a whole and
\* still is (_workflow_prerequisite_error), unless it was started too early and a
\* recovery, which asks for nothing, set it RUNNING (runtime_workflows._recover_status).
THEOREM ProjectRunsOnPrerequisites == Spec => []RunsOnPrerequisites
<1>1. IInv => RunsOnPrerequisites
  <2> SUFFICES ASSUME IInv, NEW f \in Ids, flows[f].type = "export", flows[f].status # "BLOCKED",
                      f \notin resumed
               PROVE  \E g \in Ids : Proposal(g) /\ ProposalDone(g)
    BY DEF Proposal, ProposalDone, RunsOnPrerequisites
  <2> QED
    BY DEF IInv, Done, Held
<1> QED
  BY Inductive, <1>1, PTL

\* A polish and an integration review are shown the texts of their own workflow and its
\* children, whatever others wrote (context.py, "workflow-and-section isolation").
THEOREM ProjectReadsOwn == Spec => []ReadsOwn
<1>1. IInv => ReadsOwn
  BY DEF IInv
<1> QED
  BY Inductive, <1>1, PTL

==============================================================================
