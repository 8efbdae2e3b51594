----------------------------- MODULE SectionChain -----------------------------
(***************************************************************************)
(* The chain every section goes through when a proposal is written, as     *)
(* functions of the row of the workflow that writes it (the WF-4 itself,   *)
(* or one of its children in a full proposal):                             *)
(* blueprint, critic, content, critic, polish, critic, with one targeted   *)
(* repair per section for each of the first two critics.                   *)
(*                                                                         *)
(* A text is abstracted to its version: how many times its section had     *)
(* been demanded when the text was asked for (0: there is no such text).   *)
(***************************************************************************)
EXTENDS Naturals

CONSTANTS
    NSections,    \* sections in document order
    MaxVersion    \* bound: demands for one section

ASSUME SectionsAssumption == NSections \in Nat \ {0} /\ MaxVersion \in Nat \ {0}

Sections == 1 .. NSections
Versions == 0 .. MaxVersion

\* Mutant of After: the polish is the last phase.
AfterUncritical == [BLUEPRINT |-> "BLUEPRINT_CRITIC", BLUEPRINT_CRITIC |-> "CONTENT",
                    CONTENT |-> "CONTENT_CRITIC", CONTENT_CRITIC |-> "POLISH",
                    POLISH |-> "DONE", EXPRESSION_CRITIC |-> "DONE"]
\* SECTION_PHASES: the phase that follows, and who is in charge of it.
After == [BLUEPRINT |-> "BLUEPRINT_CRITIC", BLUEPRINT_CRITIC |-> "CONTENT",
          CONTENT |-> "CONTENT_CRITIC", CONTENT_CRITIC |-> "POLISH",
          POLISH |-> "EXPRESSION_CRITIC", EXPRESSION_CRITIC |-> "DONE"]
Phases == DOMAIN After
Producers == {"BLUEPRINT", "CONTENT", "POLISH"}

\* SECTION_REPAIR_CRITICS with CRITIC_PRODUCER: whose work a critic may have repaired.
Repairs == [BLUEPRINT_CRITIC |-> "BLUEPRINT", CONTENT_CRITIC |-> "CONTENT"]
Repairable == {"BLUEPRINT", "CONTENT"}

\* The part of a workflow's row that writing uses: section_results, the phase in
\* section_progress, repair_attempts, repair_overrides and
\* integration_repair_section_ids.
Rows == [status : {"RUNNING", "WAITING_GATE", "BLOCKED", "COMPLETED"},
         results : SUBSET Sections,
         phase : [Sections -> Phases \cup {"ABSENT", "DONE"}],
         tried : SUBSET (Sections \X Repairable),
         override : [Sections -> [Repairable -> Versions]],
         repair : SUBSET Sections]

NewRow == [status |-> "RUNNING", results |-> {},
           phase |-> [s \in Sections |-> "ABSENT"], tried |-> {},
           override |-> [s \in Sections |-> [p \in Repairable |-> 0]], repair |-> {}]

\* _target_sections: an integration repair narrows the sections to be written.
Targets(r, mine) == IF r.repair # {} THEN r.repair ELSE mine
Todo(r, mine) == Targets(r, mine) \ r.results
Active(r, mine) == CHOOSE s \in Todo(r, mine) : \A u \in Todo(r, mine) : s <= u

\* progress_map.setdefault: a section without progress starts at its blueprint.
Entered(r, s) == [r EXCEPT !.phase[s] = IF @ = "ABSENT" THEN "BLUEPRINT" ELSE @]

\* The text the context builder hands on: a repaired object stands for the
\* latest result of its producer as long as the override is in the state.
TextOf(r, s, texts, p) ==
    IF p \in Repairable /\ r.override[s][p] # 0 THEN r.override[s][p] ELSE texts[p]

\* Mutant of Attempted: the attempt is counted for the critic, not for the section.
AttemptedByCritic(r, s, c) == [r EXCEPT !.tried = @ \cup {Repairs[c]}]
\* _can_auto_repair and _auto_repair: one attempt per section and critic.
CanRepair(r, s, c) == c \in DOMAIN Repairs /\ <<s, Repairs[c]>> \notin r.tried
Attempted(r, s, c) == [r EXCEPT !.tried = @ \cup {<<s, Repairs[c]>>}]
Overridden(r, s, c, v) == [r EXCEPT !.override[s][Repairs[c]] = v]

\* The phase passed.  Past the last one the section's result is recorded.
Passed(r, s) ==
    LET next == After[r.phase[s]]
    IN  [r EXCEPT !.phase[s] = next, !.results = IF next = "DONE" THEN @ \cup {s} ELSE @]

\* The loop over the sections, up to the first that still has to be written.  One
\* met with its phase DONE (its results were dropped, its progress was not) is
\* recorded as it is.
Unwritten(r, mine) == {s \in Todo(r, mine) : r.phase[s] # "DONE"}
Onward(r, mine) ==
    LET q == [r EXCEPT !.results = @ \cup {s \in Todo(r, mine) :
                                        \A u \in Unwritten(r, mine) : s < u}]
    IN  IF Todo(q, mine) = {} THEN q ELSE Entered(q, Active(q, mine))

Blocked(r) == [r EXCEPT !.status = "BLOCKED"]

\* Mutant of ResetForRepair: the overrides of the rejected texts stay.
ResetKeepsOverrides(r, mine, affected) ==
    LET A == mine \cap affected
    IN  IF A = {} THEN r
        ELSE [r EXCEPT !.status = "RUNNING", !.results = @ \ A, !.repair = A,
                       !.phase = [s \in Sections |-> IF s \in A THEN "ABSENT" ELSE @[s]]]

\* _reset_full_proposal_child_for_repair: results, progress and overrides of the
\* affected sections go, the count of their repairs stays.
ResetForRepair(r, mine, affected) ==
    LET A == mine \cap affected
    IN  IF A = {} THEN r
        ELSE [r EXCEPT !.status = "RUNNING", !.results = @ \ A, !.repair = A,
                       !.phase = [s \in Sections |-> IF s \in A THEN "ABSENT" ELSE @[s]],
                       !.override = [s \in Sections |->
                            IF s \in A THEN [p \in Repairable |-> 0] ELSE @[s]]]

\* Mutant of ScheduleRepair: every section is rewritten.
ScheduleRepairOfAll(r, affected) ==
    [r EXCEPT !.results = {}, !.repair = Sections, !.phase = [s \in Sections |-> "ABSENT"]]
\* The writing branch of _prepare_integration_repair, on the parent's own row.
ScheduleRepair(r, affected) ==
    [r EXCEPT !.results = @ \ affected, !.repair = affected,
              !.phase = [s \in Sections |-> IF s \in affected THEN "ABSENT" ELSE @[s]]]

\* Its argument and planning branches: every result goes.  Only a full proposal
\* drops the progress as well (_invalidate_full_proposal_generation).
ScheduleRevision(r, full) ==
    [r EXCEPT !.results = {}, !.repair = {},
              !.phase = IF full THEN [s \in Sections |-> "ABSENT"] ELSE @]
=============================================================================
