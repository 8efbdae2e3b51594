------------------------------- MODULE MCProposal -------------------------------
\* Two sections side by side, an innovation chapter and a conclusion.  Every producer
\* may answer with a good object or with one that differs in a single respect.
EXTENDS Proposal

-----------------------------------------------------------------------------
(* Blocks.                                                                  *)

Plain(name) ==
    [kind |-> "PARAGRAPH", sentences |-> <<name>>, numbers |-> <<>>, cites |-> <<>>, meta |-> 0,
     appendix |-> FALSE, pieces |-> {name}, empty |-> FALSE, rows |-> 0, cols |-> 0,
     header |-> TRUE, emptyRow |-> FALSE, figures |-> <<>>, placeholder |-> FALSE,
     runtime |-> FALSE, path |-> FALSE, entry |-> {}]
BlockNames == {"gap", "gap2", "mechanism", "results", "figure", "closing", "answer", "todo",
               "lost figure", "sketch", "poor sketch", "no sketch", "stock figure"}
MCTraits == [b \in BlockNames |->
    CASE b = "gap"     -> [Plain(b) EXCEPT !.numbers = <<"3", "3">>, !.cites = <<"1">>]
      [] b = "gap2"    -> [Plain(b) EXCEPT !.numbers = <<"3">>, !.cites = <<"1">>]
      [] b = "results" -> [Plain(b) EXCEPT !.kind = "TABLE", !.sentences = <<>>, !.rows = 2,
                                           !.cols = 2, !.pieces = {"cell 1", "cell 2"}]
      [] b \in {"figure", "stock figure"} ->
            [Plain(b) EXCEPT !.kind = "FIGURE", !.sentences = <<>>, !.pieces = {},
                             !.figures = <<[parses |-> TRUE, exists |-> TRUE, width |-> 12,
                                            caption |-> IF b = "figure" THEN "caption" ELSE "route"]>>]
      [] b \in {"sketch", "poor sketch", "no sketch"} -> [Plain(b) EXCEPT !.kind = "MERMAID"]
      [] b = "lost figure" -> [Plain(b) EXCEPT !.kind = "FIGURE", !.sentences = <<>>, !.pieces = {},
                                           !.figures = <<[parses |-> TRUE, exists |-> FALSE,
                                                          width |-> 12, caption |-> "caption"]>>]
      [] b = "answer"  -> [Plain(b) EXCEPT !.kind = "REFERENCE", !.cites = <<"1">>,
                                           !.entry = {"1"}]
      [] b = "todo"    -> [Plain(b) EXCEPT !.placeholder = TRUE]
      [] OTHER         -> Plain(b)]
MCFrames == [x \in BlockNames |-> x]
MCLong == BlockNames \cup {"cell 1", "cell 2", "caption", "route"}
\* Two blocks whose texts differ in their ends only, and one with a short end.
MCChunks == [x \in {"mechanism", "closing", "answer"} |->
    CASE x = "mechanism" -> <<"of", "what", "is", "claimed", "the mechanism">>
      [] x = "closing"   -> <<"of", "what", "is", "claimed", "the close">>
      [] x = "answer"    -> <<"the", "answer", "">>]
MCDrawn == ("sketch" :> "figure") @@ ("poor sketch" :> Absent)
MCStocked == "Innovation" :> "stock figure"

-----------------------------------------------------------------------------
(* Upstream answers.                                                        *)

Proof == [real |-> TRUE, type |-> "EVIDENCE_MATERIAL"]
Reading == [real |-> TRUE, type |-> "PUBLIC_SOURCE"]
Item(type) == [id |-> type, type |-> type, status |-> "CONFIRMED", refs |-> {Proof}, basis |-> TRUE]
Relation(type, source, target) ==
    [id |-> type, source |-> source, target |-> target, sourceType |-> source,
     targetType |-> target, status |-> "CONFIRMED", refs |-> {Proof}, type |-> type]
Definition == [items |-> {Item(t) : t \in ResearchTypes},
               relations |-> {Relation("DECOMPOSES_TO", "OBJECTIVE", "WORK_PACKAGE")},
               systemGoal |-> FALSE]
Replaced(item) == [Definition EXCEPT !.items = {i \in @ : i.id # item.id} \cup {item}]
Definitions ==
    {Definition, [Definition EXCEPT !.items = {i \in @ : i.type # "GAP"}],
     Replaced([Item("METRIC") EXCEPT !.basis = FALSE]),
     Replaced([Item("ACHIEVEMENT") EXCEPT !.refs = {Reading}]),
     Replaced([Item("ACHIEVEMENT") EXCEPT !.status = "PENDING"]),
     [Definition EXCEPT !.relations = {Relation("DECOMPOSES_TO", "WORK_PACKAGE", "OBJECTIVE")}]}

Rule == [id |-> "rule", mandatory |-> TRUE, refs |-> {[real |-> TRUE, type |-> "GUIDE"]}]
Scheme == [rules |-> {Rule}, covered |-> {"rule"}, ambiguous |-> {}]
Schemes == {Scheme, [Scheme EXCEPT !.covered = {}], [Scheme EXCEPT !.ambiguous = {"rule"}],
            [Scheme EXCEPT !.rules = {[Rule EXCEPT !.refs = {Reading}]}]}

Fact == [id |-> "fact", clauses |-> 1, subject |-> TRUE, time |-> "CURRENT", status |-> "CONFIRMED",
         type |-> "FACT", numeric |-> FALSE, bound |-> FALSE, sourced |-> TRUE]
Public == [Fact EXCEPT !.id = "public", !.type = "PUBLIC_CLAIM"]
Facts == [claims |-> <<Fact, Public>>, covered |-> {"fact", "public"}]
FactPackages ==
    {Facts, [Facts EXCEPT !.covered = {"fact"}], [Facts EXCEPT !.claims = <<Fact, Fact>>],
     [Facts EXCEPT !.claims[1].clauses = 2], [Facts EXCEPT !.claims[1].sourced = FALSE]}

Pattern == [components |-> 5, patterns |-> TRUE, volume |-> FALSE]
Templates == {Pattern, [Pattern EXCEPT !.volume = TRUE], [Pattern EXCEPT !.patterns = FALSE]}

Node(type) == [id |-> type, type |-> type, status |-> "SUPPORTED", refs |-> {Proof}]
Graph == [nodes |-> {Node(t) : t \in NodeTypes}, central |-> "thesis", questions |-> {"question"},
          testable |-> TRUE]
Argument == [graph |-> Graph, gaps |-> FALSE, ready |-> TRUE,
             matrix |-> {[question |-> "question", links |-> [l \in Links |-> {"RESEARCH_GAP"}]]}]
Team(refs) == {n \in Graph.nodes : n.type # "TEAM_EVIDENCE"}
              \cup {[Node("TEAM_EVIDENCE") EXCEPT !.refs = refs]}
Arguments ==
    {Argument, [Argument EXCEPT !.graph.nodes = Team({Reading})],
     [Argument EXCEPT !.matrix = {}], [Argument EXCEPT !.graph.testable = FALSE]}

Contract(id, s, claims, profile) ==
    [NoContract EXCEPT !.id = id, !.section = s, !.claims = claims, !.profile = profile,
                       !.words = 10]
Innovation == [Contract("c1", "Innovation", {"NOVEL_MECHANISM"}, "INNOVATION") EXCEPT
                 !.evidence = {"fact"}, !.keys = {<<"work">>}, !.roles = {"CLAIM"}]
Conclude == [Contract("c2", "Conclusion", {"thesis", "question"}, "CONCLUSION") EXCEPT
                 !.keys = {<<"work", "sum">>}, !.prereqs = {"Innovation"}]
Extra == [Contract("c3", "Extra", {}, "EVALUATION") EXCEPT !.placement = "OMIT"]
Plan == [contracts |-> {Innovation, Conclude, Extra}, targets |-> 3, overCoverage |-> FALSE,
         cloned |-> FALSE, budget |-> 25, architecture |-> TRUE]
With(a, b, c) == [Plan EXCEPT !.contracts = {a, b, c}]
Plans ==
    {Plan, With([Innovation EXCEPT !.placement = "APPENDIX"], Conclude, Extra),
     With([Innovation EXCEPT !.prereqs = {"Conclusion"}], Conclude, Extra),
     With([Innovation EXCEPT !.prereqs = {"Extra"}], Conclude,
          [Extra EXCEPT !.prereqs = {"Conclusion"}]),
     With(Innovation, [Conclude EXCEPT !.keys = {<<"work">>}], Extra),
     With(Innovation, [Conclude EXCEPT !.words = 20], Extra),
     [Plan EXCEPT !.contracts = {}, !.budget = 0, !.architecture = FALSE],
     [Plan EXCEPT !.contracts = {}]}

MCAnswers == [scheme |-> Schemes, definition |-> Definitions, facts |-> FactPackages,
              template |-> Templates, architecture |-> Arguments, plan |-> Plans]

Full == [stage |-> "READY_FOR_SECTION_PLANNING", readyToArgue |-> TRUE, writable |-> RequiredProfiles,
         readyToPlan |-> TRUE]
MCReadings == {Full, [Full EXCEPT !.stage = "READY_FOR_ARGUMENT_ARCHITECTURE"],
               [Full EXCEPT !.readyToPlan = FALSE]}

-----------------------------------------------------------------------------
(* Critics and repairs.                                                     *)

Own(severity, precise) ==
    [code |-> "MODEL", blocking |-> TRUE, precise |-> precise, severity |-> severity]
Content == [status |-> "PASS", findings |-> {}, thorough |-> TRUE]
MCOpinions == {Content, [Content EXCEPT !.thorough = FALSE],
               [Content EXCEPT !.status = "REVISE", !.findings = {Own("P1", TRUE)}],
               [Content EXCEPT !.findings = {Own("P1", FALSE)}]}
Within == [changed |-> {<<"content", "a">>}, allowed |-> {<<"content">>}, protected |-> {},
           resolved |-> {"MODEL"}, requested |-> {"MODEL"}]
MCRepairs == {Within, [Within EXCEPT !.changed = {<<"meta">>}]}

-----------------------------------------------------------------------------
(* Sections.                                                                *)

MCSections == <<"Innovation", "Conclusion">>
MCProfileOf == [Innovation |-> "INNOVATION", Conclusion |-> "CONCLUSION"]
MCRulesOf == [INNOVATION |-> {"baseline"}, CONCLUSION |-> {}]

Paragraph(id, claim, key, contract, text) ==
    [id |-> id, plan |-> id, claim |-> claim, key |-> key, contract |-> contract,
     evidence |-> {claim}, traces |-> {}, text |-> text,
     role |-> IF Traits[text].kind \in {"FIGURE", "MERMAID"} THEN "FIGURE" ELSE "CLAIM"]
Summed(id, contract, rows) ==
    [id |-> id, text |-> <<>>, paragraphs |-> rows, traces |-> {[id |-> "t", source |-> contract]},
     contract |-> contract, claims |-> ClaimsOf(rows), keys |-> KeysOf(rows), meaningKept |-> TRUE,
     unresolved |-> FALSE]
Chapter == Summed("x1", "c1", <<
    Paragraph("p1", "NOVEL_MECHANISM", <<"work", "new">>, "c1", "gap"),
    Paragraph("p2", "CLOSEST_PRIOR_WORK", <<"work", "sum", "all">>, "c1", "results"),
    Paragraph("p3", "CLOSEST_PRIOR_WORK", <<"work", "old">>, "c1", "sketch")>>)
Sketched(text) == [Chapter EXCEPT !.paragraphs[3].text = text]
Ending(key, text) == Summed("x2", "c2", <<
    Paragraph("p1", "thesis", key, "c2", text),
    Paragraph("p2", "question", <<"work", "sum", "answer">>, "c2", "answer"),
    Paragraph("p3", "NOVEL_MECHANISM", <<"work", "sum", "new">>, "c2", "mechanism")>>)
Last1 == Ending(<<"work", "sum", "end">>, "closing")
MCDrafts == [
    Innovation |-> {Chapter, Sketched("poor sketch"), Sketched("no sketch"), Summed("x1", "c1", Tail(Chapter.paragraphs)),
                    [Chapter EXCEPT !.traces = {[id |-> "t", source |-> "nothing"]}]},
    Conclusion |-> {Last1, Ending(<<"work", "sum", "all">>, "closing"),
                    Ending(<<"work", "sum", "end">>, "results"),
                    Ending(<<"other">>, "closing")}]
Row(key, claim) == [key |-> key, claim |-> claim, role |-> "CLAIM", slots |-> {}, generic |-> FALSE]
MCBlueprints == [
    Innovation |-> {<<Row(<<"work", "new">>, "NOVEL_MECHANISM")>>,
                    <<Row(<<>>, "NOVEL_MECHANISM")>>},
    Conclusion |-> {<<Row(<<"work", "sum">>, "thesis"), Row(<<"work", "sum", "answer">>, "question")>>}]
\* The editor keeps it, swaps a text or the first claim.
MCPolished(x) ==
    LET c == [x EXCEPT !.text = <<>>] IN
    {c, [c EXCEPT !.paragraphs[1].text = "gap2"], [c EXCEPT !.paragraphs[1].text = "todo"],
     [c EXCEPT !.paragraphs[1].claim = "RESEARCH_GAP"],
     [c EXCEPT !.paragraphs[3].text = "lost figure"]}

Report == [mapped |-> {}, consistent |-> TRUE, mappingsComplete |-> TRUE, chains |-> Chains,
           scored |-> Dimensions, chained |-> {}]
MCIntegrations == {Report, [Report EXCEPT !.consistent = FALSE],
                   [Report EXCEPT !.chained = {"nothing"}]}

NoTemplate == <<>>
NoOne == {}

=============================================================================
