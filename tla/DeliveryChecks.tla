----------------------------- MODULE DeliveryChecks -----------------------------
(***************************************************************************)
(* The delivered document: how the exporter turns reviewed sections into a *)
(* DOCX, and what the post-export validator finds in the DOCX and the PDF. *)
(* A document is the sequence of its parts.  A section is a record         *)
(* [title, blocks].  Besides the traits the audits read a block has        *)
(*   pieces       what it shows: its text, caption or cells (a set);       *)
(*   empty        its text after the marker is blank;                      *)
(*   rows, cols, header, emptyRow   of a table (header: none is blank);    *)
(*   figures      its directives: [parses, exists, width, caption];        *)
(*   placeholder, runtime, path     what must not be delivered;            *)
(*   entry        the number of a reference entry it starts with, as a set.*)
(***************************************************************************)
EXTENDS ProposalQuality

CONSTANTS
    Long,   \* the pieces of at least four characters: the others are not looked for
    Chunks  \* of a piece of at least twenty: its text in stretches of sixteen characters (a
            \*   sequence), "" for what is left over when that is under four

-----------------------------------------------------------------------------
(* Rendering.                                                               *)

\* kind: HEADING and TEXT are paragraphs, BLANK is one without text (a picture's, and
\* the one after a table); literal: the block stands there with its marker.
Part(kind, level, of, pieces) ==
    [kind |-> kind, level |-> level, of |-> of, pieces |-> pieces,
     picture |-> 0, literal |-> FALSE]
Heading(level, of, pieces) == Part("HEADING", level, of, pieces)
Text(of, pieces) == Part("TEXT", 0, of, pieces)
Blank == Part("BLANK", 0, Absent, {})
Picture(width) == [Blank EXCEPT !.picture = width]

\* parse_figure_block and resolve_figure_reference: a bad directive, or one without its
\* file, stops the export.
Parsed(figure) == figure.parses /\ figure.width \in 2 .. 18
FiguresOf(block) == Elements(Traits[block].figures)
Malformed(block) == \E f \in FiguresOf(block) : ~Parsed(f)
Refused(block) == \E f \in FiguresOf(block) : ~Parsed(f) \/ ~f.exists

\* _append_block.
Rendered(block) ==
    LET t == Traits[block] IN
    CASE t.kind = "FIGURE" ->
            FlattenSeq([i \in DOMAIN t.figures |->
                <<Picture(t.figures[i].width), Text(block, {t.figures[i].caption})>>])
      [] t.kind = "H2" -> <<Heading(2, block, t.pieces)>>
      [] t.kind = "H3" -> <<Heading(3, block, t.pieces)>>
      [] t.kind = "TABLE" ->
            IF t.rows = 0 THEN <<>> ELSE <<Part("TABLE", 0, block, t.pieces), Blank>>
      [] t.kind \in {"FORMULA", "REFERENCE"} /\ t.empty -> <<>>
      [] OTHER -> <<Text(block, t.pieces)>>

Title == "title"
Contents == "contents"
Body(section) ==
    <<Heading(1, section.title, {section.title})>>
    \o FlattenSeq([i \in DOMAIN section.blocks |-> Rendered(section.blocks[i])])
\* _generate_document: a title page, a list of the titles, and the sections.
Generated(sections) ==
    <<Text(Title, {Title}), Heading(1, Contents, {Contents})>>
    \o [i \in DOMAIN sections |-> Text(Contents, {sections[i].title})]
    \o FlattenSeq([i \in DOMAIN sections |-> Body(sections[i])])

\* The markers the validator knows: that of a diagram's source is none of them.
Directives == {"FIGURE", "TABLE", "FORMULA", "H2", "H3", "BULLET", "NUMBER", "REFERENCE"}
\* _replace_section: the paragraphs below the heading, up to the next of its level,
\* make way for the blocks as they are written.  Tables are no paragraphs: they stay.
Inserted(block) == [Text(block, Traits[block].pieces) EXCEPT
                       !.literal = Traits[block].kind \in Directives]
Headed(document, section) ==
    {i \in DOMAIN document : document[i].kind = "HEADING" /\ document[i].of = section.title}
Patched(document, section) ==
    LET at == Min(Headed(document, section))
        later == {i \in DOMAIN document : /\ i > at /\ document[i].kind = "HEADING"
                                          /\ document[i].level <= document[at].level}
        end == Min(later \cup {Len(document) + 1})
        tables == SelectSeq(SubSeq(document, at + 1, end - 1),
                            LAMBDA p : p.kind = "TABLE")
    IN  SubSeq(document, 1, at)
        \o [i \in DOMAIN section.blocks |-> Inserted(section.blocks[i])]
        \o tables \o SubSeq(document, end, Len(document))

Complex == {"TABLE", "FIGURE", "FORMULA"}
\* A lone section goes into the template, unless it is too complex or has no place there.
\* Without a template the argument is the empty document.
Patchable(template, sections) ==
    /\ template # <<>> /\ Len(sections) = 1
    /\ \A b \in Elements(sections[1].blocks) : Traits[b].kind \notin Complex
    /\ Headed(template, sections[1]) # {}
Document(template, sections) ==
    IF Patchable(template, sections) THEN Patched(template, sections[1])
    ELSE Generated(sections)
Exportable(template, sections) ==
    /\ sections # <<>>
    /\ Patchable(template, sections)
       \/ \A i \in DOMAIN sections : \A b \in Elements(sections[i].blocks) : ~Refused(b)

-----------------------------------------------------------------------------
(* The structure of the DOCX.                                               *)

Paragraphs(document) == SelectSeq(document, LAMBDA p : p.kind \in {"HEADING", "TEXT", "BLANK"})
Tables(document) == SelectSeq(document, LAMBDA p : p.kind = "TABLE")
\* A heading without text counts as none.
Headings(document) == SelectSeq(document, LAMBDA p : p.kind = "HEADING" /\ p.pieces # {})
OfBlocks(paragraphs) == {p.of : p \in Elements(paragraphs)} \cap DOMAIN Traits

\* A heading with no text before the next heading, of whatever level.
Bare(document) ==
    LET ps == Paragraphs(document)
        Opens(i) == ps[i].kind = "HEADING" /\ ps[i].pieces # {}
    IN  \E i \in DOMAIN ps :
           /\ Opens(i) /\ ps[i].of # Contents
           /\ \A j \in DOMAIN ps :
                 j > i /\ ps[j].pieces # {} =>
                    \E k \in (i + 1) .. j : Opens(k)
Twice(document) ==
    LET hs == Headings(document) IN
    \E i, j \in DOMAIN hs : i # j /\ hs[i].of = hs[j].of /\ hs[i].of # Contents
Cited(document) ==
    UNION {Elements(Traits[b].cites) : b \in OfBlocks(Paragraphs(document))}
Listed(document) == UNION {Traits[b].entry : b \in OfBlocks(Paragraphs(document))}

TableFindings(document) ==
    LET Some(P(_)) == \E t \in Elements(Tables(document)) : P(Traits[t.of])
        Regular(t) == t.rows >= 2
    IN
    Flag("D5_ABNORMAL_TABLE", Some(LAMBDA t : ~Regular(t))) \cup
    Flag("D5_TABLE_TOO_WIDE", Some(LAMBDA t : Regular(t) /\ t.cols > 12)) \cup
    Flag("D5_TABLE_HEADER_EMPTY", Some(LAMBDA t : Regular(t) /\ ~t.header)) \cup
    Flag("D5_EMPTY_TABLE_ROW", Some(LAMBDA t : Regular(t) /\ t.emptyRow))

\* DeliveryValidator.validate_structure, without the three codes that the post-export
\* validator replaces.  What must not be delivered is looked for in paragraphs, not in
\* the cells of tables.
StructureFindings(document, titles) ==
    LET heads == {p.of : p \in Elements(Headings(document))} IN
    Flag("D5_MISSING_SECTION", ~(Elements(titles) \subseteq heads)) \cup
    Flag("D5_EMPTY_SECTION", Bare(document)) \cup
    Flag("D5_DUPLICATE_HEADING", Twice(document)) \cup
    Flag("D5_INTERNAL_PATH", \E b \in OfBlocks(Paragraphs(document)) : Traits[b].path) \cup
    Flag("D5_UNRENDERED_DIRECTIVE", \E p \in Elements(document) : p.literal) \cup
    TableFindings(document) \cup
    Flag("D5_REFERENCE_MISALIGNMENT", ~(Cited(document) \subseteq Listed(document)))

-----------------------------------------------------------------------------
(* Parity with what was reviewed.                                           *)

\* Mutant of Expected: the cells of tables are forgotten.
ExpectedText(block) ==
    IF Traits[block].kind = "TABLE" THEN {}
    ELSE IF Traits[block].kind = "FIGURE" THEN {f.caption : f \in FiguresOf(block)}
    ELSE Traits[block].pieces
\* _expected_visible_manifest.
Expected(block) ==
    IF Traits[block].kind # "FIGURE" THEN Traits[block].pieces
    ELSE {f.caption : f \in {g \in FiguresOf(block) : ~Malformed(block)}}
ExpectedOf(section) == (UNION {Expected(b) : b \in Elements(section.blocks)}) \cap Long
ExpectedIn(sections) == UNION {ExpectedOf(sections[i]) : i \in DOMAIN sections}
ExpectedFigures(sections) ==
    Total([i \in DOMAIN sections |->
        Len(Spread(SelectSeq(sections[i].blocks, LAMBDA b : ~Malformed(b)), "figures"))])
ExpectedTables(sections) ==
    Total([i \in DOMAIN sections |->
        Len(SelectSeq(sections[i].blocks, LAMBDA b : Traits[b].kind = "TABLE"))])
Shown(document) == UNION {p.pieces : p \in Elements(document)}
Pictures(document) == {i \in DOMAIN document : document[i].picture > 0}
TitlesOf(sections) == [i \in DOMAIN sections |-> sections[i].title]
FirstLevel(document) ==
    LET hs == SelectSeq(Headings(document), LAMBDA p : p.level = 1 /\ p.of # Contents)
    IN  [i \in DOMAIN hs |-> hs[i].of]
\* What stands below a heading of the first level: only there a section is responsible.
InSections(document) ==
    {document[j].of : j \in {k \in DOMAIN document :
        /\ document[k].kind \in {"HEADING", "TEXT"}
        /\ \E i \in 1 .. k : /\ document[i].kind = "HEADING" /\ document[i].level = 1
                             /\ document[i].of # Contents}} \cap DOMAIN Traits

\* The text layer of a PDF is a set of pieces and of stretches of pieces.
ChunksOf(piece) == IF piece \in DOMAIN Chunks THEN Elements(Chunks[piece]) \ {""} ELSE {}
Printed(pieces) == pieces \cup UNION {ChunksOf(x) : x \in pieces}
\* _fuzzy_unit_present: a long piece counts as there when four fifths of it are somewhere.
FuzzyPresent(piece, text) ==
    \/ piece \in text
    \/ /\ piece \in DOMAIN Chunks
       /\ LET hits == {i \in DOMAIN Chunks[piece] : Chunks[piece][i] \in text}
          IN  5 * Cardinality(hits) >= 4 * Len(Chunks[piece])

\* pdf: [garbled, text, pages].
ParityFindings(document, pdf, sections) ==
    Flag("D5_SECTION_ORDER_OR_SET_DRIFT", FirstLevel(document) # TitlesOf(sections)) \cup
    Flag("D5_REVIEWED_CONTENT_LOSS", ~(ExpectedIn(sections) \subseteq Shown(document))) \cup
    Flag("D5_FIGURE_COUNT_MISMATCH",
         Cardinality(Pictures(document)) # ExpectedFigures(sections)) \cup
    Flag("D5_TABLE_COUNT_MISMATCH", Len(Tables(document)) # ExpectedTables(sections)) \cup
    Flag("D5_PDF_CONTENT_LOSS", \E x \in ExpectedIn(sections) : ~FuzzyPresent(x, pdf.text))
\* What the writers must take out.
ContentFindings(document) ==
    Flag("D5_CONTENT_PLACEHOLDER", \E b \in InSections(document) : Traits[b].placeholder) \cup
    Flag("D5_CONTENT_DOCUMENT_TYPE_DRIFT", \E b \in InSections(document) : Traits[b].runtime)

-----------------------------------------------------------------------------
(* The pages, and the report.                                               *)

\* The protocol allows figures of two centimetres, the validator wants four.
VisualFindings(document, pages) ==
    Flag("D6_BLANK_PAGE", pages.blank) \cup
    Flag("D6_CROP_RISK", pages.cropped) \cup
    Flag("D6_TEXT_OVERLAP_RISK", pages.overlap) \cup
    Flag("D6_FIGURE_TOO_SMALL",
         \E i \in Pictures(document) : document[i].picture < 4)

Inspection(document, pdf, sections) ==
    StructureFindings(document, TitlesOf(sections))
    \cup Flag("D5_PDF_RENDERING_ARTIFACT", pdf.garbled)
    \cup ParityFindings(document, pdf, sections)
    \cup ContentFindings(document)
    \cup VisualFindings(document, pdf.pages)

\* _enrich_finding: content goes back to the writers, the rest to engineering.
Written == {"D5_CONTENT_PLACEHOLDER", "D5_CONTENT_DOCUMENT_TYPE_DRIFT",
            "D5_REFERENCE_MISALIGNMENT"}
OwnerOf(code) == IF code \in Written THEN "WRITING_AGENT" ELSE "EXPORT_ENGINEERING"

=============================================================================
