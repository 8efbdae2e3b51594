-------------------------------- MODULE Diagrams --------------------------------
(***************************************************************************)
(* DiagramEnrichmentService: the diagrams a writer gave as sources become  *)
(* figures.  A template is a diagram the service has in stock for titles   *)
(* with certain words.  Paragraphs stand in the order of their sequence    *)
(* numbers.                                                                *)
(***************************************************************************)
EXTENDS ProposalQuality

CONSTANTS
    Drawn,     \* of a block with a diagram's source: the figure drawn from it, Absent if the
               \* renderer refuses it.  A MERMAID block without one is not in the domain
    Stocked    \* of a title that names a template: the figure drawn from it

\* The role a drawn paragraph gets, and the roles of those meant as diagrams.
Drawing == "DRAWING"
DiagramRoles == {Drawing, "FIGURE", "DIAGRAM"}

IsSource(p) == Traits[p.text].kind = "MERMAID"
\* It has its claim, its information key and its contract: only then it is drawn.
Identified(p) == p.claim # Absent /\ p.key # <<>> /\ p.contract # Absent
ToDraw(p) == IsSource(p) /\ Identified(p)
\* _parse_marker raises an error.
Sourceless(c) == \E p \in Elements(c.paragraphs) : ToDraw(p) /\ p.text \notin DOMAIN Drawn

Template(title) == IF title \in DOMAIN Stocked THEN Stocked[title] ELSE Absent
\* A refused source makes way for the template, if there is one.
FigureFor(p, title) == IF Drawn[p.text] # Absent THEN Drawn[p.text] ELSE Template(title)
Rendering(rows, title) ==
    [i \in DOMAIN rows |->
        IF ToDraw(rows[i]) /\ FigureFor(rows[i], title) # Absent
        THEN [rows[i] EXCEPT !.text = FigureFor(rows[i], title), !.role = Drawing]
        ELSE rows[i]]
\* When none was drawn: the first paragraph meant as a diagram becomes the template,
\* whatever it shows.
Illustrated(rows, title) ==
    LET meant == {i \in DOMAIN rows : rows[i].role \in DiagramRoles} IN
    IF meant # {} /\ Template(title) # Absent /\ Identified(rows[Min(meant)])
    THEN [rows EXCEPT ![Min(meant)].text = Template(title)]
    ELSE rows

\* enrich.  The text is put together again when something was drawn.
Enriched(c, title) ==
    LET rendered == Rendering(c.paragraphs, title)
        rows == IF rendered # c.paragraphs THEN rendered ELSE Illustrated(c.paragraphs, title)
        new == [c EXCEPT !.paragraphs = rows]
    IN  IF rows = c.paragraphs THEN c ELSE [new EXCEPT !.text = TextsOf(new)]

=============================================================================
