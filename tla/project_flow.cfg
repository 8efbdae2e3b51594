\* A full proposal with a child per section next to a serial authoring; one trouble at a time,
\* and one process death or one recovery in all.
SPECIFICATION Spec
CONSTANTS
    Sections = {s1, s2}
    Requests <- Starts
    NoKey = "no key"
    MaxFlows = 6
    MaxTexts = 6
    MaxTrouble = 1
INVARIANTS
    TypeOK
    SameAnswer
    RunsOnPrerequisites
    ReadsOwn
SYMMETRY Interchangeable
CHECK_DEADLOCK FALSE
