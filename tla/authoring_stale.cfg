\* Nothing fails and no plan is revised: the serial mode rewrites, for the
\* integration review, a section that had a targeted repair.
SPECIFICATION Spec
CONSTANTS
    NSections = 2
    MaxVersion = 2
    Groups = {"background", "method"}
    Owner <- OneEach
    MaxFailures = 0
    Strict = {"CONTENT_CRITIC"}
    Faults <- DiagramFails
INVARIANT
    RepairsReachTheEnd
CHECK_DEADLOCK FALSE
