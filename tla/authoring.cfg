\* Both modes; one process death, or one exception from the diagrams of section 1.
SPECIFICATION FairSpec
CONSTANTS
    NSections = 2
    MaxVersion = 2
    Groups = {"background", "method"}
    Owner <- OneEach
    MaxFailures = 1
    Strict = {"CONTENT_CRITIC"}
    Faults <- DiagramFails
INVARIANTS
    TypeOK
    EndIsWhatWasReviewedWithoutFault
    GroupRewritesReachTheEnd
PROPERTIES
    OnlyDemandedRewritten
    Rests
CHECK_DEADLOCK FALSE
