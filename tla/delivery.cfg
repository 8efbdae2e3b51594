\* An engineering repair overlaps any other request and the event loop.
SPECIFICATION Spec
CONSTANTS
    Requests = {"repairer", "client"}
    Serves <- Overlap
    Flawed = {1}
    Closable = {"content"}
    MaxSets = 2
    MaxGates = 2
    MaxDocs = 2
    MaxRuns = 2
INVARIANTS
    TypeOK
    ServedIsCurrent
    PackagesAreClean
    ClosedOnNewerFile
    PassIsReviewed
CHECK_DEADLOCK FALSE
