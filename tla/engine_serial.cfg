\* One request in flight at a time; one crash and one technical failure.
SPECIFICATION FairSpec
CONSTANTS
    Workers = {w1}
    Deciders = {d1}
    NoWorker = NoWorker
    NSteps = 4
    Kind <- KindAt
    GateAfter = {1}
    Critics = {1}
    GateType <- GateTypeAt
    Serial = TRUE
    MaxAsks = 2
    MaxGates = 6
    MaxCrashes = 1
    MaxFaults = 1
INVARIANTS
    TypeOK
    GateHonouredWithoutFailure
    OneOpenGate
    RepairBudget
    ReviewedInOrder
PROPERTIES
    RejectionStopsWithoutFailure
    Settles
