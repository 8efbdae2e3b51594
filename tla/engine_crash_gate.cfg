\* One crash may fall between committing the step and creating its gate.
SPECIFICATION Spec
CONSTANTS
    Workers = {w1}
    Deciders = {d1}
    NoWorker = NoWorker
    NSteps = 4
    Kind <- KindAt
    GateAfter = {1}
    Critics = {1}
    GateType <- GateTypeAt
    Serial = TRUE
    MaxAsks = 1
    MaxGates = 4
    MaxCrashes = 1
    MaxFaults = 0
INVARIANT
    GateHonoured
CHECK_DEADLOCK FALSE
