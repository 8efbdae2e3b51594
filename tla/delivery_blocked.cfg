\* One request at a time.
SPECIFICATION Spec
CONSTANTS
    Requests = {"client"}
    Serves <- Alone
    Flawed = {1}
    Closable = {"content"}
    MaxSets = 2
    MaxGates = 2
    MaxDocs = 2
    MaxRuns = 2
INVARIANTS
    ServedWhenClear
CHECK_DEADLOCK FALSE
