\* Two requests execute the same prompt; one restart, one failure.
SPECIFICATION FairSpec
CONSTANTS
    Callers = {c1, c2}
    NoCaller = NoCaller
    Answers = {good, better, bad}
    Accepted = {good, better}
    Setups = {pack1, pack2}
    Nothing = Nothing
    Armed = {"request", "saved", "mark"}
    MaxRuns = 3
    MaxFailures = 1
    MaxCrashes = 1
INVARIANTS
    TypeOK
    Audited
    OneRunPerOverlap
PROPERTIES
    NeverAskedAgain
    OneAnswer
    Answered
CHECK_DEADLOCK FALSE
