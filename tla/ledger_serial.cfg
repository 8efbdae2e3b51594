\* One section, one request at a time, four runs and a crash anywhere.
SPECIFICATION Spec
CONSTANTS
    Findings <- SectionFindings
    Prompts <- SectionPrompts
    Threads = {thread}
    Loop = loop
    Validator = "DELIVERY_VALIDATOR"
    TargetedRepair = "P-TARGETED-REPAIR"
    NoFinding = "none"
    Document <- WholeDocument
    NoReviewer = "nobody"
    Code <- SectionCode
    Scope <- SectionScope
    Finders <- SectionFinders
    Stages <- SectionStages
    Reviewer <- SectionReviewer
    PromptScope <- SectionScopes
    Repairing <- SectionRepairing
    Serial = TRUE
    MaxRuns = 4
    MaxCrashes = 1
INVARIANTS
    TypeOK
    ClosedByLaterReview
    NoneStranded
PROPERTIES
    NothingLost
CHECK_DEADLOCK FALSE
