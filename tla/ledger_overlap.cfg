\* A delivery submission overlaps the event loop; five runs.
SPECIFICATION Spec
CONSTANTS
    Findings <- Shared
    Prompts <- SharedPrompts
    Threads = {thread}
    Loop = loop
    Validator = "DELIVERY_VALIDATOR"
    TargetedRepair = "P-TARGETED-REPAIR"
    NoFinding = "none"
    Document <- WholeDocument
    NoReviewer = "nobody"
    Code <- SharedCode
    Scope <- SharedScope
    Finders <- SharedFinders
    Stages <- SharedStages
    Reviewer <- SharedReviewer
    PromptScope <- SharedScopes
    Repairing <- SectionRepairing
    Serial = FALSE
    MaxRuns = 5
    MaxCrashes = 0
INVARIANTS
    IndependentReview
CHECK_DEADLOCK FALSE
