SPECIFICATION Spec
CONSTANTS
    Traits <- MCTraits
    Frames <- MCFrames
    FullSize = 2
    ProfileOf <- MCProfileOf
    TitledAs <- NoOne
    RulesOf <- MCRulesOf
    DigestSize = 2
    ItemSlice = 2
    InternalSlice = 1
    PublicSlice = 1
    Long <- MCLong
    Chunks <- MCChunks
    Sections <- MCSections
    Answers <- MCAnswers
    Opinions <- MCOpinions
    Repairs <- MCRepairs
    Readings <- MCReadings
    Blueprints <- MCBlueprints
    Drafts <- MCDrafts
    Polished <- MCPolished
    Integrations <- MCIntegrations
    Form <- NoTemplate
    Drawn <- MCDrawn
    Stocked <- MCStocked
INVARIANTS
    PlanOrderable
    FoundationProven
    RequiredAdvanced
    KeysOwnedOnce
    DeliveredAsReviewed
CHECK_DEADLOCK FALSE
