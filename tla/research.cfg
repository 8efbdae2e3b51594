SPECIFICATION Spec
CONSTANTS
    Private = {"p"}
    Placeholder = "X"
    Endpoints <- MCEndpoints
    Project <- MCProject
    Packages <- MCPackages
    Plans <- MCPlans
    Found <- MCFound
    Short <- MCShort
    Claims <- MCClaims
    MaxFound = 3
    MaxClaims = 2
    MaxResults = 2
    MaxQueries = 2
    Strict = TRUE
INVARIANTS
    NothingPrivateSent
    ClaimsAreOnDisk
    InnovationIsCompared
CHECK_DEADLOCK FALSE
