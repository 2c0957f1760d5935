SPECIFICATION Spec
CONSTANTS
    Queries = {"q1"}
    Chunks = {"a", "b", "x"}
    Users = {"u"}
    Standing <- MCStanding
    Request <- MCRequest
    Home <- MCHome
    Score <- MCScore
    Configs <- Deployments
    AuditorFails = TRUE
    MaxCandidates = 2
    MaxCitations = 1
    MaxChecks = 1
    Limit <- MixedLimits
    Tripped = {{}, {"retrieval", "acl", "audit"}}
INVARIANTS
    TypeOK
    OnlyReadableCited
    BoundaryHeld
    DisclosureRecorded
    RowsAddUp
    DecisionsAttributed
    ShadowComparesAll
PROPERTIES
    ImplementsGate
