SPECIFICATION LiveSpec
CONSTANTS
    Queries = {"q1", "q2"}
    Chunks = {"a", "b"}
    Users = {}
    Standing = {}
    Request <- MCRequestUnverified
    Home <- MCHome
    Score <- MCScore
    Configs <- Enforcing
    AuditorFails = TRUE
    MaxCandidates = 2
    MaxCitations = 1
    MaxChecks = 1
    Limit <- LowLimits
    Tripped = {{}, {"retrieval", "audit"}}
INVARIANTS
    CircuitsConsistent
PROPERTIES
    QueryAnswered
    ChecksDrain
CHECK_DEADLOCK FALSE
