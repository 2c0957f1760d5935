SPECIFICATION LiveSpec
CONSTANTS
    Callers = {c1, c2}
    Plans <- MCPlans
    FailureLimit = 2
    OpenTimeout = 1
    HalfOpenLimit = 1
    Attempts = 2
INVARIANTS
    SlotsAccounted
PROPERTIES
    ProbesComeHome
    Recovers
