SPECIFICATION Spec
CONSTANTS
    Tenants = {"t1", "t2"}
    Ids = {1, 2, 3}
    Columns = {"fail_closed"}
    Values = {TRUE, FALSE}
    Decisions <- MCDecisions
    Limits = {0, 3}
    DefaultLimit = 1
    MaxLimit = 2
    MaxVerify = 2
    MaxRunning = 1
    MaxClock = 1
INVARIANTS
    PagesAreExact
    DetailIsWhole
    StatsAddUp
CHECK_DEADLOCK FALSE
