SPECIFICATION LiveSpec
CONSTANTS
    Writers = {"w1", "w2", "w3"}
    Tenants = {"t1"}
    TenantOf <- MCTenantOf
    Ids = {1, 2, 3}
    Resolution = 2
    MaxClock = 3
INVARIANTS
    DigestsRecompute
    InOrderVerifies
    TamperingReported
    OneRoot
    LinksResolve
PROPERTIES
    WritesEnd
CHECK_DEADLOCK FALSE
