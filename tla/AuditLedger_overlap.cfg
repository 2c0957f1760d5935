SPECIFICATION Spec
CONSTANTS
    Writers = {"w1", "w2"}
    Tenants = {"t1"}
    TenantOf <- MCTenantOf
    Ids = {1, 2}
    Resolution = 2
    MaxClock = 3
INVARIANTS
    ReportsOnlyTampering
CHECK_DEADLOCK FALSE
