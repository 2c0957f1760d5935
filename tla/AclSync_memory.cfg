SPECIFICATION LiveSpec
CONSTANTS
    Tenants = {"t1", "t2"}
    Grants <- MCGrants
    Evented <- MCEvented
    Granted <- AllGranted
    StoreOf <- OneStore
    Deployments <- AloneOrShared
    Capacity = 1
PROPERTIES
    GrantsKept
    SyncEstablishesSnapshot
    Converges
CHECK_DEADLOCK FALSE
