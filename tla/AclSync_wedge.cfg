SPECIFICATION LiveSpec
CONSTANTS
    Tenants = {"t1"}
    Grants <- MCGrants
    Evented <- MCEvented
    Granted <- AllGranted
    StoreOf <- OneStore
    Deployments <- AloneInOpenFGA
    Capacity = 1
PROPERTIES
    Converges
CHECK_DEADLOCK FALSE
