SPECIFICATION IdentitySpec
CONSTANTS
    alice = alice
    bob = bob
    post = post
    Configs <- MCConfigs
    Slots = {r1}
    Syncs = {s1}
    People <- MCPeople
    Mails <- MCMails
    Space <- MCSpace
    Owner <- MCOwner
    Home = t1
    Abroad = t2
    Shapes <- MCShapes
    TTL = 1
    Lag = 1
    MaxPrincipals = 2
    NoOne = NoOne
INVARIANTS
    OnePerson
PROPERTIES
    RunsAsResolved
CHECK_DEADLOCK FALSE
