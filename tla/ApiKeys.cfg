SPECIFICATION Spec
CONSTANTS
    Slots = {r1, r2}
    BootTenant = t1
    OtherTenant = t2
    BootRPM = 2
    DefaultRPM = 1
    Budgets = {0}
    Window = 1
    MaxKeys = 4
    MaxSecret = 3
SYMMETRY SlotSymmetry
INVARIANTS
    AdminSurvives
    SecretsStayInTenant
    SlidingBudget
PROPERTIES
    RevocationFinal
CHECK_DEADLOCK FALSE
