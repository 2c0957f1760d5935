SPECIFICATION Spec
CONSTANTS
    Docs <- MCDocs
    ChunksOf <- MCChunksOf
    Tags = {"g1"}
    Pods = {p1, p2}
    Attempts = 2
    MaxStores = 2
    Budgets <- MCBudgets
SYMMETRY PodSymmetry
INVARIANTS
    DualWrite
    GrantsLand
    ReadyStore
CHECK_DEADLOCK FALSE
