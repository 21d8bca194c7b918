CONSTANTS
    Ids <- MCIds
    Kinds <- MCKinds
    MaxItems = 4
    MaxBranches = 1
    Threshold = 2
    Budget = 4
    KeepRecent = 2
    Reserve = 1
    SummarySizes = {1, 2}
    FixedSize = 1
    CacheLimit = 2
SPECIFICATION Spec
INVARIANTS
    RefusedOverBudget
