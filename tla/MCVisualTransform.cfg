CONSTANTS
    Requests <- MCRequests
    Configs <- MCConfigs
    Images <- MCImages
    Keyed <- MCKeyed
    Length <- MCLength
    MemoryBudget = 5
    MaxAssets = 3
    MaxWorkers = 2
    None = None
    Failed = Failed
    Marker = Marker
    Short = Short
    i1 = i1
    i2 = i2
    far = far
    big = big
    pdf = pdf
SPECIFICATION FairSpec
INVARIANTS
    TransformInv
    RightReplacements
    WithinLimits
PROPERTIES
    PoolEnds
