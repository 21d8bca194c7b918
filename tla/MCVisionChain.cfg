CONSTANTS
    Requests = {r1, r2}
    Images <- MCImages
    Inline <- MCInline
    Contexts <- MCContexts
    Reanalysis <- MCReanalysis
    ChainLength = 3
    Usable <- MCUsable
    Tasks <- MCTasks
    ErrorEndsUpstream = TRUE
    None = None
    Failed = Failed
    i1 = i1
    i2 = i2
    remote = remote
    ask = ask
    redo = redo
SPECIFICATION FairSpec
INVARIANTS
    ChainInv
    OneLeader
    RightImage
    RightQuestion
    FreshReanalysis
    NoOverlap
    FailsLast
PROPERTIES
    MakesVisionCalls
    AllAnswered
