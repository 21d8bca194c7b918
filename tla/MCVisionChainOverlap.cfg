CONSTANTS
    Requests = {r1, r2}
    Images <- MCImages
    Inline <- MCInline
    Contexts <- MCContexts
    Reanalysis <- MCReanalysis
    ChainLength = 3
    Usable <- MCUsable
    Tasks <- MCTasks
    ErrorEndsUpstream = FALSE
    None = None
    Failed = Failed
    i1 = i1
    i2 = i2
    remote = remote
    ask = ask
    redo = redo
SPECIFICATION Spec
INVARIANTS
    NoOverlap
