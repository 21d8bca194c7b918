CONSTANTS
    Paths = {p, q}
    DefaultPath = p
    Limits = {1, 2}
    DefaultMaxEntries = 2
    Requests = {r1, r2}
    MaxCalls = 2
SPECIFICATION FairSpec
INVARIANTS
    LifecycleInv
    EntriesKept
PROPERTIES
    CallsReturn
