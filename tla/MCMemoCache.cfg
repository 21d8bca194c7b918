SPECIFICATION FairSpec
CONSTANTS
    Keys = {k1, k2}
    Values = {v1}
    Clients = {c1}
    Limits <- MCLimits
    TTL = 0
    MaxClock = 1
    MaxRestarts = 1
    Torn = Torn
INVARIANTS
    CacheInv
    NoForgottenWrite
PROPERTIES
    QuietAfterClose
    EventuallySaved
