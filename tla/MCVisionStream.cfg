CONSTANTS
    ErrorEndsUpstream = TRUE
    NoReply = NoReply
SPECIFICATION FairSpec
INVARIANTS
    IInv
    CompleteAnswer
    SafeToFallBack
PROPERTIES
    PreferCompletedAnswer
    ReturnsInTime
    ImplementsCall
