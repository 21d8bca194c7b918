CONSTANTS
    NumModels = 2
    BufferLimit = 2
    MaxPayloads = 3
    EmitAckLost = FALSE
SPECIFICATION FairSpec
INVARIANTS
    ForwardInv
    SingleAuthor
    WholeAnswer
    OneUpstream
PROPERTIES
    ImplementsAnswer
    AlwaysClosed
