CONSTANTS
    r1 = r1
    r2 = r2
    Requests = {r1, r2}
    Length <- MCLength
    MaxChunk = 2
    MaxSummary = 1
    Models = 1
    Failed = Failed
SPECIFICATION FairSpec
INVARIANTS
    WholeHistory
    OnePerPiece
PROPERTIES
    SummaryEnds
