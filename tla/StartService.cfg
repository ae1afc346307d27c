SPECIFICATION FairSpec
CONSTANTS
    MaxCalls = 3
INVARIANTS
    ReportedIdsAreReal
    ZeroMeansEnded
PROPERTY
    StartReturns
