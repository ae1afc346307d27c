SPECIFICATION FairSpec
CONSTANTS
    a = a
    b = b
    Null = Null
    Thread <- Threads
    Name <- TwoNames
    NameOf <- Names
    MaxCalls <- CallsMain
INVARIANTS
    TypeOK
    NoUseAfterFree
    DeadEntriesAreOnTheWayOut
    UniqueHandleIsReachable
PROPERTIES
    NoForeignErase
    ClosedVmsLeave
