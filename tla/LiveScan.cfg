SPECIFICATION Spec
CONSTANTS
    a = a
    b = b
    Null = Null
    Thread <- Threads
    Name <- TwoNames
    NameOf <- Names
    MaxCalls <- OneCall
INVARIANT
    MapHoldsLiveVms
