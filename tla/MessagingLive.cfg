SPECIFICATION FairSpec
CONSTANTS
    a = a
    b = b
    Vm <- ThreeVms
    Service <- TwoServices
    ServiceOf <- ThreeVmsService
    MaxSends <- SendsLive
    MaxReports <- ReportsLive
    SessionMax = 2
    GarbageSession = {1}
    NoVm = NoVm
PROPERTIES
    OwnMessagesArrive
    CallsReturn
    ParkedMessagesArriveOnWake
