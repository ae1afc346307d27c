SPECIFICATION Spec
CONSTANTS
    a = a
    b = b
    Vm <- ThreeVms
    Service <- TwoServices
    ServiceOf <- ThreeVmsService
    MaxSends <- SendsMain
    MaxReports <- NoReports
    SessionMax = 2
    GarbageSession = {1}
    NoVm = NoVm
INVARIANTS
    SessionsTellRequestsApart
    TypeOK
    NoLostWakeup
    IdleMeansNoWork
    OneDispatcherPerVm
    NoCircularWait
PROPERTY
    PromiseSpec
