SPECIFICATION Spec
CONSTANTS
    Object = {o1, o2}
    Poll = {p1}
    Descriptor = {1, 2}
    MaxSockets = 3
    MaxBlame = 1
INVARIANTS
    ObjectsReachTheirOwnSocket
    OpenDescriptorsHaveAnOwner
    PollsWatchTheirOwnSocket
    NonBlockingCallsReturn
PROPERTY
    ReadySocketsAreReported
