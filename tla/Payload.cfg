SPECIFICATION Spec
CONSTANTS
    Vm = {v1, v2}
    Buffer = {b1, b2}
    Handle = {h1, h2, h3}
    Report = Report
    NoCall = NoCall
    Results <- Packs
    Byte = 4
    MaxCookie = 4
    MaxDepth = 2
    Limit = 32
    MaxMessages = 2
    Short = {20, 31}
SYMMETRY Symmetry
INVARIANTS
    BuffersLiveWhileHeld
    SizesArrive
    ArrivesAsSent
    NothingIsInvented
    PackFailsForCause
