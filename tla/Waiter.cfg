SPECIFICATION Spec
CONSTANTS
    MaxCalls = 2
INVARIANT
    RepeatedNotifyIsHarmless
