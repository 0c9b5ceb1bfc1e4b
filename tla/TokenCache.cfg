SPECIFICATION Spec
CONSTANTS
    Callers = {c1, c2, c3}
    Lifetimes = {1, 3}
    Leeway = 1
    Timeout = 1
    MaxTime = 3
    MaxCalls = 2
INVARIANTS
    TypeOK
    SingleFetch
    NoLostWakeup
    HandedOutLive
PROPERTIES
    NeverGoesBack
    CallsReturn
