SPECIFICATION Spec
CONSTANTS
    Workers = {w1, w2}
    Keys = {k1, k2}
    Clients = {c1, c2, c3, c4, c5}
    NoKey = NoKey
    NoClient = NoClient
    MaxSent = 2
SYMMETRY Symmetry
INVARIANTS
    Exclusive
    NoLeak
    AlwaysRoom
    DeltaExact
