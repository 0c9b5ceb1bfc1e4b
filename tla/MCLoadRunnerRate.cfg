SPECIFICATION Spec
CONSTANTS
    Workers = {w1, w2}
    Options <- RampFromZero
    MaxSlots = 3
INVARIANT
    StopsForAReason
