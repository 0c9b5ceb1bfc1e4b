SPECIFICATION SlowSpec
CONSTANTS
    Sets = {s1}
    Exprs = {e1}
    Bad = Bad
    None = None
    Jobs = {j1}
    SignalCap = 2
    MaxEdits = 1
    MaxHups = 1
PROPERTIES
    DrainIsBounded
