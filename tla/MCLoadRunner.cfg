SPECIFICATION FairSpec
CONSTANTS
    Workers = {w1, w2}
    Options <- MCOptions
    MaxSlots = 3
INVARIANTS
    TypeOK
    Accounting
    AtMostOneLate
    InFlightSpared
PROPERTIES
    ImplementsLoadRun
    StopLeadsToReturn
    BoundedRunsReturn
