SPECIFICATION FairSpec
CONSTANTS
    Sets = {s1, s2}
    Exprs = {e1, e2}
    Bad = Bad
    None = None
    Jobs = {j1, j2}
    SignalCap = 2
    MaxEdits = 1
    MaxHups = 1
INVARIANTS
    TypeOK
    SingleFlight
    TableMatchesCron
    ReloadApplies
    QuietAtExit
PROPERTIES
    UnchangedKept
    TermLeadsToExit
