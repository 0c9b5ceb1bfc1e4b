SPECIFICATION Spec
CONSTANTS
    MaxRuns = 2
    MaxDepth = 3
    MaxWaiting = 1
INVARIANT RecordTruthful
PROPERTY RunsFinalized
CHECK_DEADLOCK FALSE
