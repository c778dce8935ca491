SPECIFICATION Spec
CONSTANTS
    b1 = b1
    b2 = b2
    Blocks <- One
    MaxRequests = 2
    MaxSignals = 1
INVARIANT UpMeansServing
CHECK_DEADLOCK FALSE
