SPECIFICATION FairSpec
CONSTANTS
    b1 = b1
    b2 = b2
    Blocks <- Two
    MaxRequests = 3
    MaxSignals = 1
INVARIANTS RepliesInOrder ReadsSeeWrites
PROPERTY EndsWhenTold
CHECK_DEADLOCK FALSE
