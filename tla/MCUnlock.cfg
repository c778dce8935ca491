SPECIFICATION MCSpec
CONSTANTS
    Drives = 2
    Ranges = 2
    Counts <- MCCounts
    PINs = {"", "abc", "xyz"}
    Empty = ""
    MaxFaults = 2
    Word = 1000
INVARIANTS ExitMeansUnlocked InOrder NeverLeftDark ConfirmedPin
PROPERTIES LoopEnds EntryEnds
CHECK_DEADLOCK FALSE
