SPECIFICATION Spec
CONSTANTS
    Disks <- MCDisks
    Garbage <- MCGarbage
INVARIANTS DmaOnlyWhenAnswered KnowsTheDrive GetLockedFresh
