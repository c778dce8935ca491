SPECIFICATION EncodingSpec
CONSTANTS
    ComSizes <- WholeComSizes
    TokenSizes <- MCTokenSizes
    MaxProps = 4
    Lengths <- MCLengths
    Word = 1000000000
    Words <- MCWords
    Blobs <- MCBlobs
    Tails <- MCTails
    AtomStreams <- MCAtomStreams
    Depth = 6
    Atoms <- MCAtoms
    Uids <- MCUids
    Paths <- MCPaths
    MaxCalls = 3
    DatumStreams <- MCDatumStreams
INVARIANTS TypeOK ChunkAlwaysFits RoundTrip CutIsNoticed NothingLost
CHECK_DEADLOCK FALSE
