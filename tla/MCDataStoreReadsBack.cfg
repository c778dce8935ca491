SPECIFICATION BytesSpec
CONSTANTS
    TableSize = 6
    max_token = 3
    Granularities <- MCGranularities
    MaxLen = 7
    Word = 64
    Size = 8
    WriteHeader = 1
    ReadHeader = 2
    Limit = 5
    Chunk = 2
    Base = 16
    Files <- MCFiles
INVARIANT ReadsBack
