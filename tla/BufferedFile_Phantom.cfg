CONSTANTS
    Size = 2
    MaxPos = 4
    NUL = 0
    EOL = 10
    Byte <- Bytes3
    Records <- LongRecords
    RecSizes = {1, 3}
    Stale <- Garbage
    Files <- SomeFiles
    MaxWriteFaults = 0
    MaxReadFaults = 0
    OpenMayFail = FALSE
SPECIFICATION FairSpec
INVARIANTS NoPhantom
