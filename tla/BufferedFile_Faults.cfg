CONSTANTS
    Size = 2
    MaxPos = 4
    NUL = 0
    EOL = 10
    Byte <- Bytes3
    Records <- LongRecords
    RecSizes = {1, 3}
    Stale <- Garbage
    Files <- SomeFiles
    MaxWriteFaults = 1
    MaxReadFaults = 1
    OpenMayFail = TRUE
SPECIFICATION FairSpec
INVARIANTS TypeOK WindowInv CleanInv RecordFits
PROPERTIES FileSpec WritesOnlyOutput CallsReturn
