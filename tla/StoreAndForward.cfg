SPECIFICATION FairSpec
CONSTANTS
    TotalBlocks = 7
    Names = {"data"}
    PrefixOf <- OneName
    DirEntries <- OneDirectory
    Sizes = {16}
    MaxFiles = 3
    WriteOutcomes <- Reliable
    ReadOutcomes = {0}
    DiskHostRestarts = FALSE
    MaxWrites = 5
    MaxCrashes = 2
INVARIANT OrderPreserved
INVARIANT RepeatsAreRestarts
PROPERTY KeptUntilAccepted
PROPERTY Drained
