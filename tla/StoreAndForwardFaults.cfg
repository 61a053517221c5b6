SPECIFICATION FairSpec
CONSTANTS
    TotalBlocks = 5
    Names = {"data"}
    PrefixOf <- OneName
    DirEntries <- OneDirectory
    Sizes = {16}
    MaxFiles = 2
    WriteOutcomes <- Silent
    ReadOutcomes <- AnyRead
    DiskHostRestarts = TRUE
    MaxWrites = 3
    MaxCrashes = 1
INVARIANT AppTypeOK
PROPERTY NeverBlocked
