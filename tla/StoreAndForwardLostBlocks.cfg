SPECIFICATION AppSpec
CONSTANTS
    TotalBlocks = 7
    Names = {"data"}
    PrefixOf <- OneName
    DirEntries <- OneDirectory
    Sizes = {16}
    MaxFiles = 3
    WriteOutcomes <- Silent
    ReadOutcomes = {0}
    DiskHostRestarts = FALSE
    MaxWrites = 5
    MaxCrashes = 0
INVARIANT OrderPreserved
CHECK_DEADLOCK FALSE
