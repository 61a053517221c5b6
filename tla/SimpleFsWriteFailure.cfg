SPECIFICATION Spec
CONSTANTS
    TotalBlocks = 7
    Names = {"data"}
    PrefixOf <- OneName
    DirEntries <- OneDirectory
    Sizes = {300, 600}
    WriteOutcomes <- Unreliable
    ReadOutcomes = {0}
    DiskHostRestarts = FALSE
    MaxWrites = 5
PROPERTY WriteFailureReported
