SPECIFICATION Spec
CONSTANTS
    TotalBlocks = 9
    Names = {"data", "logs", "lo"}
    PrefixOf <- TwoNames
    DirEntries <- TwoDirectories
    Sizes = {300, 600}
    WriteOutcomes <- Unreliable
    ReadOutcomes <- AnyRead
    DiskHostRestarts = TRUE
    MaxWrites = 3
INVARIANT TypeOK
INVARIANT DirectoriesWellFormed
PROPERTY LiveFilesUntouched
