SPECIFICATION Spec
CONSTANTS
    TotalBlocks = 7
    Names = {"data"}
    PrefixOf <- OneName
    DirEntries <- OneDirectory
    Sizes = {0, 300, 600}
    WriteOutcomes <- AnswersLost
    ReadOutcomes <- AnyRead
    DiskHostRestarts = FALSE
    MaxWrites = 5
PROPERTY FifoSpec
INVARIANT CacheMatchesMedia
PROPERTY ReturnedWriteIsStored
