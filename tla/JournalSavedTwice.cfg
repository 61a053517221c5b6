SPECIFICATION JournalSpec
CONSTANTS
    Quota = 4
    Codes = {"PROVISION"}
    MaxEvents = 3
    FileCapacity = 3
    MaxLogs = 6
INVARIANT PersistedIsLoaded
