SPECIFICATION CloudSpec
CONSTANTS
    Quota = 3
    Codes = {"PROVISION"}
    MaxEvents = 3
    FileCapacity = 2
    MaxLogs = 5
    TwinNames = {"a"}
    TwinSize = 2
    MaxStamps = 4
INVARIANTS
    JournalTypeOK TwinTypeOK QuotaKept ReportsAgree TwinFaithful
PROPERTY LeavesDeliveredOrSaved
