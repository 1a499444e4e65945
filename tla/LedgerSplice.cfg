SPECIFICATION LedgerSpec
CONSTANTS
    Troubles = {{"splice"}}
    MaxRecords = 3
    MaxKills = 2
INVARIANT EveryRecordCounted
CHECK_DEADLOCK FALSE
