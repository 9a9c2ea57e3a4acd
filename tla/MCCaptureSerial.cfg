CONSTANTS
    Event = {e1, e2}
    Caller = {task}
    RetainDays = 0
    BatchIdWidth = 36
    UuidWidth = 36
    SuffixWidth = 7
    MaxCalls = 4
    MaxFailures = 2
    MaxDay = 2
SPECIFICATION FairSpec
INVARIANTS NothingStranded BatchOrder
PROPERTIES EveryEventAdjudicated
CHECK_DEADLOCK FALSE
