CONSTANTS
    Event = {e1, e2}
    Caller = {task, dag}
    RetainDays = 0
    BatchIdWidth = 36
    UuidWidth = 36
    SuffixWidth = 7
    MaxCalls = 2
    MaxFailures = 0
    MaxDay = 0
SPECIFICATION Spec
INVARIANTS NothingStranded
CHECK_DEADLOCK FALSE
