CONSTANTS
    Event = {e1, e2, e3}
    Caller = {task, dag}
    RetainDays = 0
    BatchIdWidth = 36
    UuidWidth = 36
    SuffixWidth = 7
    MaxCalls = 3
    MaxFailures = 1
    MaxDay = 1
SPECIFICATION Spec
INVARIANTS TypeOK EveryEventAccountedFor QueueKeyUnique DrainLock BatchSeqUnique EmptyBatchNeedsOverlap
PROPERTIES ImplementsLifecycle
CHECK_DEADLOCK FALSE
