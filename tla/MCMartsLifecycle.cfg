CONSTANTS
    Trade = {"T1", "T2"}
    Version = {1, 2, 3}
    Action = {"NEW", "AMEND", "CANCEL"}
    Timestamp = {1, 2}
    NoMaturity = NoMaturity
    Inbox <- LifecycleInbox
    MaxBatch = 2
    MaxEvents = 3
    MaxRuns = 3
    MaxAttempts = 1
    MaxDay = 1
SPECIFICATION Spec
INVARIANTS TypeOK RejectedAuditedOnce GoldenIsLedgerTop
PROPERTIES ExpirySwept CancelledStays
CHECK_DEADLOCK FALSE
