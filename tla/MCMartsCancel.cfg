CONSTANTS
    Trade = {"T1", "T2"}
    Version = {1, 2, 3}
    Action = {"NEW", "AMEND", "CANCEL"}
    Timestamp = {1, 2}
    NoMaturity = NoMaturity
    Inbox <- HistoryInbox
    MaxBatch = 2
    MaxEvents = 3
    MaxRuns = 2
    MaxAttempts = 0
    MaxDay = 0
SPECIFICATION Spec
INVARIANTS CancellationTerminal
CHECK_DEADLOCK FALSE
