CONSTANTS
    Trade = {"T1", "T2"}
    Version = {1, 2, 3}
    Action = {"NEW", "AMEND", "CANCEL"}
    Timestamp = {1, 2}
    NoMaturity = NoMaturity
    Inbox <- ArbitrationInbox
    MaxBatch = 2
    MaxEvents = 3
    MaxRuns = 3
    MaxAttempts = 0
    MaxDay = 0
SPECIFICATION Spec
INVARIANTS AcceptedInOrder OneAcceptedPerVersion OneNewPerTrade LedgerComplete GoldenIsLedgerTop
PROPERTIES GoldenNeverGoesBack
CHECK_DEADLOCK FALSE
