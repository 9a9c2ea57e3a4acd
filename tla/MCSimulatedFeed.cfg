CONSTANTS
    Trade = {1, 2}
    Version = {1, 2, 3}
    Action = {"NEW", "AMEND", "CANCEL"}
    Timestamp = {1, 2, 3, 4}
    NoMaturity = NoMaturity
    Faults = {"negative_notional", "notional_over_limit"}
    Payload <- LargePayload
    Tenors <- FarTenor
    Sim = {"load", "generate", "stream"}
    HoldsWhileWriting = {"load", "generate"}
    HoldsWhileLoading = {"load"}
    NoSim = NoSim
    NoSample = NoSample
    MaxBatches = 2
    MaxEvents = 4
    MaxTotal = 4
    MaxResets = 1
    MaxDay = 0
SPECIFICATION MCSpec
INVARIANTS FaultIsCaught TypeOK ManifestForetells BookFollowsWarehouse MintedOnce BusinessTimeRuns ReconcileFindsNoWrongVerdict
CHECK_DEADLOCK FALSE
