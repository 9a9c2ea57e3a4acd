CONSTANTS
    Files = {dirt, suspect}
    Dirt = dirt
    Suspect = suspect
    Rows <- RowsMC
    BadRows <- BadRowsMC
    Rejects <- RejectsMC
    StaleAfter = 1
    MaxBatches = 3
    MaxRetries = 1
    RejectWindow = 2
    MaxNow = 2
SPECIFICATION Spec
INVARIANT TrippedGateIsLoud
CHECK_DEADLOCK FALSE
