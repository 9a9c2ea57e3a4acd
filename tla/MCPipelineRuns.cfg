CONSTANTS
    Files = {dirt, suspect}
    Dirt = dirt
    Suspect = suspect
    Rows <- RowsMC
    BadRows <- BadRowsMC
    Rejects <- RejectsMC
    StaleAfter = 1
    MaxBatches = 3
    MaxRetries = 1
    RejectWindow = 2
    MaxNow = 3
SPECIFICATION FairSpec
INVARIANTS TypeOK FilesLandOnce SucceededBatchesTell StatusZeroMeansPublished
PROPERTIES DeadLoadBlocksPublication RunEnds
CHECK_DEADLOCK FALSE
