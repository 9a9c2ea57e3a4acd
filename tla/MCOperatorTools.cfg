CONSTANTS
    Deployer = {"operator", "ci"}
    Operator = "operator"
    NoOne = NoOne
    File = {"file"}
    Target = {"dev", "prod"}
    DbtTarget = "dev"
    SnowflakeEnv = "dev"
    MaxFailures = 1
    MaxFaults = 3
    MaxDeploys = 2
    MaxElements = 4
    Character <- MCCharacter
    Bodies <- MCBodies
SPECIFICATION Spec
INVARIANTS StatementsAsWritten CapturedOnce SuspensionIsReported VouchedIsDeployed FailuresAreGenuine
PROPERTIES SetupSucceeds
CHECK_DEADLOCK FALSE
