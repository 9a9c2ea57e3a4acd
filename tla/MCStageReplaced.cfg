CONSTANTS
    Deployer = {"operator", "ci"}
    Operator = "operator"
    NoOne = NoOne
    File = {"file"}
    Target = {"dev", "prod"}
    DbtTarget = "dev"
    SnowflakeEnv = "dev"
    MaxFailures = 2
    MaxFaults = 0
    MaxDeploys = 2
    MaxElements = 0
    Character <- MCCharacter
    Bodies <- MCBodies
SPECIFICATION Spec
INVARIANTS StagedFilesSurvive
CHECK_DEADLOCK FALSE
