\* testnet, oasys and main; the tasks that change what is deployed.
CONSTANTS
    NetworkChoices = {"testnet", "oasys", "main"}
    Tasks = {"common-deployment", "common-initialization",
             "initialize-StakedTokenV2Rev4", "deploy-StakedTokenV2Rev4 --verify"}
    MaxSent = 6
    MaxCrashes = 1
    MaxLosses = 1
SPECIFICATION FairSpec
INVARIANTS
    TypeOK
    RegisteredExists
    FinishedDeploymentComplete
    FinishedInitializationReal
    NeverStuck
    VerificationThorough
PROPERTIES
    UpgradeKeepsState
    TaskEnds
CHECK_DEADLOCK FALSE
