\* The tasks of revision 3 on testnet, without faults.
CONSTANTS
    NetworkChoices = {"testnet"}
    Tasks = {"dev-deployment", "common-deployment", "deploy-StakedTokenV2Rev3",
             "deploy-staked-plmy-rev3", "initialize-StakedOas",
             "initialize-StakedTokenV2Rev3"}
    MaxSent = 6
    MaxCrashes = 0
    MaxLosses = 0
SPECIFICATION Spec
PROPERTIES
    UpgradeKeepsState
CHECK_DEADLOCK FALSE
