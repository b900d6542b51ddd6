\* initialize-StakedTokenV2Rev4 started on its own, without faults.
CONSTANTS
    NetworkChoices = {"testnet"}
    Tasks = {"common-deployment", "verification", "initialize-StakedTokenV2Rev4"}
    MaxSent = 5
    MaxCrashes = 0
    MaxLosses = 0
SPECIFICATION Spec
INVARIANTS
    FinishedUpgradeReal
CHECK_DEADLOCK FALSE
