\* The code installed over a V1 token whose users hold a receipt each: V1 kept
\* snapshots of balances, now the voting power, and none of proposition power.
SPECIFICATION Spec
CONSTANTS
    Users = {u1, u2}
    NoOne = NoOne
    Types = {VOTING_POWER, PROPOSITION_POWER}
    Amounts = {1}
    InitialStake = 1
    Snapshotted = {VOTING_POWER}
    StartBlock = 2
    MaxBlock = 4
    MaxSupply = 3
PROPERTIES
    PastPowerIsFixed
