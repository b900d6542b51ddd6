\* totalSupplyAt of a token that mints and burns.
SPECIFICATION Spec
CONSTANTS
    Users = {u1, u2}
    NoOne = NoOne
    Types = {VOTING_POWER, PROPOSITION_POWER}
    Amounts = {1}
    InitialStake = 0
    Snapshotted = {}
    StartBlock = 2
    MaxBlock = 4
    MaxSupply = 3
PROPERTIES
    PastSupplyIsFixed
