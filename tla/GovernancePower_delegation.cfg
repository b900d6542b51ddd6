\* One type of power: three users who mint, burn, move and delegate up to two
\* tokens over two blocks.
SPECIFICATION Spec
CONSTANTS
    Users = {u1, u2, u3}
    NoOne = NoOne
    Types = {VOTING_POWER}
    Amounts = {0, 1, 2}
    InitialStake = 0
    Snapshotted = {}
    StartBlock = 1
    MaxBlock = 2
    MaxSupply = 2
SYMMETRY Symmetry
INVARIANTS
    TypeOK
    PowerNeverLocks
    HistoriesOrdered
PROPERTIES
    ImplementsVotingPower
    PastPowerIsFixed
