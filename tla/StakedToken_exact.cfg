\* Rewards where no division rounds: the rate is a multiple of every supply
\* that three tokens allow, and the emission manager reports the supply itself.
SPECIFICATION Spec
CONSTANTS
    DISTRIBUTION_END = 5
    UNIT = 1
    Callers = {u1, u2}
    This = This
    Vault = Vault
    COOLDOWN_SECONDS = 1
    UNSTAKE_WINDOW = 1
    Amounts = {1, 2, 99}
    MAX_UINT = 99
    Emissions = {0, 6}
    ReportErrors = {0}
    Funds = 1
    VaultFunds = 1
    StartTime = 3
    MaxTime = 6
SYMMETRY Symmetry
INVARIANTS
    EveryRewardOwed
PROPERTIES
    CallsMoveNoRewards
    ImplementsStreamedRewards
