\* Rewards where most divisions round, and reports that may be one too high.
SPECIFICATION Spec
CONSTANTS
    DISTRIBUTION_END = 5
    UNIT = 3
    Callers = {u1, u2}
    This = This
    Vault = Vault
    COOLDOWN_SECONDS = 1
    UNSTAKE_WINDOW = 1
    Amounts = {1, 99}
    MAX_UINT = 99
    Emissions = {5}
    ReportErrors = {0, 1}
    Funds = 1
    VaultFunds = 1
    StartTime = 3
    MaxTime = 6
SYMMETRY Symmetry
INVARIANTS
    IndicesOrdered
    RewardsWithinEmission
