\* Two seconds of cooldown, a window of two, and a clock on which an expired
\* cooldown still meets a new one. The distribution is over, its rate still set.
SPECIFICATION Spec
CONSTANTS
    DISTRIBUTION_END = 0
    UNIT = 1
    Callers = {u1, u2}
    This = This
    Vault = Vault
    COOLDOWN_SECONDS = 2
    UNSTAKE_WINDOW = 2
    Amounts = {0, 1, 2, 3}
    MAX_UINT = 99
    Emissions = {1}
    ReportErrors = {0}
    Funds = 2
    VaultFunds = 0
    StartTime = 5
    MaxTime = 10
SYMMETRY Symmetry
INVARIANTS
    TypeOK
    CooldownSinceActivation
    ReceiptsBacked
    StakeNeverLocked
PROPERTIES
    ReceiptNeverShortensCooldown
    ExitOnlyInOwnWindow
