\* Two assets and two users; no division rounds: the rate is a multiple of
\* every supply. Lists name up to two assets, or one of them twice, or none.
\* The recipient is the hardest one there is, the controller itself.
SPECIFICATION Spec
CONSTANTS
    DISTRIBUTION_END = 5
    UNIT = 1
    Users = {u1, u2}
    Assets = {a1, a2}
    Recipients = {This}
    This = This
    Vault = Vault
    PSM = PSM
    EXTRA_PSM_REWARD = 100
    Emissions = {2}
    Amounts = {2}
    VaultFunds = 2
    MaxList = 2
    MaxBalance = 1
    StartTime = 3
    MaxTime = 5
SYMMETRY Symmetry
INVARIANTS
    TypeOK
    EveryRewardOwed
    OnlyPayoutsStay
PROPERTIES
    OnlyClaimsArePaid
    ImplementsStreamedRewards
