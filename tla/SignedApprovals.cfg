\* Two holders, both types of power, one token and two blocks; allowances
\* of at most one.
SPECIFICATION SignedSpec
CONSTANTS
    u1 = u1
    u2 = u2
    VOTING_POWER = VOTING_POWER
    PROPOSITION_POWER = PROPOSITION_POWER
    Users = {u1, u2}
    NoOne = NoOne
    Types = {VOTING_POWER, PROPOSITION_POWER}
    Amounts = {1}
    InitialStake = 0
    Snapshotted = {}
    StartBlock = 1
    MaxBlock = 2
    MaxSupply = 1
    MaxAllowance = 1
    Spenders = {u2}
    Signatures <- MCSignatures
INVARIANTS
    SignedTypeOK
    SignaturesActOnce
    FreshSignatureActs
    PowerIsDelegated
