CONSTANTS
    c1 = c1
    c2 = c2
    t1 = t1
    Charges = {c1}
    NoCharge = NoCharge
    Tenants = {t1}
    TenantOf <- MCTenantOf
    Gross <- MCGross
    OpenpayFee <- MCOpenpayFee
    FeeConfigs <- TwoFees
    InitialFee <- MCInitialFee
    Workers = {w1, w2}
    MaxFaults = 1
SPECIFICATION FairSpec
CHECK_DEADLOCK FALSE
INVARIANTS
    CreditsBoundedByFaults
    StatusNeverAheadOfProvider
PROPERTIES
    SplitSurvives
    KeepsPromise
    SuccessIsAccountedFor
    OutboxDrains
