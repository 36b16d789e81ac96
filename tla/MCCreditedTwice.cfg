CONSTANTS
    c1 = c1
    c2 = c2
    t1 = t1
    Charges = {c1}
    NoCharge = NoCharge
    Tenants = {t1}
    TenantOf <- MCTenantOf
    Gross <- MCGross
    OpenpayFee <- MCOpenpayFee
    FeeConfigs <- OneFee
    InitialFee <- MCInitialFee
    Workers = {w1, w2}
    MaxFaults = 1
SPECIFICATION Spec
CHECK_DEADLOCK FALSE
INVARIANT CreditedAtMostOnce
