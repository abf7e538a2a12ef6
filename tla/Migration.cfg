SPECIFICATION Spec
CONSTANTS
    Accounts <- FourAccounts
    FeeAccount = 7
    Amounts = {283, 284, 1500}
    MaxUtxos = 2
    SmallThreshold = 284
    FeeRate = 250
INVARIANTS
    TypeOK
    SpentExactlyOnce
    PlanBalances
    PanicsExactlyWhenShort
CHECK_DEADLOCK FALSE
