\* Two trades, five submissions, windows that pass and a clock that turns back.
CONSTANTS
    w1 = w1
    w2 = w2
    bank1 = bank1
    bank2 = bank2
    ncb = ncb
    Aliases = {w1, w2}
    Entities = {bank1, bank2}
    NCBs = {ncb}
    NoAlias = NoAlias
    NoEntity = NoEntity
    NoNCB = NoNCB
    Trades = {t1, t2}
    InitialWallets <- MCWallets
    Amounts = {1, 2}
    Window = 0
    MaxTime = 1
    MaxLegs = 5
SYMMETRY MCSymmetry
SPECIFICATION Spec
CHECK_DEADLOCK FALSE
INVARIANTS
    LegsPayOnce
    ReceiptsMatchPayments
    SettledTogether
PROPERTIES
    ExpiredStaysUnpaid
    LedgerSteps
