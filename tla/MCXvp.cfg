\* Every id is used once; payments and queries contend for one agreement.
CONSTANTS
    buyerWallet = buyerWallet
    sellerWallet = sellerWallet
    buyer = buyer
    seller = seller
    ncb = ncb
    Aliases = {buyerWallet, sellerWallet}
    Entities = {buyer, seller}
    NCBs = {ncb}
    NoAlias = NoAlias
    NoEntity = NoEntity
    NoNCB = NoNCB
    Xvps = {x1}
    Calls = {c1, c2, c3}
    InitialWallets <- MCWallets
    Amounts = {1, 3}
    Sellers = {sellerWallet}
    Timeouts = {0}
    MaxTime = 1
    MaxInits = 1
    ReuseIds = FALSE
SYMMETRY MCSymmetry
SPECIFICATION Spec
CHECK_DEADLOCK FALSE
INVARIANTS
    CancellationMeansUnpaid
    ExecutionMeansPaid
    ReportsTellAttempts
    PaidAsAgreed
PROPERTIES
    TerminalStatuses
