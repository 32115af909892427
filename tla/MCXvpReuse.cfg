\* Clients init an id again, even while a payment of it is admitted.
CONSTANTS
    buyerWallet = buyerWallet
    sellerWallet = sellerWallet
    buyer = buyer
    seller = seller
    ncb = ncb
    Aliases = {buyerWallet, sellerWallet}
    Entities = {buyer, seller}
    NCBs = {ncb}
    NoAlias = NoAlias
    NoEntity = NoEntity
    NoNCB = NoNCB
    Xvps = {x1}
    Calls = {c1, c2}
    InitialWallets <- MCWallets
    Amounts = {1}
    Sellers = {sellerWallet}
    Timeouts = {0}
    MaxTime = 1
    MaxInits = 2
    ReuseIds = TRUE
SPECIFICATION FairSpec
CHECK_DEADLOCK FALSE
INVARIANTS
    CancellationMeansUnpaid
PROPERTIES
    LedgerSteps
    EveryCallAnswered
