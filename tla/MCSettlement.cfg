\* All requests name the wallets they debit and credit; a2 bears the issuance alias.
CONSTANTS
    a1 = a1
    a2 = a2
    bankA = bankA
    bankB = bankB
    u1 = u1
    u2 = u2
    u3 = u3
    ncb1 = ncb1
    ncb2 = ncb2
    Aliases = {a1, a2}
    Entities = {bankA, bankB}
    NCBs = {ncb1, ncb2}
    NoAlias = NoAlias
    NoEntity = NoEntity
    NoNCB = NoNCB
    Users = {u1, u2, u3}
    EntityOf <- MCEntityOf
    NoUser = NoUser
    Issuance = a2
    Amounts = {1, 2}
    DebitAliases = {a1, a2}
    CreditAliases = {a1, a2}
    NewValidities = {"VALID"}
    MaxMinted = 2
    MaxTransactions = 2
SYMMETRY MCSymmetry
SPECIFICATION Spec
INVARIANTS
    TypeOK
    SettledOnce
    FourEyes
    DebitsAuthorised
    TransfersObeyManagers
PROPERTIES
    FinalDraftsStay
    ImplementsLedger
