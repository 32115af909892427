\* Two users, three certificates, twelve business days, every kind of operation.
CONSTANTS
    LastTime = 3
    AdminTokenSet = TRUE
    Updates <- MCUpdates
    u1 = u1
    u2 = u2
    c1 = c1
    c2 = c2
    c3 = c3
    Users = {u1, u2}
    Certificates = {c1, c2, c3}
    NoCert = NoCert
    BareKey = BareKey
    Garbage = Garbage
    CertsOf <- MCCertsOf
    ProfileOf <- MCProfileOf
    NCB = ncb
    OtherNCB = otherNcb
    UnknownNCB = unknownNcb
    Operations = {"health", "currentWindow", "createFunding", "approveFunding", "createWalletOneStep", "createTransfer", "bridgePayment", "bridgeDirectRtgs", "initXvp", "payXvp", "payRtgsXvp"}
    Tokens <- MCTokens
    Connections <- MCConnections
    Bodies <- MCBodies
    TrustProxy = TRUE
    AlwaysOpen = FALSE
SPECIFICATION Spec
ACTION_CONSTRAINT AnswersAreFinal
INVARIANTS
    WindowsPartitionDay
    ExecutedWasOpen
    ExecutedWasBound
    NoOthersCertificateSigns
    RefusalsKeepTheOrder
PROPERTIES
    AnnouncedWindowComes
