\* Two users, three certificate requests, a removal, two crashes and a read that fails.
CONSTANTS
    Usernames = {u1, u2}
    NoUsername = NoUsername
    Requests = {e1, e2, e3}
    NoCert = NoCert
    MaxUuids = 6
    MaxCrashes = 2
    MaxFailures = 1
    MaxRemovals = 1
SPECIFICATION Spec
CHECK_DEADLOCK FALSE
SYMMETRY Symmetry
INVARIANTS
    FingerprintsAgree
    AnsweredIsBound
    ActsOverOwnCertificate
    NothingForgotten
PROPERTIES
    StoredUsersSurvive
