\* Three processes and four starts, over an empty Redis or one with an older bundle.
CONSTANTS
    Replicas = {r1, r2, r3}
    Users = {u1}
    MaxAttempts = 2
    MaxKeys = 5
    MaxStarts = 4
SPECIFICATION Spec
CHECK_DEADLOCK FALSE
INVARIANTS
    IssuedStaysValid
PROPERTIES
    EveryStartEnds
