\* A connection that breaks once: commands are retried, none fails twice.
CONSTANTS
    Funds = 2
    MaxCreated = 1
    MaxEra = 0
    MaxBreaks = 1
    MaxCrashes = 0
SPECIFICATION Spec
CHECK_DEADLOCK FALSE
INVARIANTS
    NothingLost
