\* Two drafts, a reset and two crashes; or one draft over connections that break twice.
CONSTANTS
    Funds = 2
    MaxCreated = 2
    MaxEra = 1
    MaxBreaks = 2
    MaxCrashes = 2
SPECIFICATION Spec
CHECK_DEADLOCK FALSE
CONSTRAINT OneDraftOverBreaks
INVARIANTS
    SettledMeansMoved
    TransactionsOfSettled
    LostOnlyIfOvertaken
    NoWriteDropped
    CashNeverCreated
PROPERTIES
    DraftsNotReplaced
