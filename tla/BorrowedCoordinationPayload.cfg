CONSTANTS
    Tasks = {t1, t2}
    Borrowers = {t1, t2}
    NoTask = NoTask
    Durations = {2}
    MaxLag = 1
    MaxGeneration = 3
    NoGrant = NoGrant
SPECIFICATION BorrowSpec
CHECK_DEADLOCK FALSE
INVARIANT PayloadValidatedFirst
