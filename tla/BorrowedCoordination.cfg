SPECIFICATION CommandsSpec
CONSTANTS
    Tasks = {t1, t2}
    Borrowers = {t1, t2}
    NoTask = NoTask
    Durations = {2}
    MaxLag = 1
    MaxGeneration = 4
    NoGrant = NoGrant
    Items = {i1}
    MaxRevision = 3
    MaxReceipts = 1
SYMMETRY SameTasks
INVARIANTS
    ResultMeansReleased
    ExecutedOnce
    NothingUnseenIsChanged
    OthersDoNotRefuse
PROPERTIES
    CleanupEndsOwnLease
    CommitsUnderOwnLease
    Fencing
CHECK_DEADLOCK FALSE
