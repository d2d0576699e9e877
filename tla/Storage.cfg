SPECIFICATION StorageSpec
CONSTANTS
    Items = {i1, i2, i3, i4, i5}
    NoItem = NoItem
    Initializers = {p1}
    Files = {f1, f2, f3, f4}
    NoFile = NoFile
    MaxFaults = 4
    Writers = {w1, w2}
    Repairers = {r}
    Nobody = Nobody
    MaxRevision = 3
INVARIANTS
    EveryStatementApplies
    FinishedChangeReadsBack
    PublishedIsVerified
    ReliedIsDurable
    StaleHasACause
PROPERTIES
    OrderIsKept
    InitializationAdvances
    InitializationRecovers
    RepairConverges
CHECK_DEADLOCK FALSE
