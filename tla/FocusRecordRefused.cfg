SPECIFICATION FreshSpec
CONSTANTS
    Items = {i1, i2}
    Attempts = {a1, a2}
    NoItem = NoItem
    NoRow = NoRow
    Nothing = Nothing
    Durations = {1}
    Horizon = 1
    MaxRevision = 2
    MaxLag = 0
SYMMETRY Identities
INVARIANT AcceptedDecisionIsPersisted
CHECK_DEADLOCK FALSE
