SPECIFICATION MCFocusSpec
CONSTANTS
    Items = {i1, i2, i3}
    Attempts = {a1, a2}
    NoItem = NoItem
    NoRow = NoRow
    Nothing = Nothing
    Durations = {1}
    Horizon = 1
    MaxRevision = 2
    MaxLag = 1
SYMMETRY Identities
INVARIANTS
    FocusTellsTheState
    FreshLedgerOnlyCollects
    DependenciesAcyclic
    OfferedAsAdvertised
    OfferedIsAccepted
    LaunchableStarts
    ImmediateCanMove
CHECK_DEADLOCK FALSE
