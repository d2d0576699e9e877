SPECIFICATION Spec
CONSTANTS
    Items = {i1, i2}
    Attempts = {a1}
    NoItem = NoItem
    Durations = {1}
    Horizon = 1
    MaxRevision = 2
    MaxLag = 0
INVARIANT OfferedProposalIsIntake
CHECK_DEADLOCK FALSE
