SPECIFICATION Spec
CONSTANTS
    Items = {i1}
    Attempts = {a1}
    NoItem = NoItem
    Durations = {1}
    Horizon = 1
    MaxRevision = 2
    MaxLag = 0
SYMMETRY Identities
PROPERTY ResumeBindsCurrentDefinition
CHECK_DEADLOCK FALSE
