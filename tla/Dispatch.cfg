SPECIFICATION Spec
CONSTANTS
    Publishers = {d1, d2}
    Briefs = {b1, b2}
    LocalBriefs = {b2}
    Checkpoints = {c}
    Bytes = {x, y}
    Nothing = Nothing
    Keys <- MCKeys
    MaxRevision = 3
SYMMETRY Symmetry
INVARIANT AcceptedBytesExist
PROPERTIES
    RepeatingIsNeverRefused
    EmittedIsCurrent
CHECK_DEADLOCK FALSE
