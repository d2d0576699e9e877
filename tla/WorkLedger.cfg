SPECIFICATION Spec
CONSTANTS
    Items = {i1, i2}
    Attempts = {a1, a2}
    NoItem = NoItem
    Durations = {1, 2}
    Horizon = 2
    MaxRevision = 2
    MaxLag = 1
SYMMETRY Identities
INVARIANT TypeOK ItemAttemptAgreement ReviewCanBeReturned
PROPERTY AcceptedDecisionsReadBack ActivationIsPrepared AcceptedCandidateIsCurrent TerminalIsFinal KeepsLifecycle
CHECK_DEADLOCK FALSE
