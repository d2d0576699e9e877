SPECIFICATION AuthoritySpec
CONSTANTS
    Commands = {c1, c2}
    NoHolder = NoHolder
    Durations = {1, 2}
    Horizon = 3
    MaxGeneration = 3
    MaxRevision = 2
    NoGrant = NoGrant
SYMMETRY Processes
INVARIANTS
    TablesAgree
    FinishedStaysFenced
    NoClaimAfterActivation
PROPERTIES
    Fencing
    NoChangeIsLost
    StartsPrepared
CHECK_DEADLOCK FALSE
