SPECIFICATION Spec
CONSTANTS
    Initializers = {p1, p2}
    Files = {f1, f2, f3, f4}
    NoFile = NoFile
    MaxFaults = 0
INVARIANT PublishedIsVerified
CHECK_DEADLOCK FALSE
