SPECIFICATION Spec
CONSTANTS
    Proc = {p1, p2}
    Version = {v1, v2}
    Kinds = {"file", "tar"}
    Length = 2
    MaxFaults = 3
INVARIANTS
    ReturnedIsVerified
    NeverSpliced
    OneWriter
PROPERTIES
    PullEnds
    Recovers
CHECK_DEADLOCK FALSE
