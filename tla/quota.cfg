\* Calls on the disk that fail in groups; the daemon dies anywhere.
SPECIFICATION Spec
CONSTANTS
    a = a
    b = b
    Names = {a, b}
    Limits = {0, 1}
    Incoming <- Releases
    MaxId = 3
    MaxIdBare = 2
    FaultSets <- Environments
INVARIANTS
    TypeOK
    OwnProject
    LimitInForce
    DataIsLimitedOtherwise
PROPERTIES
    ProjectIsKept
