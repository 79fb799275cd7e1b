\* Everything that may fail, in four groups; the daemon dies anywhere.
SPECIFICATION Spec
CONSTANTS
    Pkgs = {p1, p2}
    Bridges = {b1, b2}
    p1 = p1
    p2 = p2
    b1 = b1
    b2 = b2
    BridgesOf <- AnyBridge
    NSub = 2
    NHost = 2
    FaultSets <- Environments
SYMMETRY Symmetry
INVARIANTS
    TypeOK
    NoSharedAddress
    SlaveKeepsSubnet
    AttachedHasNetwork
