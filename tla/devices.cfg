\* Two packages over two loop devices; the host and the errors in groups.
SPECIFICATION FairSpec
CONSTANTS
    p1 = p1
    p2 = p2
    l1 = l1
    l2 = l2
    d1 = d1
    d2 = d2
    Pkgs = {p1, p2}
    Loops = {l1, l2}
    Devs = {d1, d2}
    Overlay = TRUE
    BusyMax = 2
    AgainMax = 1
    FaultSets <- Environments
INVARIANTS
    TypeOK
    BaseIsBacked
    NoRestack
    NoLeak
    ReadyIsWholeOtherwise
PROPERTIES
    SetupEnds
