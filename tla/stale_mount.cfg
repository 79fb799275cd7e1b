\* The same packages and devices without an overlay, under a daemon that dies.
SPECIFICATION Spec
CONSTANTS
    p1 = p1
    p2 = p2
    l1 = l1
    l2 = l2
    d1 = d1
    d2 = d2
    Pkgs = {p1, p2}
    Loops = {l1, l2}
    Devs = {d1, d2}
    Overlay = FALSE
    BusyMax = 2
    AgainMax = 1
    FaultSets <- Crashes
INVARIANT ReadyIsWhole
