\* The unit settles while states are queued; the monitor may die.
SPECIFICATION FairSpec
CONSTANTS
    Autostart = FALSE
    Bridge = FALSE
    Overlay = FALSE
    Faults = {"monitor"}
    PMOps <- UpgradeOps
    EventCap = 1
    InitialUnits = {"inactive"}
    InitialLayers = {0}
PROPERTIES
    AsksAnswered
    StatusConverges
\* A replaced package stops.
CHECK_DEADLOCK FALSE
