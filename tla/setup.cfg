\* The operations of a package's API in any order (the start is initialize()'s),
\* every fault of setup and teardown, a private network, an overlay.
SPECIFICATION Spec
CONSTANTS
    Autostart = TRUE
    Bridge = TRUE
    Overlay = TRUE
    Faults <- SetupFaults
    PMOps <- SetupOps
    EventCap = 1
    InitialUnits = {"inactive"}
    InitialLayers = {0}
INVARIANTS
    TypeOK
    LiveHasResources
    SkippedIsUnmounted
PROPERTIES
    ImplementsService
\* A removed package stops.
CHECK_DEADLOCK FALSE
