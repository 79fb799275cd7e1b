\* Every fault of systemd and D-Bus; units a previous daemon left.
SPECIFICATION Spec
CONSTANTS
    Autostart = TRUE
    Bridge = FALSE
    Overlay = FALSE
    Faults <- SystemdFaults
    PMOps <- DaemonOps
    EventCap = 1
    InitialUnits = {"inactive", "active", "failed"}
    InitialLayers = {0}
INVARIANTS
    TransientHidden
    NoAbandonedJob
    DeadReceiverMeansError
    StatusTellsUnit
PROPERTIES
    ImplementsService
\* A removed package stops.
CHECK_DEADLOCK FALSE
