\* Starts and stops, one after the other.
SPECIFICATION HSpec
CONSTANTS
    Autostart = FALSE
    Bridge = FALSE
    Overlay = FALSE
    Faults = {}
    PMOps = {"StartRequested", "StopRequested"}
    EventCap = 1
    InitialUnits = {"inactive"}
    InitialLayers = {0}
PROPERTY StoppedIsRestarted
CHECK_DEADLOCK FALSE
