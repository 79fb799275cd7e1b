SPECIFICATION FairSpec
CONSTANTS
    a = a
    b = b
    c1 = c1
    c2 = c2
    Names = {a, b}
    MaxVersion = 2
    Clients = {c1, c2}
    Calls <- SomeCalls
    QueueMax = 2
    LeftMax = 0
    Autostart = TRUE
    Scenarios <- SomeScenarios
INVARIANTS
    TypeOK
    RunsWhatIsInstalled
    NoOrphan
PROPERTIES
    EndLeavesNothing
    SignalEnds
    RpcAnswered
