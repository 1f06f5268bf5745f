SPECIFICATION FairSpec
CONSTANTS
    Program = {"foo", "app", "generator", "demo", "ingress"}
    Configs <- SomeConfigs
    MaxSignals = 3
    None = None
INVARIANTS TypeOK WorkersSeeFullCaches NoSignalIsLost ClientsFitConfig
PROPERTIES SignalStops WorkersStart
CHECK_DEADLOCK FALSE
