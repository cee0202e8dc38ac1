CONSTANTS
    MinuteLen = 2
    Window = 5
    RawRetention = 7
    RollRetention = 9
    MaintEvery = 2
    MaxLoop = 1
    Day = 5
    Ranges <- MCRanges
    Horizon = 12
    Parts = {"store"}
    Names = {"web", "db"}
    Unit = 2
    MaxEvents = 3
    Gpus <- MCGpus
    Procs <- MCProcs
    HostTotal = 10
    Limit = 2
    MaxGpus = 2
    MaxProcs = 3
    MaxBytes = 2
    Cpus = 2
    Memory = {2, 5}
    Ports <- MCPorts
    MaxTime = 3
SPECIFICATION AllSpec
CONSTRAINT NothingLogged
PROPERTY PassesKeepSamples
CHECK_DEADLOCK FALSE
