CONSTANTS
    Parts = {"songs", "house"}
    ballad = ballad
    anthem = anthem
    epic = epic
    Songs <- MCSongs
    Size <- MCSize
    CacheBytes = 2
    Slots = 2
    MaxTasks = 3
    MaxRestarts = 1
    Devices = {"lamp", "door"}
    Domain <- MCDomain
    Full = 1
    Asked <- MCAsked
    Requests = {"poll", "person"}
    Keep = 1
    Slow = 1
    MaxNow = 2
    MaxChanges = 2
SPECIFICATION AllSpec
INVARIANTS TypeOK OneDownloadPerSong CacheCapped HomeKeepsItsWord
PROPERTIES FetchesEnd PanelCatchesUp
CHECK_DEADLOCK FALSE
