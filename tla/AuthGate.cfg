\* An address of the internet and one of the LAN.
CONSTANTS
    Clients = {visitor, lan}
    Local = {lan}
    Fails = 2
    Window = 1
    Ban = 1
    RepeatBan = 2
    Day = 2
    NoBan = NoBan
    Unknown = Unknown
    MaxLines = 4
    MaxDisturb = 1
    Horizon = 1
SPECIFICATION Spec
INVARIANTS CountedOnce DiskMatches
PROPERTIES BanExactly LinesCounted
