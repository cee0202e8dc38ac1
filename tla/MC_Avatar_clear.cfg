CONSTANTS
    Parts = {"chats"}
    a = a
    b = b
    ChatIds <- MCChatIds
    None = None
    MaxOps = 1
    MaxCrashes = 1
    MaxRounds = 1
    MaxTurns = 1
    Songs = {"tailed", "even"}
    Pieces <- MCPieces
    Tails = {"tailed"}
    MaxFinds = 2
    MaxVersion = 2
    Times <- MCTimes
    Spots <- MCSpots
    Jitter = 2
    SlipCost = 1
    Small = 1
    Enough = 2
    Reach = 3
    Videos <- MCVideos
    Stations <- MCStations
    Episodes = {0, 1, 2}
    Shortest = 2
    Longest = 8
    MixLength = 2
    MaxStations = 2
    MaxEpisodes = 2
    MaxHits = 2
    Sources = {"song", "show"}
    Kind <- MCKind
    Lifetime = 1
    Threads = {"loop", "pool"}
    MaxTokens = 3
    MaxNow = 2
SPECIFICATION AllSpec
SYMMETRY AnyNames
CONSTRAINT OneLongTurn
INVARIANT ClearForgets
CHECK_DEADLOCK FALSE
