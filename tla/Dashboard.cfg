\* Two categories, a ring of one label and two polls; a counter of three prompts.
CONSTANTS
    Parts = {"feed", "live", "prompts"}
    Every = 2
    RingLength = 2
    Buffer = 1
    MaxTicks = 3
    MaxDrops = 1
    MaxRestarts = 1
    Categories = {debugging, other}
    Other = other
    Replies = {debugging, chatter}
    ClassifyModel = ""
    Models = {"", "gemma"}
    MaxConcurrent = 1
    FeedLength = 1
    RecentLimit = 1
    Polls = {p1, p2}
    MaxRequests = 3
    Period = 3
    Rates = {0, 1, 2, 3}
    ModelSet = FALSE
    MaxTurns = 2
    MaxPrompts = 5
SPECIFICATION AllSpec
INVARIANTS ClassifierKeepsWithin SamplesAreWhole ShownInOrder
PROPERTIES NeverGoesBack CatchesUp FeedCatchesUp
