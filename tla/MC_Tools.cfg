CONSTANTS
    Cells = 3
    MaxMessages = 2
    MaxLate = 1
    Parts = {"run", "show", "markdown", "names", "lens", "filter", "chart", "refer", "draw", "view"}
    Notebooks <- MCNotebooks
    Layouts <- MCLayouts
    Threshold = 40
    MaxLines = 4
    Folders = {"sub", "executed"}
    Titles = {"weather", "weather_now"}
    Within <- MCWithin
    MaxRuns = 2
    Urls = {"page", "short", "picture"}
    Final <- MCFinal
    Pages <- MCPages
    Script <- MCScript
    Picture = "picture"
    Callers = {1, 2}
    Views <- MCViews
    CacheSeconds = 1
    CacheSize = 2
    CacheDrop = 1
    Timeout = 1
    Limit = 1
    MaxNow = 4
    HitLists <- MCHitLists
    Words = {"", "a", "all", "zzz"}
    ResultLimit = 2
    MediaLimit = 3
    TopHosts = 2
    Tables <- MCTables
    Labels = {0, 1}
    Height = 5
    Points = 2
    Types = {"org-chart", "flowchart", "story-map"}
    Asked <- MCAsked
    Stripped <- MCStripped
    Aliases <- MCAliases
    Near <- MCNear
    Documents = {"fine", "bad"}
    Good = {"fine"}
    DiagramTitles = {"sky"}
    ReferTasks <- MCReferTasks
    DrawTasks <- MCDrawTasks
    MaxSecond = 1
    Fingers = {1, 2, 3}
SPECIFICATION AllSpec
INVARIANTS
    RunTellsTruly KernelTornDown NotebooksAreWhole FilesStayApart PanelsTellTruly OffersAreKept
PROPERTIES CallsEnd
CHECK_DEADLOCK FALSE
