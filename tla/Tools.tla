--------------------------------- MODULE Tools ---------------------------------
(***************************************************************************)
(* The Open WebUI tools: a behaviour uses one part of one of them, the run  *)
(* of a notebook, which is extended, or an instance; the variables of the   *)
(* others stay as they are.                                                 *)
(***************************************************************************)
EXTENDS NotebookRun, FiniteSets

CONSTANTS
    Parts, \* the parts that are looked at
    Notebooks, Layouts, Threshold,                        \* NotebookPages
    MaxLines,                                             \* TinyMarkdown
    Folders, Titles, Within, MaxRuns,                     \* NotebookNames
    Urls, Final, Pages, Script, Picture, Callers, Views,
    CacheSeconds, CacheSize, CacheDrop, Timeout, Limit, MaxNow, \* DataLens
    HitLists, Words, ResultLimit, MediaLimit, TopHosts,   \* LensResults
    Tables, Labels, Height, Points,                       \* LensChart
    Types, Asked, Stripped, Aliases, Near, Documents, Good,
    DiagramTitles, ReferTasks, DrawTasks, MaxSecond,      \* DiagramTool
    Fingers                                               \* DiagramViewer

VARIABLES
    part,
    nb, layout, pages, idx,                               \* NotebookPages
    files, copies, found, ran, runs,                      \* NotebookNames
    now, web, cache, calls,                               \* DataLens
    panel, filter, page, stage,                           \* LensResults
    chart,                                                \* LensChart
    src, html, inList, para, over,                        \* TinyMarkdown
    second, checkout, github, fetched, disk, asks,        \* DiagramTool
    v, pts, last, pinch, active                           \* DiagramViewer

Show == INSTANCE NotebookPages
Mark == INSTANCE TinyMarkdown
Names == INSTANCE NotebookNames
Lens == INSTANCE DataLens
Filter == INSTANCE LensResults
Chart == INSTANCE LensChart
\* Calls that read and calls that draw.
Refer == INSTANCE DiagramTool WITH Titles <- DiagramTitles, Tasks <- ReferTasks
Draw == INSTANCE DiagramTool WITH Titles <- DiagramTitles, Tasks <- DrawTasks
View == INSTANCE DiagramViewer

\* Instances get the assumptions of their modules here.
ASSUME PartsAssumption ==
    /\ Show!NotebookPagesAssumption
    /\ Mark!TinyMarkdownAssumption
    /\ Names!NotebookNamesAssumption
    /\ Lens!DataLensAssumption
    /\ Filter!LensResultsAssumption
    /\ Chart!LensChartAssumption
    /\ Refer!DiagramToolAssumption
    /\ Draw!DiagramToolAssumption

-----------------------------------------------------------------------------
ShowVars == <<nb, layout, pages, idx>>
NamesVars == <<files, copies, found, ran, runs>>
MarkVars == <<src, html, inList, para, over>>
LensVars == <<now, web, cache, calls>>
FilterVars == <<panel, filter, page, stage>>
DrawVars == <<second, checkout, github, fetched, disk, asks>>
ViewVars == <<v, pts, last, pinch, active>>
NotebookVars == <<vars, ShowVars, NamesVars, MarkVars>>
LensPartVars == <<LensVars, FilterVars, chart>>
DiagramVars == <<DrawVars, ViewVars>>
AllVars == <<part, NotebookVars, LensPartVars, DiagramVars>>

Off == 0

\* A call that found no notebook.
NoRun ==
    /\ call = [at |-> "over", cell |-> 0, nb |-> NoOutputs, ok |-> TRUE, failed |-> FALSE]
    /\ kernel = [at |-> "none", cell |-> 0, sent |-> 0, late |-> 0] /\ wire = <<>>
    /\ results = [recorded |-> "none", panel |-> FALSE, saved |-> FALSE, copy |-> NoOutputs]
    /\ published = NoOutputs /\ ended = [idle |-> {}, failed |-> {}] /\ lost = FALSE

AllInit ==
    /\ part \in Parts
    /\ IF part = "run" THEN Init ELSE NoRun
    /\ IF part = "show" THEN Show!Init ELSE nb = Off /\ layout = Off /\ pages = Off /\ idx = Off
    /\ IF part = "markdown" THEN Mark!Init
       ELSE src = Off /\ html = Off /\ inList = Off /\ para = Off /\ over = Off
    /\ IF part = "names" THEN Names!Init ELSE files = Off /\ copies = Off /\ found = Off /\ ran = Off /\ runs = Off
    /\ IF part = "lens" THEN Lens!Init ELSE now = Off /\ web = Off /\ cache = Off /\ calls = Off
    /\ IF part = "filter" THEN Filter!Init ELSE panel = Off /\ filter = Off /\ page = Off /\ stage = Off
    /\ IF part = "chart" THEN Chart!Init ELSE chart = Off
    /\ IF part \in {"refer", "draw"} THEN Draw!Init
       ELSE second = Off /\ checkout = Off /\ github = Off /\ fetched = Off /\ disk = Off
            /\ asks = Off
    /\ IF part = "view" THEN View!Init
       ELSE v = Off /\ pts = Off /\ last = Off /\ pinch = Off /\ active = Off

InRun(A) ==
    part = "run" /\ A /\ UNCHANGED <<part, ShowVars, NamesVars, MarkVars, LensPartVars, DiagramVars>>

AllNext ==
    \/ InRun(Next)
    \/ /\ UNCHANGED part
       /\ \/ part = "show" /\ Show!Next /\ UNCHANGED <<vars, NamesVars, MarkVars, LensPartVars, DiagramVars>>
          \/ part = "markdown" /\ Mark!Next /\ UNCHANGED <<vars, ShowVars, NamesVars, LensPartVars, DiagramVars>>
          \/ part = "names" /\ Names!Next /\ UNCHANGED <<vars, ShowVars, MarkVars, LensPartVars, DiagramVars>>
          \/ part = "lens" /\ Lens!Next /\ UNCHANGED <<NotebookVars, FilterVars, chart, DiagramVars>>
          \/ part = "filter" /\ Filter!Next /\ UNCHANGED <<NotebookVars, LensVars, chart, DiagramVars>>
          \/ part = "chart" /\ Chart!Next /\ UNCHANGED <<NotebookVars, LensVars, FilterVars, DiagramVars>>
          \/ part = "refer" /\ Refer!Next /\ UNCHANGED <<NotebookVars, LensPartVars, ViewVars>>
          \/ part = "draw" /\ Draw!Next /\ UNCHANGED <<NotebookVars, LensPartVars, ViewVars>>
          \/ part = "view" /\ View!Next /\ UNCHANGED <<NotebookVars, LensPartVars, DrawVars>>

\* The fairness of NotebookRun.
AllSpec == AllInit /\ [][AllNext]_AllVars /\ WF_AllVars(InRun(Tool)) /\ WF_AllVars(InRun(TimesOut))

-----------------------------------------------------------------------------
(* Properties *)

\* NotebookPages: every output is on one page, and a section names the one it is in.
PagesAreWhole == part = "show" => Show!TypeOK /\ Show!EveryOutputOnce /\ Show!ParentEncloses
\* TinyMarkdown: every line of a note is written once, and its tags nest.
HtmlIsWhole == part = "markdown" => Mark!TypeOK /\ Mark!HtmlIsWhole
\* Both: what is shown of a notebook is all of it, once.
NotebooksAreWhole == PagesAreWhole /\ HtmlIsWhole
\* NotebookNames: copies never stand for the notebook they are of.
CopiesStayApart == part = "names" => Names!TypeOK /\ Names!CopiesStayApart
\* NotebookNames: what runs is what the person was told.
RunsWhatWasTold == part = "names" => Names!RunsWhatWasTold
\* DiagramTool: what was saved is what the model wrote.
SavedStays == part = "draw" => Draw!TypeOK /\ Draw!SavedStays
\* Both: no file that is written stands for another.
FilesStayApart == CopiesStayApart /\ SavedStays
\* DataLens: no page on the screen is too old.
ShownIsRecent == part = "lens" => Lens!TypeOK /\ Lens!ShownIsRecent
\* LensResults: the counts on the chips of a panel are what they leave.
FacetsTellTruly == part = "filter" => Filter!TypeOK /\ Filter!FacetsTellTruly
\* DiagramViewer: what is seen of a diagram lies inside it.
ViewStaysInside == part = "view" => View!ViewStaysInside
\* All three, of what is on the screen: the page, the results and the diagram.
PanelsTellTruly == ShownIsRecent /\ FacetsTellTruly /\ ViewStaysInside
\* LensChart: no mark is higher than that of a larger value.
ChartsTellTheOrder == part = "chart" => Chart!ChartsTellTheOrder
\* DiagramTool: a listed type that keeps its name is found by its slug.
ListedIsFound == part = "refer" => Refer!TypeOK /\ Refer!ListedIsFound
\* DataLens: what a panel offers is there, but for the chips that are in vain.
OffersHold == part = "lens" => Lens!OffersHold
\* All three: what a panel, a chart or the list of types lets one choose is what one gets,
\* with the exceptions that DataLens and DiagramTool name.
OffersAreKept == OffersHold /\ ChartsTellTheOrder /\ ListedIsFound
===============================================================================
