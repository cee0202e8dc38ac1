------------------------------- MODULE DataLens -------------------------------
(***************************************************************************)
(* Tools/data_lens.py: calls of open_page() and chart_data() over the cache *)
(* of responses that all calls of the process share.  A call is a           *)
(* coroutine, an action what it does between two awaits.  The web and the   *)
(* browser that renders scripts are the environment; a page carries the     *)
(* time it was served, which tells how old it may be.  search_web() fetches *)
(* by the same _get().                                                      *)
(* A page is its content type, the end of its path, the elements of its     *)
(* document in order, the rows of its data and whether it has a lead image. *)
(* An element keeps what the extractors ask of it: its tag, the length of   *)
(* its text, a table's rows and columns, whether a picture is worth         *)
(* showing, whether it lies in the article, and whether a blank line parts   *)
(* it from the text before.                                                 *)
(***************************************************************************)
EXTENDS Integers, Sequences, SequencesExt, FiniteSets

CONSTANTS
    Urls,      \* addresses
    Final,     \* where the redirects of an address end
    Pages,     \* what a server may answer
    Script,    \* what a page looks like when its scripts have run
    Picture,   \* the address of the pictures that are put into panels
    Callers,   \* calls that run at a time
    Views,     \* caller -> what it may be asked for
    CacheSeconds, CacheSize, CacheDrop, Timeout,
    Limit,     \* rows asked for
    MaxNow     \* bound: the clock

DataLensAssumption ==
    /\ Final \in [Urls -> Urls] /\ DOMAIN Script = Pages
    /\ Picture \in Urls
    /\ Views \in [Callers -> SUBSET {"auto", "table", "text", "media", "chart", "render"}]
    /\ CacheSeconds \in Nat \ {0} /\ Timeout \in Nat \ {0}
    /\ CacheDrop \in 1..CacheSize /\ CacheSize \in Nat /\ MaxNow \in Nat

VARIABLES
    now,
    web,    \* address -> the page its server answers with
    cache,  \* _cache: address -> when it was put there, the page, when it was served
    calls   \* caller -> where it is and its locals

vars == <<now, web, cache, calls>>

-----------------------------------------------------------------------------
(* Extraction *)

Kept(s, Test(_)) == SelectSeq(s, Test)
InRoot(doc) == Kept(doc, LAMBDA e : e.root)

Score(t) == t.rows * t.cols

\* A table of two rows and columns at least, the largest first.
TablesIn(doc) ==
    SortSeq(Kept(doc, LAMBDA e : e.tag = "table" /\ e.rows >= 2 /\ e.cols >= 2),
            LAMBDA s, t : Score(s) > Score(t))

IsMedia(e) == e.tag = "media" /\ e.good

\* p, h2, h3 and li; a p is dropped under 25 characters.
IsText(e) == e.tag \in {"p", "li"} /\ e.len > 0 /\ (e.tag = "p" => e.len >= 25)

\* Paragraphs of pages that are made of divs.
IsLeaf(e) == e.tag = "div" /\ e.len >= 40

AllText(doc) == FoldSeq(LAMBDA e, sum : e.len + sum, 0, doc)

Block(kind, len) == [kind |-> kind, len |-> len]
AsBlock(e) == IF e.tag = "media" THEN Block("media", 0) ELSE Block(e.tag, e.len)
Blocks(es) == [i \in DOMAIN es |-> AsBlock(es[i])]

\* The text between blank lines, as its lengths.
Chunks(doc) ==
    FoldLeft(LAMBDA lens, e : IF lens = <<>> \/ e.apart THEN Append(lens, e.len)
                              ELSE [lens EXCEPT ![Len(lens)] = @ + e.len],
             <<>>, doc)
LongChunks(doc) == SelectSeq(Chunks(doc), LAMBDA len : len >= 40)

\* _extract_reader(): the text with its media in order; without any, divs with
\* enough text; without those, what is long enough between blank lines.
Reader(doc) ==
    LET root == InRoot(doc)
        media == Blocks(Kept(root, IsMedia))
        leaves == Kept(root, IsLeaf)
    IN IF \E i \in DOMAIN root : IsText(root[i])
       THEN Blocks(Kept(root, LAMBDA e : IsText(e) \/ IsMedia(e)))
       ELSE IF leaves # <<>> THEN media \o Blocks(leaves)
       ELSE media \o [i \in DOMAIN LongChunks(root) |-> Block("p", LongChunks(root)[i])]

MediaItems(page) == Len(Kept(Reader(page.doc), LAMBDA b : b.kind = "media"))

\* _collect_media(): of the article, else of the whole page; 24 at most.
Collected(doc) ==
    LET inside == Len(Kept(InRoot(doc), IsMedia))
        found == IF inside > 0 THEN inside ELSE Len(Kept(doc, IsMedia))
    IN IF found > 24 THEN 24 ELSE found

\* A plausible bug: the lead image is only thought of in the text view.
GalleryWithoutHero(page) ==
    IF Collected(page.doc) > 0 THEN Collected(page.doc) ELSE MediaItems(page)
Gallery(page) ==
    LET own == IF Collected(page.doc) > 0 THEN Collected(page.doc) ELSE MediaItems(page)
    IN IF own = 0 /\ page.hero THEN 1 ELSE own

-----------------------------------------------------------------------------
(* Rendering: how much of what is shown *)

\* _v_reader(): six media at most, text until the budget is used up, each
\* paragraph cut at 500.
ReaderShows(blocks, budget) ==
    LET step(b, acc) ==
            IF acc.full \/ (b.kind = "media" /\ acc.media >= 6) THEN acc
            ELSE IF b.kind = "media" THEN [acc EXCEPT !.media = @ + 1, !.shown = @ + 1]
            ELSE IF acc.used >= budget THEN [acc EXCEPT !.full = TRUE]
            ELSE [acc EXCEPT !.used = @ + (IF b.len > 500 THEN 500 ELSE b.len), !.shown = @ + 1]
    IN FoldLeft(LAMBDA acc, b : step(b, acc),
                [used |-> 0, shown |-> 0, media |-> 0, full |-> FALSE], blocks).shown

\* _v_tables(): the rows of the three largest.
TablesShow(tables, limit) ==
    FoldSeq(LAMBDA t, sum : (IF t.rows < limit THEN t.rows ELSE limit) + sum, 0,
            SubSeq(tables, 1, IF Len(tables) < 3 THEN Len(tables) ELSE 3))

\* _v_csv(): a first row without numbers is the header.
HasHeader(data) == data # <<>> /\ ~Head(data).numeric
CsvShows(data, limit) ==
    LET rows == Len(data) - (IF HasHeader(data) THEN 1 ELSE 0)
    IN IF rows < limit THEN rows ELSE limit

\* Which renderer, by type, path and view.
Route(type, path, view) ==
    IF type = "pdf" \/ path = "pdf" THEN "pdf"
    ELSE IF type \in {"image", "video"} THEN type
    ELSE IF type = "csv" \/ path = "csv" THEN "csv"
    ELSE IF type = "json" /\ view \in {"auto", "json"} THEN "json"
    ELSE IF type = "markdown" \/ path = "md" THEN "markdown"
    ELSE IF type = "plain" /\ path # "html" THEN "plain"
    ELSE "html"

HtmlMode(page, view) ==
    CASE view = "media" -> "media"
      [] view = "table" \/ (view = "auto" /\ TablesIn(page.doc) # <<>>) -> "table"
      [] OTHER -> "text"

\* _v_pdf(): the pages with text of the first eight.
PdfShows(doc) ==
    Len(Kept(SubSeq(doc, 1, IF Len(doc) < 8 THEN Len(doc) ELSE 8), LAMBDA p : p.len > 0))
\* _v_markdown(): the blocks of what it renders to.
MarkdownShows(doc) == ReaderShows(Reader(doc), 3000)
\* _v_plain(): the characters up to its budget.
PlainShows(doc) == IF AllText(doc) < 6000 THEN AllText(doc) ELSE 6000

\* What a file that is not HTML shows: its text, rows or player.
FileMode(route) == IF route \in {"markdown", "plain"} THEN "text" ELSE route
FileShows(page, route, limit) ==
    CASE route = "csv" -> CsvShows(page.data, limit)
      [] route = "markdown" -> MarkdownShows(page.doc)
      [] route = "pdf" -> PdfShows(page.doc)
      [] route = "plain" -> PlainShows(page.doc)
      [] OTHER -> 1

\* What the panel reports: how much is in it, and what the page has beside it.
View(page, view, limit) ==
    LET route == Route(page.type, page.path, view)
        tables == TablesIn(page.doc)
        blocks == Reader(page.doc)
        lead == IF MediaItems(page) = 0 /\ page.hero THEN <<Block("media", 0)>> ELSE <<>>
        html(mode) ==
            [mode |-> mode, tables |-> Len(tables),
             blocks |-> Len(blocks),
             media |-> CASE mode = "media" -> Gallery(page)
                         [] mode = "text" -> MediaItems(page) + Len(lead)
                         [] OTHER -> MediaItems(page),
             shown |-> CASE mode = "media" -> Gallery(page)
                         [] mode = "table" -> TablesShow(tables, limit)
                         [] OTHER -> ReaderShows(lead \o blocks, 2400)]
    IN IF route = "html" THEN html(HtmlMode(page, view))
       ELSE [mode |-> FileMode(route), tables |-> 0, blocks |-> 0, media |-> 0,
             shown |-> FileShows(page, route, limit)]

\* Rows of a file that has a header only cannot be measured: the call raises.
Raises(page, view) ==
    Route(page.type, page.path, view) = "csv" /\ HasHeader(page.data) /\ Len(page.data) = 1

\* The chips under a panel: what each asks for, as the view that answers it.
Chips(v, scripted) ==
    (IF v.mode \in {"table", "csv", "json"} THEN {"chart"} ELSE {})
    \cup (IF v.mode # "table" /\ v.tables > 0 THEN {"table"} ELSE {})
    \cup (IF v.mode # "text" /\ v.blocks > 0 THEN {"text"} ELSE {})
    \cup (IF v.mode # "media" /\ v.media > 0 THEN {"media"} ELSE {})
    \cup (IF v.mode = "text" /\ v.blocks = 0 /\ ~scripted THEN {"render"} ELSE {})

-----------------------------------------------------------------------------
(* chart_data(): the rows it finds; of a file the first is the header *)

Clamp(i, n) == IF i < 0 THEN 0 ELSE IF i > n - 1 THEN n - 1 ELSE i

\* _csv_rows(): whatever the first row holds, it names the columns.
CsvRows(data) == IF Len(data) < 2 THEN 0 ELSE Len(data) - 1
\* _json_rows(): the objects of an array, or the plain fields of a lone one; what else
\* there is makes no row.
JsonRows(data) == Len(SelectSeq(data, LAMBDA entry : entry.row))
\* _table_to_rows(): columns without a header get a name.
TableRows(table) == table.rows

ChartRows(page, index) ==
    LET tables == TablesIn(page.doc)
    IN IF page.type = "csv" \/ page.path = "csv" THEN CsvRows(page.data)
       ELSE IF page.type = "json" THEN JsonRows(page.data)
       ELSE IF tables = <<>> THEN 0
       ELSE TableRows(tables[Clamp(index, Len(tables)) + 1])

-----------------------------------------------------------------------------
NoPage == [mode |-> "none"]
Idle == [at |-> "idle"]
Sites == {Final[u] : u \in Urls \ {Picture}}

Init ==
    /\ now = 0
    /\ web \in [Sites -> Pages]
    /\ cache = <<>>
    /\ calls = [c \in Callers |-> Idle]

At(c, place) == calls[c].at = place
Over(panel) == [at |-> "over", panel |-> panel, shown |-> now]
Waiting(c) == calls[c].at \in {"asked", "answered", "pictures"}

-----------------------------------------------------------------------------
(* _cache_get(), _cache_put() and _get() *)

\* A plausible bug: a response is kept as long as it is asked for.
EverFresh(entry) == TRUE
IsFresh(entry) == now - entry.at < CacheSeconds

Hit(url) == url \in DOMAIN cache /\ IsFresh(cache[url])

\* When it grows over its size the oldest go, a quarter of it.
Put(url, page, served) ==
    LET full == [u \in DOMAIN cache \cup {url} |->
                    IF u = url THEN [at |-> now, page |-> page, served |-> served]
                    ELSE cache[u]]
    IN IF Cardinality(DOMAIN full) <= CacheSize THEN cache' = full
       ELSE \E gone \in SUBSET DOMAIN full :
               /\ Cardinality(gone) = CacheDrop
               /\ \A u \in gone, v \in DOMAIN full \ gone : full[u].at <= full[v].at
               /\ cache' = [u \in DOMAIN full \ gone |-> full[u]]

\* A cached response is returned at once; else it is asked for.
Get(c, call) ==
    calls' = [calls EXCEPT ![c] =
        IF Hit(call.url)
        THEN [at |-> "got", url |-> Final[call.url], view |-> call.view, scripted |-> FALSE,
              page |-> cache[call.url].page, served |-> cache[call.url].served]
        ELSE [at |-> "asked", url |-> call.url, view |-> call.view, since |-> now]]

\* The server answers with what the page is at that moment.
Serve(c) ==
    /\ At(c, "asked")
    /\ calls' = [calls EXCEPT ![c] =
           [at |-> "answered", url |-> @.url, view |-> @.view, since |-> @.since,
            page |-> web[Final[@.url]], served |-> now]]
    /\ UNCHANGED <<now, web, cache>>

Arrive(c) ==
    /\ At(c, "answered")
    /\ Put(calls[c].url, calls[c].page, calls[c].served)
    /\ calls' = [calls EXCEPT ![c] =
           [at |-> "got", url |-> Final[@.url], view |-> @.view, scripted |-> FALSE,
            page |-> @.page, served |-> @.served]]
    /\ UNCHANGED <<now, web>>

-----------------------------------------------------------------------------
(* open_page() and chart_data() *)

\* A refused address, or a video host's in view auto, is over at once and has no step;
\* with render_js the browser is tried first.
Open(c, url, view) ==
    /\ At(c, "idle") /\ view # "chart"
    /\ \/ view = "render" /\ calls' = [calls EXCEPT ![c] = [at |-> "rendering", url |-> url]]
       \/ view # "render" /\ Get(c, [url |-> url, view |-> view])
    /\ UNCHANGED <<now, web, cache>>

OpenChart(c, url) ==
    /\ At(c, "idle") /\ Get(c, [url |-> url, view |-> "chart"])
    /\ UNCHANGED <<now, web, cache>>

\* The browser's page, of type HTML whatever the server says, and of the same
\* path; what is read of a file by its path is then nothing.  That the page was served
\* 1.2 s before, which the browser waits for its scripts, is left out.
Rendered(c) ==
    /\ At(c, "rendering")
    /\ LET page == Script[web[Final[calls[c].url]]]
           emptied == Route("html", page.path, "auto") # "html"
       IN calls' = [calls EXCEPT ![c] =
             [at |-> "got", url |-> @.url, view |-> "auto", scripted |-> TRUE, served |-> now,
              page |-> IF emptied THEN [page EXCEPT !.type = "html", !.doc = <<>>, !.data = <<>>]
                       ELSE [page EXCEPT !.type = "html"]]]
    /\ UNCHANGED <<now, web, cache>>

RenderFails(c) ==
    /\ At(c, "rendering")
    /\ Get(c, [url |-> calls[c].url, view |-> "auto"])
    /\ UNCHANGED <<now, web, cache>>

\* Not answered in time, refused, or too large.
FetchFails(c) ==
    /\ calls[c].at \in {"asked", "answered"}
    /\ calls' = [calls EXCEPT ![c] = Over(NoPage)]
    /\ UNCHANGED <<now, web, cache>>

Panel(call) ==
    LET v == View(call.page, call.view, Limit)
    IN [mode |-> v.mode, shown |-> v.shown, chips |-> Chips(v, call.scripted),
        url |-> call.url, page |-> call.page, served |-> call.served,
        scripted |-> call.scripted]

ChartPanel(call) ==
    [mode |-> "chart", shown |-> ChartRows(call.page, 0), chips |-> {"table"},
     url |-> call.url, page |-> call.page, served |-> call.served, scripted |-> FALSE]

\* Views of a page with media get its first pictures by _get() before they are shown.
WantsPictures(call) ==
    /\ call.view # "chart" /\ Route(call.page.type, call.page.path, call.view) = "html"
    /\ HtmlMode(call.page, call.view) # "table"
    /\ View(call.page, call.view, Limit).media > 0

Show(c) ==
    /\ At(c, "got")
    /\ LET call == calls[c]
       IN calls' = [calls EXCEPT ![c] =
             IF call.view = "chart"
             THEN Over(IF ChartRows(call.page, 0) = 0 THEN NoPage ELSE ChartPanel(call))
             ELSE IF Raises(call.page, call.view) THEN Over(NoPage)
             ELSE IF WantsPictures(call) /\ ~Hit(Picture)
             THEN [at |-> "pictures", since |-> now, panel |-> Panel(call)]
             ELSE Over(Panel(call))]
    /\ UNCHANGED <<now, web, cache>>

\* A picture that does not come is linked instead.
Pictured(c) ==
    /\ At(c, "pictures")
    /\ Put(Picture, NoPage, now) \/ UNCHANGED cache
    /\ calls' = [calls EXCEPT ![c] = Over(@.panel)]
    /\ UNCHANGED <<now, web>>

\* The panel stays on the screen; the caller is free for the next call.
Done(c) ==
    /\ At(c, "over")
    /\ calls' = [calls EXCEPT ![c] = Idle]
    /\ UNCHANGED <<now, web, cache>>

-----------------------------------------------------------------------------
\* Timeout is that of a whole request: an answer that trickles, which httpx would wait for
\* longer, as its limit is that of one connection, read or redirect, is left out.
Tick ==
    /\ now < MaxNow
    /\ \A c \in Callers : calls[c].at \notin {"got", "over"} /\ (Waiting(c) => now - calls[c].since < Timeout)
    /\ now' = now + 1
    /\ UNCHANGED <<web, cache, calls>>

Next ==
    \/ Tick
    \/ \E c \in Callers :
          \/ \E u \in Urls \ {Picture} : (\E view \in Views[c] : Open(c, u, view))
                                        \/ ("chart" \in Views[c] /\ OpenChart(c, u))
          \/ Serve(c) \/ Arrive(c) \/ Rendered(c) \/ RenderFails(c) \/ FetchFails(c)
          \/ Show(c) \/ Pictured(c) \/ Done(c)

Spec == Init /\ [][Next]_vars

-----------------------------------------------------------------------------
(* Properties *)

Shows(c) == At(c, "over") /\ calls[c].panel # NoPage

TypeOK ==
    /\ now \in 0..MaxNow /\ web \in [Sites -> Pages]
    /\ DOMAIN cache \subseteq Urls /\ Cardinality(DOMAIN cache) <= CacheSize
    /\ \A u \in DOMAIN cache : cache[u].at <= now
    /\ \A c \in Callers : calls[c].at \in {"idle", "rendering", "asked", "answered", "got",
                                           "pictures", "over"}

\* _get(): however requests overlap, whatever is answered late and whoever put it
\* into the cache, nothing on its way to the screen was served longer ago than the
\* cache may keep it and two requests may take.
ShownIsRecent ==
    \A c \in Callers : Shows(c) => calls[c].shown - calls[c].panel.served <= CacheSeconds + 2 * Timeout

\* A panel that shows rows a chart can be made of.  "Chart it" is under every panel with
\* rows, and in vain under the table view of a page without tables, a CSV of one row and
\* JSON without objects (data_lens.py:2725-2727, 792, 798-809, 2454-2463).
HasRows(p) ==
    /\ p.mode = "table" => p.shown > 0
    /\ p.mode = "csv" => Len(p.page.data) > 1
    /\ p.mode = "json" => \E i \in DOMAIN p.page.data : p.page.data[i].row

\* The table of a chart is in vain too where the chart is of JSON (2476, 2703-2709).
OfJson(p) == p.mode = "chart" /\ Route(p.page.type, p.page.path, "auto") = "json"

\* open_page(), chart_data(): what a chip under a panel offers of a page that was fetched
\* plainly is there when it is asked for, if the page has not changed by then, but for the
\* chips that are in vain; "Render JS" promises nothing.
OffersHold ==
    \A c \in Callers : Shows(c) /\ ~calls[c].panel.scripted =>
        LET p == calls[c].panel
            answer(view) == View(p.page, view, Limit)
        IN /\ \A view \in p.chips \cap {"table", "text", "media"} :
                 ~OfJson(p) => answer(view).mode \in {view, "csv"} /\ answer(view).shown > 0
           /\ "chart" \in p.chips /\ HasRows(p) => ChartRows(p.page, 0) > 0
=============================================================================
