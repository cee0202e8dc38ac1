------------------------------- MODULE MC_Tools -------------------------------
(* TLC instance of the Open WebUI tools.  *)
EXTENDS Tools

-----------------------------------------------------------------------------
(* Notebooks of up to four cells *)

Text(lines) == [type |-> "markdown", lines |-> lines, outputs |-> <<>>]
Code(lines, outputs) == [type |-> "code", lines |-> lines, outputs |-> outputs]
Stream == [type |-> "stream", mimes |-> {}]
Error == [type |-> "error", mimes |-> {}]
Display(mimes) == [type |-> "display", mimes |-> mimes]
CellKinds ==
    {Text(<<"h1", "text">>), Text(<<"blank", "h2", "rule">>), Text(<<"text", "h1">>), Text(<<"h3">>),
     Code(<<>>, <<>>),
     Code(<<"text">>, <<Stream, Display({"png", "plain"}), Stream>>),
     Code(<<"text">>, <<Display({"widget"}), Error, Display({"html", "plotly"}), Error>>)}
MCNotebooks == UNION {[1..n -> CellKinds] : n \in 0..4}
MCLayouts == {[mode |-> m, markdown |-> md, level |-> level, code |-> code] :
               m \in {"cell", "section"}, md \in BOOLEAN, level \in {0, 1}, code \in {"hidden", "shown"}}

MCWithin == [t \in {"weather", "weather_now"} |-> IF t = "weather" THEN {"weather", "weather_now"} ELSE {t}]

-----------------------------------------------------------------------------
(* Pages of the web *)

El(tag, len) == [tag |-> tag, len |-> len, root |-> TRUE, rows |-> 0, cols |-> 0, good |-> TRUE,
                   apart |-> FALSE]
Table(r, c) == [El("table", 20) EXCEPT !.rows = r, !.cols = c]
Media(good, root) == [El("media", 0) EXCEPT !.good = good, !.root = root]
Html(doc, hero) == [type |-> "html", path |-> "none", doc |-> doc, data |-> <<>>, hero |-> hero]
File(type, path, data, doc) ==
    [type |-> type, path |-> path, doc |-> doc, data |-> data, hero |-> FALSE]
MCPages ==
    {Html(<<>>, TRUE),
     Html(<<El("p", 20), Media(TRUE, FALSE), El("div", 60)>>, FALSE),
     Html(<<El("p", 600), Table(2, 2), Media(FALSE, TRUE), Media(TRUE, TRUE), Table(3, 2),
            Table(1, 3)>>, TRUE),
     Html(<<El("p", 20), [El("p", 20) EXCEPT !.apart = TRUE], El("p", 20)>>, FALSE),
     File("markdown", "md", <<>>, <<El("p", 60)>>),
     File("csv", "csv", <<[numeric |-> FALSE]>>, <<El("raw", 60)>>),
     File("csv", "none", <<[numeric |-> TRUE]>>, <<El("raw", 60)>>),
     File("csv", "none", <<[numeric |-> FALSE], [numeric |-> TRUE]>>, <<El("raw", 60)>>),
     File("pdf", "pdf", <<>>, <<El("raw", 60), El("raw", 0)>>),
     File("json", "none", <<[row |-> FALSE]>>, <<El("raw", 60)>>),
     File("json", "none", <<[row |-> FALSE], [row |-> TRUE]>>, <<El("raw", 60)>>)}
MCFinal == [u \in {"page", "short", "picture"} |-> IF u = "short" THEN "page" ELSE u]
MCScript == [p \in MCPages |-> IF p.doc = <<>> THEN Html(<<El("p", 60)>>, FALSE) ELSE p]
MCViews == <<{"auto", "table", "text", "media", "chart", "render"}, {"chart"}>>

Hit(host, days, thumb) ==
    [host |-> host, days |-> days, words |-> {host, "all"}, thumb |-> thumb]
Hits == {Hit(h, d, t) : h \in {"a", "b"}, d \in {{}, {6}, {7}}, t \in BOOLEAN}
        \cup {Hit("c", {6}, TRUE)}
MCHitLists == UNION {[1..n -> Hits] : n \in 0..3}

Number(n) == [kind |-> "number", n |-> n]
CellValues == {Number(-2), Number(0), Number(3), [kind |-> "date", n |-> 0], [kind |-> "word", n |-> 0]}
MCTables == UNION {[1..n -> [1..2 -> CellValues]] : n \in 0..3}

-----------------------------------------------------------------------------
(* Diagrams *)

MCAsked == {"org-chart", "flowchart", "story-map", "org", "story"}
MCStripped == [a \in MCAsked |-> CASE a = "org-chart" -> "org" [] a = "story-map" -> "story"
                                    [] OTHER -> a]
MCAliases == [org |-> "org-chart"]
MCNear == [a \in MCAsked |-> IF a = "story" THEN {"story-map"} ELSE {}]
MCReferTasks == <<{"reference"}, {"guide"}>>
MCDrawTasks == <<{"render"}, {"render"}>>
===============================================================================
