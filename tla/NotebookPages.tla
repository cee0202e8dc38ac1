----------------------------- MODULE NotebookPages -----------------------------
(***************************************************************************)
(* Tools/notebook_lens.py: the pages run_notebook() makes of a notebook, in *)
(* both layouts, and the carousel that turns them.  A cell is its type, the *)
(* kinds of its lines, and its outputs: what the kernel calls each and the  *)
(* forms it comes in; a page shows some outputs of some cell.               *)
(***************************************************************************)
EXTENDS Selection, SequencesExt

CONSTANTS
    Notebooks,     \* sequences of cells
    Layouts,       \* [mode, markdown, level, code] of the valves
    Threshold      \* a swipe this long turns the page

\* Outputs are what nbformat has: stream, error, and what is displayed or is a result.
Outputs == Seq([type : {"stream", "display", "error"}, mimes : SUBSET STRING])
NotebookPagesAssumption ==
    /\ Threshold \in Nat \ {0}
    /\ Notebooks \subseteq Seq([type : STRING, lines : Seq(STRING), outputs : Outputs])

VARIABLES
    nb, layout, \* what is shown and how
    pages,      \* the pages, once they are made
    idx         \* the page on the screen

vars == <<nb, layout, pages, idx>>

Clip(i, lo, hi) == IF i < lo THEN lo ELSE IF i > hi THEN hi ELSE i
Indices(s) == [k \in DOMAIN s |-> k]

-----------------------------------------------------------------------------
(* Lines of a cell *)

Level == [h1 |-> 1, h2 |-> 2, h3 |-> 3]
IsHeading(line) == line \in DOMAIN Level
HasText(lines) == \E n \in DOMAIN lines : lines[n] # "blank"

\* _leading_heading(): only a heading before everything else counts.
Begins(lines) == CHOOSE n \in DOMAIN lines :
                    lines[n] # "blank" /\ \A m \in 1..n - 1 : lines[m] = "blank"
LeadingLevel(lines) ==
    IF HasText(lines) /\ IsHeading(lines[Begins(lines)]) THEN Level[lines[Begins(lines)]] ELSE 0
Body(lines) == SubSeq(lines, Begins(lines) + 1, Len(lines))

\* _heading_text(), has_body: in the layout by cells any heading counts.
HasHeading(lines) == \E n \in DOMAIN lines : IsHeading(lines[n])
HasBody(lines) == \E n \in DOMAIN lines : lines[n] \notin {"blank", "rule"} /\ ~IsHeading(lines[n])

-----------------------------------------------------------------------------
(* cell_to_pages() *)

\* _best_rich_mime(): {} when there is no form that can be shown.
Priority == <<"svg", "png", "jpeg", "gif", "mp4", "webm", "ogg", "html", "plotly", "plain">>
BestMime(mimes) ==
    LET known == {n \in DOMAIN Priority : Priority[n] \in mimes}
    IN {Priority[n] : n \in {n \in known : \A m \in known : n <= m}}

Of(cell, kind) ==
    Selected(Indices(cell.outputs), {k \in DOMAIN cell.outputs : cell.outputs[k].type = kind})
Shown(cell) ==
    Selected(Of(cell, "display"), {k \in DOMAIN cell.outputs : BestMime(cell.outputs[k].mimes) # {}})
Page(type, i, outs) == [type |-> type, cell |-> i, outs |-> outs]

\* The streams of a cell on one page, a page for each display that can be shown, and
\* one for its last error.
OutputPages(cell, i) ==
    LET streams == Of(cell, "stream")
        rich == Shown(cell)
        errors == Of(cell, "error")
    IN (IF streams = <<>> THEN <<>> ELSE <<Page("stream", i, streams)>>)
       \o [k \in DOMAIN rich |->
             Page(CHOOSE m \in BestMime(cell.outputs[rich[k]].mimes) : TRUE, i, <<rich[k]>>)]
       \o (IF errors = <<>> THEN <<>> ELSE <<Page("error", i, <<Last(errors)>>)>>)

CellPages(cell, i) ==
    CASE cell.type = "code" -> OutputPages(cell, i)
      [] cell.type = "markdown" /\ layout.markdown
            /\ (HasBody(cell.lines) \/ ~HasHeading(cell.lines)) ->
             <<Page("markdown", i, <<>>)>>
      [] OTHER -> <<>>

\* notebook_to_pages()
PerCell == Joined([i \in DOMAIN nb |-> CellPages(nb[i], i)])

-----------------------------------------------------------------------------
(* notebook_to_sections() *)

\* Before any heading cell_index is the first code cell, which nothing reads: 0 here.
NewPage(i, level, parent) == [type |-> "section", cell |-> i, level |-> level,
                              parent |-> parent, blocks |-> <<>>]
Flushed(acc) == IF acc.page.blocks = <<>> THEN acc.made ELSE Append(acc.made, acc.page)
With(acc, blocks) == [acc EXCEPT !.page.blocks = @ \o blocks]

\* A plausible bug: headings of the same level stay on the stack.
DeeperOnly(stack, level) == Selected(stack, {h \in DOMAIN nb : LeadingLevel(nb[h].lines) <= level})
\* The headings a new one of this level is inside of.
Enclosing(stack, level) == Selected(stack, {h \in DOMAIN nb : LeadingLevel(nb[h].lines) < level})

\* A level of 0 is none given: 2 is meant.
SectionLevel == Clip(IF layout.level = 0 THEN 2 ELSE layout.level, 1, 6)
StartsSection(cell) == LeadingLevel(cell.lines) \in 1..SectionLevel

Heading(acc, cell, i) ==
    LET level == LeadingLevel(cell.lines)
        above == Enclosing(acc.stack, level)
        page == NewPage(i, level, IF above = <<>> THEN 0 ELSE Last(above))
    IN [made |-> Flushed(acc), stack |-> Append(above, i),
        page |-> IF layout.markdown /\ HasText(Body(cell.lines))
                 THEN [page EXCEPT !.blocks = <<Page("md", i, <<>>)>>] ELSE page]

Code(acc, cell, i) ==
    LET source == IF layout.code # "hidden" /\ HasText(cell.lines) THEN <<Page("codesrc", i, <<>>)>>
                  ELSE <<>>
    IN With(acc, source \o OutputPages(cell, i))

AddCell(acc, i) ==
    LET cell == nb[i]
    IN IF cell.type = "code" THEN Code(acc, cell, i)
       ELSE IF cell.type = "markdown" /\ StartsSection(cell) THEN Heading(acc, cell, i)
       ELSE IF cell.type = "markdown" /\ layout.markdown /\ HasText(cell.lines)
       THEN With(acc, <<Page("md", i, <<>>)>>)
       ELSE acc

\* A plausible bug: the last section is not flushed.
AllButLast(acc) == acc.made
Sections(acc) == Flushed(acc)
PerSection ==
    LET upTo[i \in 0..Len(nb)] ==
            IF i = 0 THEN [made |-> <<>>, page |-> NewPage(0, 0, 0), stack |-> <<>>]
            ELSE AddCell(upTo[i - 1], i)
    IN Sections(upTo[Len(nb)])

-----------------------------------------------------------------------------
Init == nb \in Notebooks /\ layout \in Layouts /\ pages = <<>> /\ idx = 0

\* A notebook without any output still has a page that says so.
Make ==
    /\ pages = <<>>
    /\ LET made == IF layout.mode = "cell" THEN PerCell ELSE PerSection
       IN pages' = IF made = <<>> THEN <<Page("text", 0, <<>>)>> ELSE made
    /\ idx' = 1
    /\ UNCHANGED <<nb, layout>>

\* goTo(), by the buttons, the arrow keys and the menu of sections.
GoTo(i) == pages # <<>> /\ idx' = Clip(i, 1, Len(pages)) /\ UNCHANGED <<nb, layout, pages>>

\* The menu of sections. In cell mode the menu lists every page instead; those are the
\* pages the buttons reach, and its entries are left out.
MenuPages == {i \in DOMAIN pages : pages[i].type = "section"}

\* endDrag(): a swipe to the left is the next page.
Swipe(dx) ==
    /\ pages # <<>>
    /\ idx' = CASE dx <= -Threshold -> Clip(idx + 1, 1, Len(pages))
                [] dx >= Threshold -> Clip(idx - 1, 1, Len(pages))
                [] OTHER -> idx
    /\ UNCHANGED <<nb, layout, pages>>

Next ==
    \/ Make \/ GoTo(idx - 1) \/ GoTo(idx + 1)
    \/ \E i \in MenuPages : GoTo(i)
    \/ \E dx \in {-Threshold, 0, Threshold} : Swipe(dx)

-----------------------------------------------------------------------------
(* Properties *)

TypeOK == nb \in Notebooks /\ layout \in Layouts /\ idx \in 0..Len(pages)

\* _flat_outputs()
Blocks(p) == IF p.type = "section" THEN p.blocks ELSE <<p>>
Flat == Joined([j \in DOMAIN pages |-> Blocks(pages[j])])
\* Where an output of a cell is shown.
Places(flat, i, k) == {j \in DOMAIN flat : flat[j].cell = i /\ k \in Range(flat[j].outs)}

\* What the pages owe: each output that can be shown, of an error the last.
Owed(i) == {k \in DOMAIN nb[i].outputs :
              LET out == nb[i].outputs[k]
              IN /\ nb[i].type = "code"
                 /\ out.type = "display" => out.mimes \cap Range(Priority) # {}
                 /\ out.type = "error" =>
                       \A m \in k + 1..Len(nb[i].outputs) : nb[i].outputs[m].type # "error"}

\* notebook_to_pages(), notebook_to_sections(): whatever the layout, however headings
\* are nested and wherever sections end, every output is on exactly one page, the cells
\* in their order.
EveryOutputOnce == pages # <<>> =>
    LET flat == Flat
    IN /\ \A i \in DOMAIN nb : \A k \in Owed(i) : \E j \in DOMAIN flat : Places(flat, i, k) = {j}
       /\ \A j, m \in DOMAIN flat : j < m => flat[j].cell <= flat[m].cell

\* The pill over a section names the nearest heading before it of a higher level.
ParentEncloses ==
    \A p \in Range(pages) : p.type = "section" /\ p.cell > 0 /\ p.level > 0 =>
        LET above == {h \in 1..p.cell - 1 : nb[h].type = "markdown" /\ StartsSection(nb[h])
                                             /\ LeadingLevel(nb[h].lines) < p.level}
        IN p.parent = IF above = {} THEN 0 ELSE CHOOSE h \in above : \A g \in above : g <= h
===============================================================================
