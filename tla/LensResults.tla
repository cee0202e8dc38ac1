------------------------------ MODULE LensResults ------------------------------
(***************************************************************************)
(* Tools/data_lens.py: the results panel of search_web() and the script in  *)
(* it that filters them.  Python counts the facets once, when the panel is  *)
(* made; the script hides results and counts again at each press.  A result *)
(* is its host, the days since it was published ({} for a date nobody can   *)
(* read), the words that can be typed, and whether it has a thumbnail.      *)
(***************************************************************************)
EXTENDS FiniteSets, Selection

CONSTANTS
    HitLists,    \* what the search engine may answer
    Words,       \* what may be typed into the box
    ResultLimit, \* results in a panel
    MediaLimit,  \* and at least this many pictures or videos
    TopHosts     \* hosts that get a chip

LensResultsAssumption ==
    /\ ResultLimit \in Nat /\ MediaLimit \in Nat /\ TopHosts \in Nat
    /\ \A answer \in HitLists : answer \in Seq({answer[i] : i \in DOMAIN answer})

VARIABLES
    panel,  \* the document: its items, its chips, whether it has a filter bar
    filter, \* state: the text and the facets that are on
    page,   \* what is on the screen: items that are hidden, the count, lit chips
    stage   \* of a carousel: the item on it, its number, the lit thumbnails

vars == <<panel, filter, page, stage>>

None == ""
NoFilter == [q |-> None, host |-> None, bucket |-> None]

\* _bucket(): also of a date that lies ahead.
Bucket(days) ==
    IF days = {} THEN None
    ELSE LET d == CHOOSE n \in days : TRUE
         IN IF d < 1 THEN "Today" ELSE IF d < 7 THEN "This week" ELSE IF d < 31 THEN "This month"
            ELSE IF d < 366 THEN "This year" ELSE "Older"
\* _item_attrs(): what the script is told of a result.
AsItem(h) == [host |-> h.host, bucket |-> Bucket(h.days), words |-> h.words, thumb |-> h.thumb]

First(s, n) == SubSeq(s, 1, IF Len(s) < n THEN Len(s) ELSE n)
LimitFor(category) ==
    IF category \in {"images", "videos"} /\ ResultLimit < MediaLimit THEN MediaLimit
    ELSE ResultLimit

\* _v_result_carousel() takes those with a thumbnail, and falls back to the list.
Pictures(hits) == Selected(hits, {h \in {hits[i] : i \in DOMAIN hits} : h.thumb})
Items(hits, category) ==
    LET shown == First(hits, LimitFor(category))
    IN IF category = "images" /\ Pictures(shown) # <<>> THEN Pictures(shown) ELSE shown

CountOf(hits, type, value) == Cardinality({i \in DOMAIN hits : hits[i][type] = value})
Values(hits, type) == {hits[i][type] : i \in DOMAIN hits} \ {None}

\* _facets(): the hosts with most results, and every bucket that occurs.
Facets(hits) ==
    LET hosts == Values(hits, "host")
        outdone(h) == Cardinality({g \in hosts :
                         CountOf(hits, "host", g) > CountOf(hits, "host", h)}) >= TopHosts
    IN {[type |-> "host", value |-> h, n |-> CountOf(hits, "host", h)] :
            h \in {g \in hosts : ~outdone(g)}}
       \cup {[type |-> "bucket", value |-> b, n |-> CountOf(hits, "bucket", b)] :
                b \in Values(hits, "bucket")}

\* A plausible bug: facets of every result, shown or not.
CountedAll(hits, category) == hits
Counted(hits, category) == First(hits, LimitFor(category))

\* _carousel_html(): its arrows are there when there is something to turn to.
Turns(hits, category) ==
    IF category # "images" \/ Pictures(First(hits, LimitFor(category))) = <<>> THEN "none"
    ELSE IF Len(Items(hits, category)) > 1 THEN "arrows" ELSE "still"

\* The script numbers items from 0.
OnStage(items, i) == [item |-> items[i + 1], number |-> i + 1, lit |-> {i + 1}, at |-> i]

\* _filter_bar(): none for a choice of one, and none over a carousel.
Bar(hits, category) ==
    LET facets == Facets(Counted(hits, category))
        choice(type) == Cardinality({f \in facets : f.type = type}) >= 2
    IN IF category = "images" \/ ~(choice("host") \/ choice("bucket")) THEN {} ELSE facets

\* The engine may fail, and the panel then says so.
Init ==
    /\ \E answer \in HitLists, category \in {"general", "images", "videos"} :
          LET hits == [i \in DOMAIN answer |-> AsItem(answer[i])]
          IN panel = [items |-> Items(hits, category), chips |-> Bar(hits, category),
                      turns |-> Turns(hits, category)]
    /\ filter = NoFilter
    /\ page = [hidden |-> {}, count |-> Len(panel.items), lit |-> {}]
    /\ stage = IF panel.turns = "none" THEN {} ELSE {OnStage(panel.items, 0)}

Matches(item, f) ==
    /\ f.q = None \/ f.q \in item.words
    /\ f.host = None \/ item.host = f.host
    /\ f.bucket = None \/ item.bucket = f.bucket

\* applyFilters()
Apply(f, lit) ==
    LET hidden == {i \in DOMAIN panel.items : ~Matches(panel.items[i], f)}
    IN /\ filter' = f
       /\ page' = [hidden |-> hidden, count |-> Len(panel.items) - Cardinality(hidden),
                   lit |-> lit]
       /\ UNCHANGED <<panel, stage>>

HasBar == panel.chips # {}

Toggled(type, value) == IF filter[type] = value THEN None ELSE value

Press(chip) ==
    LET value == Toggled(chip.type, chip.value)
    IN Apply([filter EXCEPT ![chip.type] = value],
             {c \in page.lit : c.type # chip.type}
             \cup {c \in panel.chips : c.type = chip.type /\ c.value = value})

Type(q) == HasBar /\ Apply([filter EXCEPT !.q = q], page.lit)
Clear == HasBar /\ Apply(NoFilter, {})

\* show(): past either end it goes round.
ShowAt(n) ==
    /\ stage' = {OnStage(panel.items, n % Len(panel.items))}
    /\ UNCHANGED <<panel, filter, page>>

\* The arrows beside the stage; the arrow keys also turn a carousel of one.
Turn(by) == \E s \in stage : ShowAt(s.at + by + Len(panel.items))
Arrow(by) == panel.turns = "arrows" /\ Turn(by)
Thumb(k) == stage # {} /\ ShowAt(k)

Next ==
    \/ \E chip \in panel.chips : Press(chip)
    \/ \E q \in Words : Type(q)
    \/ Clear
    \/ \E by \in {-1, 1} : Turn(by) \/ Arrow(by)
    \/ \E k \in 0..Len(panel.items) - 1 : Thumb(k)

-----------------------------------------------------------------------------
(* Properties *)

TypeOK ==
    /\ filter.q \in Words \cup {None} /\ page.hidden \subseteq DOMAIN panel.items
    /\ page.lit \subseteq panel.chips
    /\ Cardinality(stage) <= 1

\* What a chip says is what it leaves: pressed alone, the count on the screen is the
\* one that Python wrote on it; a chip is lit exactly while its facet is on; and a
\* carousel, which has no filters, holds only results with a picture, all of them in
\* reach of its arrows, the number and the lit thumbnail being those of the stage.
FacetsTellTruly ==
    /\ \A chip \in page.lit :
          filter = [NoFilter EXCEPT ![chip.type] = chip.value] => page.count = chip.n
    /\ page.lit = {c \in panel.chips : filter[c.type] = c.value}
    /\ \A s \in stage :
          /\ s.item = panel.items[s.number] /\ s.lit = {s.number} /\ s.item.thumb
          /\ panel.chips = {} /\ (Len(panel.items) > 1 => panel.turns = "arrows")
===============================================================================
