----------------------------- MODULE TinyMarkdown -----------------------------
(***************************************************************************)
(* Tools/notebook_lens.py, _tiny_markdown_to_html(): the text of a markdown *)
(* cell, line by line.  A paragraph is kept until something ends it, a list *)
(* stays open until something else than an item of it comes.  A line is     *)
(* what it begins with, its text is its place; HTML is a sequence of tags.  *)
(***************************************************************************)
EXTENDS Selection

CONSTANTS MaxLines \* lines of a text

TinyMarkdownAssumption == MaxLines \in Nat

VARIABLES
    src,    \* the lines
    html,   \* html_parts
    inList, \* in_list: "ul", "ol" or neither
    para,   \* para_buf: the lines of the paragraph that is not written yet
    over    \* how many lines were read; one more once the rest is written

vars == <<src, html, inList, para, over>>

Lists == {"ul", "ol"}
LineKinds == {"blank", "heading", "ul", "ol", "quote", "rule", "text"}
None == "none"
Opens(list) == [tag |-> "open", of |-> list, lines |-> <<>>]
Closes(list) == [tag |-> "close", of |-> list, lines |-> <<>>]
Element(kind, lines) == [tag |-> "element", of |-> kind, lines |-> lines]

FlushPara == IF para = <<>> THEN <<>> ELSE <<Element("p", para)>>
CloseList == IF inList = None THEN <<>> ELSE <<Closes(inList)>>

Init ==
    /\ src \in UNION {[1..n -> LineKinds] : n \in 0..MaxLines}
    /\ html = <<>> /\ inList = None /\ para = <<>> /\ over = 0

\* The line that is read.
Line == src[over + 1]
Reads(kinds) == over < Len(src) /\ Line \in kinds /\ over' = over + 1 /\ UNCHANGED src

\* A blank line ends whatever is open.
Blank ==
    /\ Reads({"blank"})
    /\ html' = html \o FlushPara \o CloseList
    /\ inList' = None /\ para' = <<>>

\* A heading, a quotation or a rule: ends both, and stands alone.
Block ==
    /\ Reads({"heading", "quote", "rule"})
    /\ html' = Append(html \o FlushPara \o CloseList, Element(Line, <<over + 1>>))
    /\ inList' = None /\ para' = <<>>

\* A plausible bug: an item goes into whatever list is open.
AnyList(list) == IF inList # None THEN <<>> ELSE <<Opens(list)>>
\* An item of the other kind closes the list that is open.
Enters(list) == IF inList = list THEN <<>> ELSE Append(CloseList, Opens(list))
Item ==
    /\ Reads(Lists)
    /\ html' = Append(html \o FlushPara \o Enters(Line), Element(Line, <<over + 1>>))
    /\ inList' = Line /\ para' = <<>>

\* Any other line closes the list and is kept for the paragraph.
Plain ==
    /\ Reads({"text"})
    /\ html' = html \o CloseList
    /\ inList' = None /\ para' = Append(para, over + 1)

\* After the last line what is open is written.
Finish ==
    /\ over = Len(src)
    /\ html' = html \o FlushPara \o CloseList
    /\ over' = over + 1 /\ inList' = None /\ para' = <<>>
    /\ UNCHANGED src

Next == Blank \/ Block \/ Item \/ Plain \/ Finish

-----------------------------------------------------------------------------
(* Properties *)

TypeOK ==
    /\ inList \in Lists \cup {None} /\ over \in 0..Len(src) + 1
    /\ \A i \in DOMAIN para : para[i] \in 1..Len(src)

\* The lines that are written, part by part.
WrittenIn(parts) == Joined([k \in DOMAIN parts |-> parts[k].lines])

\* The list that is open before the k-th part, if any.
OpenIn(parts, k) ==
    {parts[i].of : i \in {i \in 1..k - 1 : /\ parts[i].tag = "open"
                                          /\ \A m \in i + 1..k - 1 : parts[m].tag = "element"}}

\* Where a part may stand.
Fits(part, open) ==
    CASE part.tag = "open" -> open = {}
      [] part.tag = "close" -> open = {part.of}
      [] part.tag = "element" -> open = IF part.of \in Lists THEN {part.of} ELSE {}

\* _tiny_markdown_to_html(): whatever follows whatever, the tags nest, an item is in a
\* list of its kind and nothing else is in a list, and in the end every line with text
\* was written once, in its place.
HtmlIsWhole ==
    /\ \A k \in 1..Len(html) : Fits(html[k], OpenIn(html, k))
    /\ over > Len(src) =>
          /\ OpenIn(html, Len(html) + 1) = {}
          /\ LET written == WrittenIn(html)
             IN /\ \A j, k \in 1..Len(written) : j < k => written[j] < written[k]
                /\ {written[k] : k \in 1..Len(written)} = {n \in DOMAIN src : src[n] # "blank"}
===============================================================================
