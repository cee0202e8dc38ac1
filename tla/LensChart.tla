------------------------------- MODULE LensChart -------------------------------
(***************************************************************************)
(* Tools/data_lens.py: how chart_data() turns rows into a chart when it     *)
(* picks the columns itself, and what is drawn.  A row is a function from   *)
(* columns, in order, to cells; a cell is a number, a date or other text.    *)
(***************************************************************************)
EXTENDS Integers, Sequences, FiniteSets, SequencesExt, FiniteSetsExt

CONSTANTS
    Tables,  \* rows to chart
    Labels,  \* columns a caller may name for the labels
    Height,  \* of the drawing
    Points   \* points asked for

LensChartAssumption == Height \in Nat \ {0} /\ Points \in Nat

VARIABLE chart \* the rows and the request, then what was drawn

IsNum(cell) == cell.kind = "number"
IsDate(cell) == cell.kind = "date"
\* _num() or 0.0: a cell without a number is drawn as zero.
Num(cell) == IF IsNum(cell) THEN cell.n ELSE 0

First(s, n) == SubSeq(s, 1, IF Len(s) < n THEN Len(s) ELSE n)
Least(a, b) == IF a < b THEN a ELSE b
Most(a, b) == IF a > b THEN a ELSE b

Columns(rows) == IF rows = <<>> THEN <<>> ELSE [i \in DOMAIN Head(rows) |-> i]
Numbers(rows, c) == Len(SelectSeq(First(rows, 30), LAMBDA r : IsNum(r[c])))

\* A plausible bug: one number makes a column numeric.
AnyNumber(rows, c) == Numbers(rows, c) >= 1
IsNumeric(rows, c) ==
    LET asked == Len(First(rows, 30))
    IN Numbers(rows, c) >= Most(2, (asked * 6) \div 10)

NumericColumns(rows) == SelectSeq(Columns(rows), LAMBDA c : IsNumeric(rows, c))

\* The column that was asked for, else the first that is not numeric, else the first.
LabelColumn(rows, asked) ==
    LET words == SelectSeq(Columns(rows), LAMBDA c : ~IsNumeric(rows, c))
    IN IF asked \in DOMAIN Columns(rows) THEN asked ELSE IF words # <<>> THEN Head(words) ELSE 1

\* Four columns at most, one for a pie; the labels only when there is no other.
Picked(rows, label, kind) ==
    LET numeric == NumericColumns(rows)
        others == SelectSeq(numeric, LAMBDA c : c # label)
    IN First(IF others = <<>> THEN numeric ELSE others, IF kind = "pie" THEN 1 ELSE 4)

Series(rows, cols) == [c \in Range(cols) |-> [i \in DOMAIN First(rows, Points) |-> Num(rows[i][c])]]

\* Three labels at least, six of ten of them dates.
IsTemporal(rows, label) ==
    LET shown == First(rows, Points)
        dates == Len(SelectSeq(shown, LAMBDA r : IsDate(r[label])))
    IN Len(shown) >= 3 /\ dates * 10 >= Len(shown) * 6

\* auto is never a pie.
Kind(rows, label, asked) ==
    IF asked = "auto" THEN IF IsTemporal(rows, label) THEN "line" ELSE "bar" ELSE asked

-----------------------------------------------------------------------------
(* Drawing, in whole units *)

Plotted(series) == UNION {Range(series[c]) : c \in DOMAIN series} \cup {0}
Highest(series) == Max(Plotted(series))
Lowest(series) == Min(Plotted(series))
Span(series) == Most(Highest(series) - Lowest(series), 1)

\* y_of(): bars start at the lowest value or at zero and are one unit high at least,
\* points of a line are at their height.
HeightOf(series, v) == ((v - Lowest(series)) * Height) \div Span(series)
BarHeight(series, v) == Most(HeightOf(series, v), 1)

\* _svg_pie(): no slice for what is not positive.
Slices(values) == {i \in DOMAIN values : values[i] > 0}
Total(values) == FoldSeq(LAMBDA v, sum : Most(v, 0) + sum, 0, values)

\* Bars that lie down, which more than ten labels of one series get, stand here, and
\* columns that the call names are left out.
Drawn(series, cols, kind) ==
    CASE kind = "pie" ->
            LET values == series[Head(cols)] IN [i \in Slices(values) |-> values[i]]
      [] kind = "line" -> [c \in DOMAIN series |->
                              [i \in DOMAIN series[c] |-> HeightOf(series, series[c][i])]]
      [] OTHER -> [c \in DOMAIN series |->
                      [i \in DOMAIN series[c] |-> BarHeight(series, series[c][i])]]

Init ==
    \E rows \in Tables, asked \in {"auto", "pie", "bar", "line"}, label \in Labels :
        chart = [at |-> "rows", rows |-> rows, asked |-> asked, wanted |-> label]

\* _build_chart(); without a numeric column it says which columns it saw.
Build ==
    /\ chart.at = "rows"
    /\ IF NumericColumns(chart.rows) = <<>> THEN chart' = [chart EXCEPT !.at = "empty"]
       ELSE LET label == LabelColumn(chart.rows, chart.wanted)
                kind == Kind(chart.rows, label, chart.asked)
                cols == Picked(chart.rows, label, chart.asked)
                series == Series(chart.rows, cols)
            IN chart' = [at |-> "drawn", rows |-> chart.rows, asked |-> chart.asked,
                         kind |-> kind, label |-> label, cols |-> cols, series |-> series,
                         marks |-> Drawn(series, cols, kind)]
Next == Build
-----------------------------------------------------------------------------
(* Properties *)

IsDrawn == chart.at = "drawn"

\* _build_chart(): a chart tells the order of its values, whichever are negative or
\* missing: no mark is higher than that of a larger value, a pie's slices are the whole
\* of what they add up to, and a column that is plotted is mostly numbers.
ChartsTellTheOrder == IsDrawn =>
    /\ \A c \in DOMAIN chart.series : Numbers(chart.rows, c) >= 2
    /\ IF chart.kind = "pie"
       THEN LET values == chart.series[Head(chart.cols)]
            IN FoldSet(LAMBDA i, sum : chart.marks[i] + sum, 0, DOMAIN chart.marks) = Total(values)
       ELSE \A c, d \in DOMAIN chart.series : \A i \in DOMAIN chart.series[c],
               j \in DOMAIN chart.series[d] :
               chart.series[c][i] <= chart.series[d][j] =>
                  chart.marks[c][i] <= chart.marks[d][j]
===============================================================================
