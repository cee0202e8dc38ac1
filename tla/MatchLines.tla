------------------------------- MODULE MatchLines -------------------------------
(***************************************************************************)
(* avatar/music/music.py: match_lines(), which finds out how far each line  *)
(* of the lyrics is from where it is sung.  A line has candidates, places   *)
(* in what was heard with a score each; times are in whole steps.  What     *)
(* spots() makes of the words is the input.                                 *)
(***************************************************************************)
EXTENDS Integers, Sequences, FiniteSets, FiniteSetsExt, SequencesExt

CONSTANTS
    Times,     \* of the lines
    Spots,     \* what spots() may find: a line's candidates, [at, score]
    Jitter, SlipCost, Small, \* JITTER, SLIP_COST, half a second
    Enough,    \* lines that must be found
    Reach      \* lines that may lie between two that are found

MatchLinesAssumption ==
    Jitter \in Nat \ {0} /\ SlipCost \in Nat /\ Enough \in Nat \ {0} /\ Reach \in Nat \ {0}

VARIABLES cands, slips \* the candidates of every line; its slip, once they are matched
vars == <<cands, slips>>

Lines == DOMAIN Times
NoSlips == <<>>
Init == cands \in [Lines -> Spots] /\ slips = NoSlips

\* A node is a line and one of its candidates.
Nodes == {<<i, c>> : i \in Lines, c \in UNION Spots}
Real == {n \in Nodes : n[2] \in cands[n[1]]}
Off(n) == n[2].at - Times[n[1]]
Apart(x, y) == IF x < y THEN y - x ELSE x - y

\* A plausible bug: times need not rise.
Anywhere(m, n) == m[1] < n[1] /\ n[1] - m[1] <= Reach
Before(m, n) == m[1] < n[1] /\ n[1] - m[1] <= Reach /\ m[2].at < n[2].at
Cost(m, n) == IF Apart(Off(m), Off(n)) < Jitter THEN 0 ELSE SlipCost

\* The best run of lines that ends with a node, from those of the lines before it.
Best ==
    LET best[n \in Real] ==
            Max({n[2].score} \cup {best[m] + n[2].score - Cost(m, n) : m \in {k \in Real : Before(k, n)}})
    IN best

\* Walking back from the best node; a run starts where nothing before it makes it better.
Path(best) ==
    LET walk[n \in Real] ==
            LET froms == {m \in Real : Before(m, n)
                             /\ best[m] - Cost(m, n) > 0 /\ best[n] = best[m] + n[2].score - Cost(m, n)}
            IN IF froms = {} THEN <<n>> ELSE Append(walk[CHOOSE m \in froms : TRUE], n)
    IN walk[CHOOSE n \in Real : \A m \in Real : best[m] <= best[n]]

\* Stretches of lines that agree, each with the middle of its offsets.
Median(offs) == SortSeq(offs, <)[(Len(offs) \div 2) + 1]
AddTo(runs, n) ==
    IF runs # <<>> /\ Apart(Off(n), Last(runs).at) < Jitter
    THEN LET offs == Append(Last(runs).offs, Off(n))
         IN [runs EXCEPT ![Len(runs)] = [first |-> @.first, offs |-> offs, at |-> Median(offs)]]
    ELSE Append(runs, [first |-> n[1], offs |-> <<Off(n)>>, at |-> Off(n)])
Runs(path) ==
    LET runs == FoldLeft(AddTo, <<>>, path)
        firm == SelectSeq(runs, LAMBDA r : Len(r.offs) >= 2)
    IN IF firm = <<>> THEN runs ELSE firm

\* The last run that begins no later than the line; the first for lines before it.
RunOf(runs, i) ==
    LET begun == {k \in DOMAIN runs : runs[k].first <= i} IN IF begun = {} THEN 1 ELSE Max(begun)
Slip(at) == IF Apart(at, 0) < Small THEN 0 ELSE at

Match ==
    /\ slips = NoSlips
    /\ Real # {}
    /\ LET path == Path(Best)
           runs == Runs(path)
       IN /\ Len(path) >= Enough
          /\ slips' = [i \in Lines |-> Slip(runs[RunOf(runs, i)].at)]
    /\ UNCHANGED cands
Next == Match

-----------------------------------------------------------------------------
(* Properties *)

\* Runs of lines in order, in whole: every choice of candidates.
Chains == {ch \in SUBSET Real : ch # {} /\ \A m, n \in ch : m # n => Before(m, n) \/ Before(n, m)}
Worth(ch) ==
    LET ends(n) == {m \in ch : m[1] < n[1]}
        from(n) == CHOOSE m \in ends(n) : \A k \in ends(n) : k[1] <= m[1]
    IN FoldSet(LAMBDA n, sum : sum + n[2].score - (IF ends(n) = {} THEN 0 ELSE Cost(from(n), n)), 0, ch)

\* match_lines(): what is found is worth as much as any run of lines whose times rise,
\* and a single stray line moves none when two that follow each other agree.
MatchIsBest ==
    slips # NoSlips =>
        LET path == Path(Best)
            agree == \E k \in 1..Len(path) - 1 : Apart(Off(path[k]), Off(path[k + 1])) < Jitter
        IN /\ \A k \in 1..Len(path) - 1 : path[k][2].at < path[k + 1][2].at
           /\ Max({Worth(ch) : ch \in Chains}) = Best[Last(path)]
           /\ agree => \A i \in Lines : Cardinality({n \in Range(path) :
                          Apart(Slip(Off(n)), slips[i]) < Jitter \/ Apart(Off(n), slips[i]) < Jitter}) >= 2
=================================================================================
