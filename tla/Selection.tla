------------------------------- MODULE Selection -------------------------------
(***************************************************************************)
(* A list comprehension with a condition, [x for x in s if ...], or the     *)
(* filter() of an array, and a list that is extended again and again: as    *)
(* SelectSeq and FlattenSeq, but written as recursive functions of the      *)
(* places of the list, about which facts can be proved.                     *)
(***************************************************************************)
EXTENDS Integers, Sequences

\* The entries of s that are in T, in their order.
Selected(s, T) ==
    LET upTo[i \in 0..Len(s)] ==
            IF i = 0 THEN <<>>
            ELSE IF s[i] \in T THEN Append(upTo[i - 1], s[i]) ELSE upTo[i - 1]
    IN upTo[Len(s)]

\* The lists of ss one after another, as extend() makes them.
Joined(ss) ==
    LET upTo[i \in 0..Len(ss)] == IF i = 0 THEN <<>> ELSE upTo[i - 1] \o ss[i]
    IN upTo[Len(ss)]
=================================================================================
