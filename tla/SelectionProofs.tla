---------------------------- MODULE SelectionProofs ----------------------------
(***************************************************************************)
(* Facts that the proofs of several components need: induction over the     *)
(* naturals as a fact about sets, and what Selected() returns.              *)
(***************************************************************************)
EXTENDS Selection, FiniteSets, SequenceTheorems, FiniteSetTheorems, WellFoundedInduction, TLAPS

-----------------------------------------------------------------------------
(* Induction, without a predicate as a parameter *)

\* A set of naturals that is not empty has a least element: the intervals 0..n
\* below its members are finite sets, and strict inclusion of those is well-founded.
LEMMA NaturalsHaveALeast ==
    ASSUME NEW S \in SUBSET Nat, S # {}
    PROVE  \E x \in S : \A y \in S : x <= y
<1> DEFINE R == StrictSubsetOrdering(Nat)
           T == {0..n : n \in S}
<1>1. IsWellFoundedOn(R, FiniteSubsetsOf(Nat))
  BY FS_StrictSubsetOrderingWellFounded
<1>2. T \subseteq FiniteSubsetsOf(Nat) /\ T # {}
  <2>1. \A n \in S : IsFiniteSet(0..n) /\ 0..n \in SUBSET Nat
    BY FS_Interval
  <2> QED
    BY <2>1 DEF FiniteSubsetsOf
<1> HIDE DEF R
<1>3. \E U \in T : \A V \in T : ~(<<V, U>> \in R)
  <2> HIDE DEF T
  <2> QED
    BY <1>1, <1>2, WFMin
<1>4. PICK x \in S : \A V \in T : ~(<<V, 0..x>> \in R)
  BY <1>3
<1>5. ASSUME NEW y \in S, y < x
      PROVE  FALSE
  <2>1. 0..y \in SUBSET Nat /\ 0..x \in SUBSET Nat /\ 0..y \subseteq 0..x
    BY <1>5
  <2>2. x \in 0..x /\ x \notin 0..y
    BY <1>5
  <2>3. <<0..y, 0..x>> \in R
    BY <2>1, <2>2, Zenon DEF R, StrictSubsetOrdering
  <2> QED
    BY <1>4, <2>3
<1> QED
  BY <1>5

\* A set with 0 that has n + 1 with every n holds every natural.
LEMMA FromZeroOn ==
    ASSUME NEW S, 0 \in S, \A n \in Nat : n \in S => n + 1 \in S
    PROVE  \A n \in Nat : n \in S
<1>1. SUFFICES ASSUME NEW n \in Nat, n \notin S PROVE FALSE
  OBVIOUS
<1>2. PICK x \in Nat \ S : \A y \in Nat \ S : x <= y
  <2>1. Nat \ S \in SUBSET Nat /\ Nat \ S # {}
    BY <1>1
  <2> QED
    BY <2>1, NaturalsHaveALeast
<1>3. x # 0 /\ x - 1 \in Nat /\ x - 1 \in S
  BY <1>2
<1>4. x - 1 + 1 \in S
  BY <1>3
<1> QED
  BY <1>2, <1>4

\* f goes from b over N steps, in A.
Recurs(f, A, b, N, step) ==
    f \in [0..N -> A] /\ f[0] = b /\ \A k \in 1..N : f[k] = step[<<f[k - 1], k>>]

\* A function by recursion over 0..N whose values stay in a set.
LEMMA Recursion ==
    ASSUME NEW A, NEW b \in A, NEW N \in Nat, NEW step \in [A \X (1..N) -> A]
    PROVE  \E f : Recurs(f, A, b, N, step)
<1> DEFINE Built(n, f) == f[0] = b /\ \A k \in 1..n : f[k] = step[<<f[k - 1], k>>]
           S == {n \in Nat : n <= N => \E f \in [0..n -> A] : Built(n, f)}
<1>1. 0 \in S
  <2>1. [k \in 0..0 |-> b] \in [0..0 -> A] /\ Built(0, [k \in 0..0 |-> b])
    OBVIOUS
  <2> QED
    BY <2>1
<1>2. ASSUME NEW n \in Nat, n \in S
      PROVE  n + 1 \in S
  <2> SUFFICES ASSUME n + 1 <= N PROVE \E f \in [0..n + 1 -> A] : Built(n + 1, f)
    OBVIOUS
  <2>1. PICK f \in [0..n -> A] : Built(n, f)
    BY <1>2
  <2>2. PICK last \in A : last = step[<<f[n], n + 1>>]
    <3>1. <<f[n], n + 1>> \in A \X (1..N)
      BY <1>2
    <3> QED
      BY <3>1
  <2> DEFINE h == [k \in 0..n + 1 |-> IF k = n + 1 THEN last ELSE f[k]]
  <2>3. /\ h \in [0..n + 1 -> A] /\ h[n + 1] = last
        /\ \A k \in 0..n : h[k] = f[k]
    BY <1>2
  <2> HIDE DEF h
  <2>4. h[0] = b
    BY <1>2, <2>1, <2>3
  <2>5. ASSUME NEW k \in 1..n + 1 PROVE h[k] = step[<<h[k - 1], k>>]
    <3>1. k - 1 \in 0..n
      BY <1>2
    <3>2. CASE k = n + 1
      <4>1. k - 1 = n /\ h[k] = last /\ h[k - 1] = f[n]
        BY <1>2, <2>3, <3>1, <3>2
      <4> QED
        BY <2>2, <3>2, <4>1
    <3>3. CASE k # n + 1
      <4>1. k \in 1..n /\ k \in 0..n
        BY <1>2, <3>3
      <4> QED
        BY <2>1, <2>3, <3>1, <4>1
    <3> QED
      BY <3>2, <3>3
  <2> QED
    BY <2>3, <2>4, <2>5
<1> HIDE DEF S
<1>3. N \in S
  BY <1>1, <1>2, FromZeroOn
<1> QED
  BY <1>3 DEF S, Recurs

-----------------------------------------------------------------------------
(* Selected() *)

\* r holds the entries of s that are in T, up to place n, in their order; g says
\* where each of them stood.
Selects(s, T, n, r, g) ==
    /\ Len(r) <= n
    /\ g \in [1..Len(r) -> 1..n]
    /\ \A j, k \in 1..Len(r) : j < k => g[j] < g[k]
    /\ \A k \in 1..Len(r) : r[k] = s[g[k]] /\ r[k] \in T
    /\ \A i \in 1..n : s[i] \in T => \E k \in 1..Len(r) : g[k] = i

\* One more entry, which is in T.
LEMMA OneMoreSelected ==
    ASSUME NEW A, NEW s \in Seq(A), NEW T, NEW n \in Nat, n + 1 <= Len(s), s[n + 1] \in T,
           NEW r \in Seq(A), NEW g, Selects(s, T, n, r, g)
    PROVE  /\ Append(r, s[n + 1]) \in Seq(A)
           /\ \E h : Selects(s, T, n + 1, Append(r, s[n + 1]), h)
<1> DEFINE m == Len(r)
           h == [k \in 1..m + 1 |-> IF k = m + 1 THEN n + 1 ELSE g[k]]
           q == Append(r, s[n + 1])
<1>1. s[n + 1] \in A /\ m \in Nat
  BY ElementOfSeq
<1>2. /\ q \in Seq(A) /\ Len(q) = m + 1
      /\ \A k \in 1..m : q[k] = r[k]
      /\ q[m + 1] = s[n + 1]
  BY <1>1, AppendProperties
<1>3. /\ g \in [1..m -> 1..n] /\ m <= n
      /\ \A j, k \in 1..m : j < k => g[j] < g[k]
      /\ \A k \in 1..m : r[k] = s[g[k]] /\ r[k] \in T
      /\ \A i \in 1..n : s[i] \in T => \E k \in 1..m : g[k] = i
  BY DEF Selects
<1> HIDE DEF q, m
<1>4. h \in [1..m + 1 -> 1..n + 1] /\ \A k \in 1..m : h[k] = g[k] /\ h[k] <= n
  BY <1>1, <1>3
<1>5. h[m + 1] = n + 1
  BY <1>1
<1>6. \A j, k \in 1..m + 1 : j < k => h[j] < h[k]
  BY <1>1, <1>3, <1>4, <1>5
<1>7. \A k \in 1..m + 1 : q[k] = s[h[k]] /\ q[k] \in T
  <2>1. \A k \in 1..m : q[k] = s[h[k]] /\ q[k] \in T
    BY <1>2, <1>3, <1>4
  <2>2. \A k \in 1..m + 1 : k # m + 1 => k \in 1..m
    BY <1>1
  <2> HIDE DEF h
  <2> QED
    BY <2>1, <2>2, <1>2, <1>5
<1>8. \A i \in 1..n + 1 : s[i] \in T => \E k \in 1..m + 1 : h[k] = i
  <2> SUFFICES ASSUME NEW i \in 1..n + 1, s[i] \in T PROVE \E k \in 1..m + 1 : h[k] = i
    OBVIOUS
  <2>1. CASE i = n + 1
    BY <2>1, <1>1, <1>5
  <2>2. CASE i # n + 1
    BY <2>2, <1>1, <1>3, <1>4
  <2> QED
    BY <2>1, <2>2
<1> HIDE DEF h
<1>9. Len(q) <= n + 1 /\ 1..Len(q) = 1..m + 1
  BY <1>1, <1>2, <1>3
<1>10. Selects(s, T, n + 1, q, h)
  BY <1>4, <1>6, <1>7, <1>8, <1>9 DEF Selects
<1> QED
  BY <1>2, <1>10 DEF q

\* An entry that is not in T changes nothing.
LEMMA OneMoreLeft ==
    ASSUME NEW A, NEW s \in Seq(A), NEW T, NEW n \in Nat, n + 1 <= Len(s), s[n + 1] \notin T,
           NEW r \in Seq(A), NEW g, Selects(s, T, n, r, g)
    PROVE  Selects(s, T, n + 1, r, g)
<1>1. PICK m \in Nat : m = Len(r)
  OBVIOUS
<1>2. /\ m <= n /\ g \in [1..m -> 1..n]
      /\ \A j, k \in 1..m : j < k => g[j] < g[k]
      /\ \A k \in 1..m : r[k] = s[g[k]] /\ r[k] \in T
      /\ \A i \in 1..n : s[i] \in T => \E k \in 1..m : g[k] = i
  BY <1>1 DEF Selects
<1>3. m <= n + 1 /\ g \in [1..m -> 1..n + 1]
  BY <1>2
<1>4. \A i \in 1..n + 1 : s[i] \in T => \E k \in 1..m : g[k] = i
  <2> SUFFICES ASSUME NEW i \in 1..n + 1, s[i] \in T PROVE \E k \in 1..m : g[k] = i
    OBVIOUS
  <2>1. i \in 1..n
    OBVIOUS
  <2> QED
    BY <2>1, <1>2
<1> QED
  BY <1>1, <1>2, <1>3, <1>4 DEF Selects

\* How Selected() is computed.
Computes(f, s, T) ==
    f = [i \in 0..Len(s) |->
            IF i = 0 THEN <<>> ELSE IF s[i] \in T THEN Append(f[i - 1], s[i]) ELSE f[i - 1]]

\* There is such a function: it can be built up to each place.
LEMMA SelectionIsComputed ==
    ASSUME NEW A, NEW s \in Seq(A), NEW T
    PROVE  \E f : Computes(f, s, T)
<1> DEFINE Built(n, f) ==
               f = [i \in 0..n |-> IF i = 0 THEN <<>>
                                   ELSE IF s[i] \in T THEN Append(f[i - 1], s[i]) ELSE f[i - 1]]
           S == {n \in Nat : \E f : Built(n, f)}
<1>1. 0 \in S
  <2>1. Built(0, [i \in 0..0 |-> <<>>])
    BY SMT
  <2> QED
    BY <2>1
<1>2. ASSUME NEW n \in Nat, n \in S
      PROVE  n + 1 \in S
  <2>1. PICK f : Built(n, f)
    BY <1>2
  <2> DEFINE e == IF s[n + 1] \in T THEN Append(f[n], s[n + 1]) ELSE f[n]
             h == [i \in 0..n + 1 |-> IF i = n + 1 THEN e ELSE f[i]]
  <2>2. \A i \in 0..n : h[i] = f[i]
    BY <1>2
  <2>3. \A i \in 0..n : h[i] = IF i = 0 THEN <<>>
                               ELSE IF s[i] \in T THEN Append(h[i - 1], s[i]) ELSE h[i - 1]
    <3>1. \A i \in 0..n : f[i] = IF i = 0 THEN <<>>
                               ELSE IF s[i] \in T THEN Append(f[i - 1], s[i]) ELSE f[i - 1]
      BY <2>1
    <3> HIDE DEF h
    <3>2. \A i \in 0..n : i # 0 => i - 1 \in 0..n
      BY <1>2
    <3> QED
      BY <2>2, <3>1, <3>2
  <2>4. h[n + 1] = IF s[n + 1] \in T THEN Append(h[n], s[n + 1]) ELSE h[n]
    BY <2>2, <1>2
  <2>5. \A i \in 0..n + 1 : i # n + 1 => i \in 0..n
    BY <1>2
  <2>6. h = [i \in 0..n + 1 |-> h[i]]
    OBVIOUS
  <2> HIDE DEF h
  <2>7. \A i \in 0..n + 1 : h[i] = IF i = 0 THEN <<>>
                               ELSE IF s[i] \in T THEN Append(h[i - 1], s[i]) ELSE h[i - 1]
    BY <2>3, <2>4, <2>5, <1>2
  <2>8. Built(n + 1, h)
    BY <2>6, <2>7
  <2> QED
    BY <2>8
<1> HIDE DEF S
<1>3. Len(s) \in S
  BY <1>1, <1>2, FromZeroOn
<1> QED
  BY <1>3 DEF S, Computes

\* Selected() returns the entries of s that are in T, in their order.
THEOREM SelectedSelects ==
    ASSUME NEW A, NEW s \in Seq(A), NEW T
    PROVE  /\ Selected(s, T) \in Seq(A)
           /\ \E g : Selects(s, T, Len(s), Selected(s, T), g)
<1> DEFINE f == CHOOSE h : Computes(h, s, T)
<1>1. Computes(f, s, T)
  BY SelectionIsComputed
<1>2. Selected(s, T) = f[Len(s)]
  BY DEF Selected, Computes
<1> HIDE DEF f
<1> DEFINE S == {n \in Nat : n <= Len(s) =>
                     f[n] \in Seq(A) /\ \E g : Selects(s, T, n, f[n], g)}
<1>3. 0 \in S
  <2>1. f[0] = <<>>
    BY <1>1 DEF Computes
  <2>2. Selects(s, T, 0, <<>>, [k \in 1..0 |-> 0])
    BY DEF Selects
  <2>3. <<>> \in Seq(A)
    OBVIOUS
  <2> QED
    BY <2>1, <2>2, <2>3
<1>4. ASSUME NEW n \in Nat, n \in S
      PROVE  n + 1 \in S
  <2> SUFFICES ASSUME n + 1 <= Len(s)
               PROVE  f[n + 1] \in Seq(A) /\ \E g : Selects(s, T, n + 1, f[n + 1], g)
    OBVIOUS
  <2>1. f[n + 1] = IF s[n + 1] \in T THEN Append(f[n], s[n + 1]) ELSE f[n]
    <3>1. n + 1 \in 0..Len(s) /\ n + 1 # 0 /\ n + 1 - 1 = n
      BY <1>4
    <3>2. \A i \in 0..Len(s) : f[i] = IF i = 0 THEN <<>>
                               ELSE IF s[i] \in T THEN Append(f[i - 1], s[i]) ELSE f[i - 1]
      BY <1>1 DEF Computes
    <3> QED
      BY <3>1, <3>2
  <2>2. PICK g : f[n] \in Seq(A) /\ Selects(s, T, n, f[n], g)
    BY <1>4
  <2> QED
    BY <2>1, <2>2, OneMoreSelected, OneMoreLeft
<1> HIDE DEF S
<1>5. Len(s) \in S
  BY <1>3, <1>4, FromZeroOn
<1> QED
  BY <1>2, <1>5 DEF S

\* What is selected is of s and of T, and all of it.
THEOREM SelectedRange ==
    ASSUME NEW A, NEW s \in Seq(A), NEW T
    PROVE  /\ Len(Selected(s, T)) <= Len(s)
           /\ \A k \in 1..Len(Selected(s, T)) :
                 Selected(s, T)[k] \in T /\ \E i \in 1..Len(s) : Selected(s, T)[k] = s[i]
           /\ \A i \in 1..Len(s) : s[i] \in T => \E k \in 1..Len(Selected(s, T)) : Selected(s, T)[k] = s[i]
<1>1. PICK g : Selects(s, T, Len(s), Selected(s, T), g)
  BY SelectedSelects
<1> QED
  BY <1>1 DEF Selects

-----------------------------------------------------------------------------
(* Joined() *)

\* How Joined() is computed.
Joins(f, h) == f = [k \in 0..Len(h) |-> IF k = 0 THEN <<>> ELSE f[k - 1] \o h[k]]

\* Joined() adds the lists of ss one by one.
LEMMA JoinedGoes ==
    ASSUME NEW S, NEW h \in Seq(Seq(S))
    PROVE  \E f \in [0..Len(h) -> Seq(S)] :
              /\ f[0] = <<>> /\ \A k \in 1..Len(h) : f[k] = f[k - 1] \o h[k]
              /\ Joined(h) = f[Len(h)]
<1>1. PICK m \in Nat : m = Len(h)
  OBVIOUS
<1> DEFINE A == Seq(S)
           step == [x \in A \X (1..m) |-> x[1] \o h[x[2]]]
<1>2. \A k \in 1..m : h[k] \in A
  BY <1>1
<1>3. step \in [A \X (1..m) -> A]
  <2> SUFFICES ASSUME NEW x \in A \X (1..m) PROVE x[1] \o h[x[2]] \in A
    OBVIOUS
  <2>1. x[1] \in A /\ h[x[2]] \in A
    BY <1>2
  <2> QED
    BY <2>1
<1>4. \A x \in A : \A k \in 1..m : step[<<x, k>>] = x \o h[k]
  OBVIOUS
<1>5. <<>> \in A
  OBVIOUS
<1> HIDE DEF step
<1>6. PICK f : Recurs(f, A, <<>>, m, step)
  <2> HIDE DEF A
  <2> QED
    BY <1>3, <1>5, Recursion
<1>7. \A k \in 1..m : f[k] = f[k - 1] \o h[k]
  <2> SUFFICES ASSUME NEW k \in 1..m PROVE f[k] = f[k - 1] \o h[k]
    OBVIOUS
  <2>1. f[k - 1] \in A
    BY <1>6 DEF Recurs
  <2> QED
    BY <1>4, <1>6, <2>1 DEF Recurs
<1>8. Joins(f, h)
  <2>1. ASSUME NEW k \in 0..m PROVE f[k] = IF k = 0 THEN <<>> ELSE f[k - 1] \o h[k]
    <3>1. k # 0 => k \in 1..m
      OBVIOUS
    <3> QED
      BY <1>6, <1>7, <3>1 DEF Recurs
  <2>2. f = [k \in 0..m |-> f[k]]
    BY <1>6 DEF Recurs
  <2> QED
    BY <1>1, <2>1, <2>2 DEF Joins
<1> DEFINE g == CHOOSE g : Joins(g, h)
<1>9. Joins(g, h)
  BY <1>8
<1>10. Joined(h) = g[Len(h)]
  BY DEF Joined, Joins
<1> HIDE DEF g
<1>11. g[0] = <<>> /\ \A k \in 1..m : g[k] = g[k - 1] \o h[k]
  <2>1. \A k \in 0..m : g[k] = IF k = 0 THEN <<>> ELSE g[k - 1] \o h[k]
    BY <1>1, <1>9 DEF Joins
  <2>2. \A k \in 1..m : k \in 0..m /\ k # 0
    BY <1>1
  <2>3. 0 \in 0..m
    BY <1>1
  <2> QED
    BY <2>1, <2>2, <2>3
<1> DEFINE T == {n \in Nat : n <= m => g[n] = f[n]}
<1>12. 0 \in T
  BY <1>6, <1>11 DEF Recurs
<1>13. ASSUME NEW n \in Nat, n \in T
       PROVE  n + 1 \in T
  <2> SUFFICES ASSUME n + 1 <= m PROVE g[n + 1] = f[n + 1]
    OBVIOUS
  <2>1. n + 1 \in 1..m /\ n + 1 - 1 = n
    BY <1>13
  <2>2. g[n] = f[n]
    BY <1>13, <2>1
  <2> QED
    <3>1. PICK k \in 1..m : k = n + 1 /\ k - 1 = n
      BY <2>1
    <3>2. f[k] = f[k - 1] \o h[k] /\ g[k] = g[k - 1] \o h[k]
      BY <1>7, <1>11, Zenon
    <3> QED
      BY <2>2, <3>1, <3>2, Zenon
<1> HIDE DEF T
<1>14. m \in T
  BY <1>12, <1>13, FromZeroOn
<1>15. Joined(h) = f[m]
  BY <1>1, <1>10, <1>14 DEF T
<1> QED
  BY <1>1, <1>6, <1>7, <1>15, Zenon DEF Recurs

\* One more list.
LEMMA JoinedAppends ==
    ASSUME NEW S, NEW h \in Seq(Seq(S)), NEW p \in Seq(S)
    PROVE  /\ Joined(h) \in Seq(S)
           /\ Joined(Append(h, p)) = Joined(h) \o p
<1>1. PICK m \in Nat : m = Len(h)
  OBVIOUS
<1>2. PICK a \in Seq(Seq(S)) : /\ a = Append(h, p) /\ Len(a) = m + 1 /\ a[m + 1] = p
                                  /\ \A k \in 1..m : a[k] = h[k]
  <2>1. Append(h, p) \in Seq(Seq(S)) /\ Len(Append(h, p)) = m + 1
    BY <1>1, AppendProperties
  <2>2. Append(h, p)[m + 1] = p /\ \A k \in 1..m : Append(h, p)[k] = h[k]
    BY <1>1, AppendProperties
  <2> QED
    BY <2>1, <2>2
<1>3. PICK f \in [0..m -> Seq(S)] :
            /\ f[0] = <<>> /\ \A k \in 1..m : f[k] = f[k - 1] \o h[k]
            /\ Joined(h) = f[m]
  BY <1>1, JoinedGoes
<1>4. PICK g \in [0..m + 1 -> Seq(S)] :
            /\ g[0] = <<>> /\ \A k \in 1..m + 1 : g[k] = g[k - 1] \o a[k]
            /\ Joined(a) = g[m + 1]
  <2>1. \E g \in [0..Len(a) -> Seq(S)] :
            /\ g[0] = <<>> /\ \A k \in 1..Len(a) : g[k] = g[k - 1] \o a[k]
            /\ Joined(a) = g[Len(a)]
    BY JoinedGoes
  <2> QED
    BY <1>2, <2>1, Zenon
<1> DEFINE T == {n \in Nat : n <= m => g[n] = f[n]}
<1>5. 0 \in T
  BY <1>3, <1>4
<1>6. ASSUME NEW n \in Nat, n \in T
      PROVE  n + 1 \in T
  <2> SUFFICES ASSUME n + 1 <= m PROVE g[n + 1] = f[n + 1]
    OBVIOUS
  <2>1. PICK k \in 1..m : k = n + 1 /\ k - 1 = n
    BY <1>6
  <2>2. g[n] = f[n] /\ k \in 1..m + 1
    BY <1>6, <2>1
  <2>3. f[k] = f[k - 1] \o h[k]
    BY <1>3, Zenon
  <2>4. g[k] = g[k - 1] \o a[k]
    BY <1>4, <2>2, Zenon
  <2>5. a[k] = h[k]
    BY <1>2
  <2> QED
    BY <2>1, <2>2, <2>3, <2>4, <2>5, Zenon
<1> HIDE DEF T
<1>7. m \in T
  BY <1>5, <1>6, FromZeroOn
<1>8. g[m] = f[m]
  BY <1>7 DEF T
<1>9. PICK k \in 1..m + 1 : k = m + 1 /\ k - 1 = m
  OBVIOUS
<1>10. g[k] = g[k - 1] \o a[k]
  BY <1>4, Zenon
<1>11. Joined(h) \in Seq(S)
  BY <1>3
<1> QED
  BY <1>2, <1>3, <1>4, <1>8, <1>9, <1>10, <1>11, Zenon

\* No lists make none.
LEMMA NothingJoined == Joined(<<>>) = <<>>
<1>1. <<>> \in Seq(Seq({})) /\ Len(<<>>) = 0
  OBVIOUS
<1> QED
  BY <1>1, JoinedGoes
=================================================================================
