---------------------------- MODULE AuthGateProofs ----------------------------
(***************************************************************************)
(* Proofs about AuthGate, for any clients, lengths of ban and number of     *)
(* lines: whatever nginx appends, rotates and empties around the follower,  *)
(* no line of the log counts twice, the saved bans are the bans in memory   *)
(* whenever the lock is free and the last save worked, and an address is    *)
(* banned by exactly the failure that completes the number.                 *)
(***************************************************************************)
EXTENDS AuthGate, SelectionProofs

Types ==
    /\ now \in Nat
    /\ who \in Seq(Clients)
    /\ file \in Seq(Nat)
    /\ half \in BOOLEAN /\ exists \in BOOLEAN /\ stale \in BOOLEAN
    /\ pos \in Nat \cup {Unknown}
    /\ size \in Nat
    /\ follower \in {"stat", "read", "count"}
    /\ pending \in Seq(Nat)
    /\ counted \in [1..MaxLines -> Seq(Nat)]
    /\ Len(file) <= Len(who)
    /\ Len(who) <= MaxLines
    /\ half => Len(who) < MaxLines

\* Where the follower is: lines wait only while it counts, and it reads only from
\* a position it knows.
Phases ==
    /\ follower # "count" => pending = <<>>
    /\ follower = "read" => pos # Unknown
    /\ pos # Unknown /\ ~stale => pos <= FileSize

\* The file holds the last lines written.
FileIsTail == \A n \in 1..Len(file) : file[n] = Len(who) - Len(file) + n

\* The lines on their way to failed(), in order and for the first time.
Met(i) == (i \in DOMAIN counted /\ counted[i] # <<>>) \/ \E n \in 1..Len(pending) : pending[n] = i
PendingIsNew ==
    /\ \A n \in 1..Len(pending) : pending[n] \in 1..Len(who) /\ counted[pending[n]] = <<>>
    /\ \A m, n \in 1..Len(pending) : m < n => pending[m] < pending[n]
    /\ \A i \in DOMAIN counted : counted[i] # <<>> =>
          i <= Len(who) /\ \A n \in 1..Len(pending) : i < pending[n]

\* What the follower can still read comes after all it has met: the lines past its
\* position, and every line of a file that came since.
AheadIsNew ==
    pos # Unknown => \A n \in 1..Len(file) : stale \/ 2 * n > pos =>
                        \A i \in 1..MaxLines : Met(i) => i < file[n]

IInv == Types /\ Phases /\ FileIsTail /\ PendingIsNew /\ AheadIsNew /\ CountedOnce

-----------------------------------------------------------------------------
(* What steps change *)

\* What the assumption makes of the constants.
LEMMA Numbers ==
    MaxLines \in Nat /\ Horizon \in Nat /\ Fails \in Nat \ {0} /\ Unknown \notin Int
BY BanAssumption DEF BanAssumption

\* Most steps leave the log and the follower's part of the state alone, but for
\* the start of a line.
Elsewhere ==
    /\ UNCHANGED <<who, file, pos, size, stale, pending, counted>>
    /\ exists' \in BOOLEAN /\ half' \in BOOLEAN
    /\ FileSize <= FileSize'
    /\ half' => Len(who) < MaxLines
    /\ now' \in Nat
    /\ \/ follower' = follower
       \/ follower' = "stat" /\ pending = <<>>

\* failed() is given the next line, whoever it is from.
Taken ==
    /\ pending # <<>>
    /\ pending' = Tail(pending)
    /\ counted' = [counted EXCEPT ![Head(pending)] = Append(@, now)]
    /\ UNCHANGED <<now, who, file, half, exists, pos, size, follower, stale>>

\* A file is its whole lines and at most half of one more.
LEMMA FileSizeIsNatural == Types => FileSize \in Nat /\ 2 * Len(file) <= FileSize /\ FileSize <= 2 * Len(file) + 1
BY DEF Types, FileSize

\* Every step is one that meets lines, or one of the steps named above.
LEMMA NextIsOneOf ==
    Types /\ [Next]_vars =>
        \/ Elsewhere \/ Taken \/ (\E c \in Clients : EndLine(c))
        \/ Truncate \/ MoveAway \/ NoFile \/ Stat \/ Read \/ Restart
<1> SUFFICES ASSUME Types, [Next]_vars
             PROVE  \/ Elsewhere \/ Taken \/ (\E c \in Clients : EndLine(c))
                    \/ Truncate \/ MoveAway \/ NoFile \/ Stat \/ Read \/ Restart
  OBVIOUS
<1> USE Numbers DEF Types
<1>1. CASE Tick
  BY <1>1 DEF Tick, Elsewhere, nginxVars, followVars, historyVars, FileSize
<1>2. CASE BeginLine
  BY <1>2 DEF BeginLine, Elsewhere, followVars, historyVars, FileSize
<1>3. CASE MakeAgain
  BY <1>3 DEF MakeAgain, Elsewhere, followVars, historyVars, FileSize
<1>4. CASE Again
  BY <1>4 DEF Again, Elsewhere, nginxVars, historyVars, FileSize
<1>5. CASE FailedLocal
  BY <1>5 DEF FailedLocal, TakeNext, Taken, nginxVars
<1>6. CASE \E c \in Clients : Failed(c)
  BY <1>6 DEF Failed, TakeNext, Taken, nginxVars
<1>7. CASE Save
  BY <1>7 DEF Save, Elsewhere, nginxVars, followVars, FileSize
<1>8. CASE \E c \in Clients : Unban(c)
  BY <1>8 DEF Unban, Elsewhere, nginxVars, followVars, FileSize
<1>9. CASE UNCHANGED vars
  BY <1>9 DEF vars, Elsewhere, nginxVars, followVars, historyVars, FileSize
<1> QED
  BY <1>1, <1>2, <1>3, <1>4, <1>5, <1>6, <1>7, <1>8, <1>9 DEF Next, Follow, Nginx

\* What a chunk holds: lines of the file, in order, from past the position.
LEMMA ChunkIsAhead ==
    ASSUME Types, Phases, Read
    PROVE  /\ pos \in Nat /\ pending = <<>>
           /\ LastLine \in Nat /\ LastLine <= Len(file)
           /\ pending' \in Seq(Nat)
           /\ \E from \in Nat :
                 /\ 2 * from > pos /\ FirstLine <= from
                 /\ Len(pending') = IF from <= LastLine THEN LastLine - from + 1 ELSE 0
                 /\ \A n \in 1..Len(pending') : pending'[n] = file[from + n - 1]
<1> USE Numbers
<1>1. pos \in Nat /\ pending = <<>> /\ file \in Seq(Nat) /\ Len(file) \in Nat
  BY DEF Types, Phases, Read
<1>2. LastLine \in Nat /\ LastLine <= Len(file)
  <2> DEFINE end == SmallerOf(size, FileSize)
  <2>1. end \in Nat /\ end <= 2 * Len(file) + 1
    BY FileSizeIsNatural DEF SmallerOf, Types
  <2> HIDE DEF end
  <2>2. end \div 2 \in Nat /\ end \div 2 <= Len(file)
    BY <1>1, <2>1
  <2> QED
    BY <2>2 DEF LastLine, end
<1>3. FirstLine \in Nat /\ FirstLine >= 1 /\ 2 * FirstLine > pos
  BY <1>1 DEF FirstLine
<1>4. PICK from \in {FirstLine, FirstLine + 1} : pending' = SubSeq(file, from, LastLine)
  BY DEF Read
<1>5. from \in Nat /\ from >= 1 /\ 2 * from > pos /\ FirstLine <= from
  BY <1>1, <1>3, <1>4
<1> HIDE DEF FirstLine, LastLine
<1>6. /\ pending' \in Seq(Nat)
      /\ Len(pending') = IF from <= LastLine THEN LastLine - from + 1 ELSE 0
      /\ \A n \in 1..Len(pending') : pending'[n] = file[from + n - 1]
  BY <1>1, <1>2, <1>4, <1>5
<1> QED
  BY <1>1, <1>2, <1>5, <1>6

-----------------------------------------------------------------------------
(* The invariant *)

\* Positions, lines and times stay what they are.
LEMMA TypesKept == Types /\ Phases /\ PendingIsNew /\ [Next]_vars => Types'
<1> SUFFICES ASSUME Types, Phases, PendingIsNew, [Next]_vars
             PROVE  Types'
  OBVIOUS
<1> USE Numbers
<1>1. CASE Elsewhere
  BY <1>1 DEF Elsewhere, Types
<1>2. CASE Taken
  <2>1. Head(pending) \in 1..MaxLines /\ Tail(pending) \in Seq(Nat)
    BY <1>2 DEF Taken, PendingIsNew, Types
  <2>2. counted' \in [1..MaxLines -> Seq(Nat)]
    BY <1>2, <2>1 DEF Taken, Types
  <2> QED
    BY <1>2, <2>1, <2>2 DEF Taken, Types
<1>3. CASE \E c \in Clients : EndLine(c)
  <2>1. half' \in BOOLEAN
    BY <1>3 DEF EndLine
  <2>2. /\ who' \in Seq(Clients) /\ Len(who') = Len(who) + 1
        /\ file' \in Seq(Nat) /\ Len(file') = Len(file) + 1
    BY <1>3 DEF EndLine, Types
  <2>3. Len(who) < MaxLines /\ half' = FALSE
    BY <1>3 DEF EndLine, Types
  <2> QED
    BY <1>3, <2>1, <2>2, <2>3 DEF EndLine, Types, followVars, historyVars
<1>4. CASE Truncate \/ MoveAway
  <2>1. exists' \in BOOLEAN /\ stale' \in BOOLEAN
    BY <1>4 DEF Truncate, MoveAway, Types
  <2>2. file' = <<>>
    BY <1>4 DEF Truncate, MoveAway
  <2>3. UNCHANGED <<now, who, half, pos, size, follower, pending, counted>>
    BY <1>4 DEF Truncate, MoveAway
  <2> QED
    BY <2>1, <2>2, <2>3 DEF Types
<1>5. CASE NoFile
  BY <1>5 DEF NoFile, Types, nginxVars, historyVars
<1>6. CASE Stat
  BY <1>6, FileSizeIsNatural DEF Stat, Types, nginxVars, historyVars
<1>7. CASE Read
  <2>1. PositionAfter \in Nat
    BY <1>7, ChunkIsAhead DEF PositionAfter
  <2> QED
    BY <1>7, <2>1, ChunkIsAhead DEF Read, Types, nginxVars, historyVars
<1>8. CASE Restart
  <2>1. stale' \in BOOLEAN
    BY <1>8 DEF Restart
  <2> QED
    BY <1>8, <2>1 DEF Restart, Types, nginxVars
<1> QED
  BY <1>1, <1>2, <1>3, <1>4, <1>5, <1>6, <1>7, <1>8, NextIsOneOf

\* The follower counts what it read before it looks again, and a position is past
\* the end only in a file that was replaced.
LEMMA PhasesKept == Types /\ Phases /\ [Next]_vars => Phases'
<1> SUFFICES ASSUME Types, Phases, [Next]_vars
             PROVE  Phases'
  OBVIOUS
<1> USE Numbers
<1>0. FileSize \in Nat /\ (pos = Unknown \/ pos \in Nat)
  BY FileSizeIsNatural DEF Types
<1>1. CASE Elsewhere
  <2>1. pos # Unknown /\ ~stale => pos <= FileSize'
    BY <1>0, <1>1 DEF Elsewhere, Phases, FileSize, Types
  <2> QED
    BY <1>1, <2>1 DEF Elsewhere, Phases
<1>2. CASE Taken
  BY <1>2 DEF Taken, Phases, FileSize
<1>3. CASE \E c \in Clients : EndLine(c)
  <2>1. FileSize <= FileSize'
    BY <1>3 DEF EndLine, FileSize, Types
  <2>2. FileSize' \in Nat
    BY <1>3 DEF EndLine, FileSize, Types
  <2> QED
    BY <1>0, <1>3, <2>1, <2>2 DEF EndLine, Phases, followVars
<1>4. CASE Truncate \/ MoveAway
  BY <1>4 DEF Truncate, MoveAway, Phases
<1>5. CASE NoFile
  BY <1>5 DEF NoFile, Phases
<1>6. CASE Stat
  <2>1. FileSize' = FileSize
    BY <1>6 DEF Stat, nginxVars, FileSize
  <2> QED
    BY <1>0, <1>6, <2>1 DEF Stat, Phases
<1>7. CASE Read
  <2>1. FileSize' = FileSize /\ pos' = PositionAfter /\ follower' = "count"
    BY <1>7 DEF Read, nginxVars, FileSize
  <2>2. CASE LastLine < FirstLine
    BY <1>7, <2>1, <2>2 DEF Read, Phases, PositionAfter
  <2>3. CASE ~(LastLine < FirstLine)
    <3>1. pos' = 2 * LastLine /\ LastLine \in Nat /\ LastLine <= Len(file)
      BY <1>7, <2>1, <2>3, ChunkIsAhead DEF PositionAfter
    <3>2. pos' <= FileSize'
      BY <2>1, <3>1, FileSizeIsNatural DEF Types
    <3> QED
      BY <2>1, <3>2 DEF Phases
  <2> QED
    BY <2>2, <2>3
<1>8. CASE Restart
  BY <1>8 DEF Restart, Phases
<1> QED
  BY <1>1, <1>2, <1>3, <1>4, <1>5, <1>6, <1>7, <1>8, NextIsOneOf

\* nginx appends; a rotation empties.
LEMMA TailKept == Types /\ FileIsTail /\ [Next]_vars => FileIsTail'
<1> SUFFICES ASSUME Types, FileIsTail, [Next]_vars
             PROVE  FileIsTail'
  OBVIOUS
<1>1. CASE \E c \in Clients : EndLine(c)
  BY <1>1 DEF EndLine, FileIsTail, Types
<1>2. CASE Truncate \/ MoveAway
  BY <1>2 DEF Truncate, MoveAway, FileIsTail
<1>3. CASE Elsewhere \/ Taken \/ NoFile \/ Stat \/ Read \/ Restart
  BY <1>3 DEF Elsewhere, Taken, NoFile, Stat, Read, Restart, nginxVars, FileIsTail
<1> QED
  BY <1>1, <1>2, <1>3, NextIsOneOf

\* Only failed() counts lines, and what it takes is the first that waits.
LEMMA TakenWasMet ==
    ASSUME Types, PendingIsNew, Taken
    PROVE  /\ Head(pending) = pending[1] /\ Head(pending) \in 1..MaxLines
           /\ counted[Head(pending)] = <<>>
           /\ Len(counted'[Head(pending)]) = 1
           /\ \A i \in 1..MaxLines : i # Head(pending) => counted'[i] = counted[i]
           /\ Len(pending') = Len(pending) - 1
           /\ \A n \in 1..Len(pending') : pending'[n] = pending[n + 1]
<1> USE Numbers
<1>1. pending \in Seq(Nat) /\ pending # <<>> /\ Len(pending) >= 1
  BY DEF Types, Taken
<1>2. Head(pending) = pending[1]
  BY <1>1
<1>3. pending[1] \in 1..Len(who) /\ counted[pending[1]] = <<>>
  BY <1>1 DEF PendingIsNew
<1>4. pending[1] \in 1..MaxLines
  BY <1>3 DEF Types
<1>5. counted' = [counted EXCEPT ![pending[1]] = Append(counted[pending[1]], now)]
  BY <1>2 DEF Taken
<1>6. counted'[pending[1]] = Append(<<>>, now)
  BY <1>3, <1>4, <1>5 DEF Types
<1>7. Len(counted'[pending[1]]) = 1
  BY <1>6
<1>8. \A i \in 1..MaxLines : i # pending[1] => counted'[i] = counted[i]
  BY <1>4, <1>5 DEF Types
<1>9. Len(pending') = Len(pending) - 1 /\ \A n \in 1..Len(pending') : pending'[n] = pending[n + 1]
  BY <1>1 DEF Taken
<1> QED
  BY <1>2, <1>3, <1>4, <1>7, <1>8, <1>9

\* A chunk is taken line by line, and only from ahead of all that was met.
LEMMA PendingKept ==
    Types /\ Phases /\ FileIsTail /\ PendingIsNew /\ AheadIsNew /\ [Next]_vars => PendingIsNew'
<1> SUFFICES ASSUME Types, Phases, FileIsTail, PendingIsNew, AheadIsNew, [Next]_vars
             PROVE  PendingIsNew'
  OBVIOUS
<1> USE Numbers
<1>0. DOMAIN counted = 1..MaxLines /\ DOMAIN counted' = 1..MaxLines
  BY TypesKept DEF Types
<1>1. CASE Taken
  <2>1. who' = who /\ Len(who) \in Nat
    BY <1>1 DEF Taken, Types
  <2>2. \A n \in 1..Len(pending') : n + 1 \in 1..Len(pending) /\ pending'[n] = pending[n + 1]
    BY <1>1, TakenWasMet DEF Types
  <2>3. \A n \in 1..Len(pending') : pending[1] < pending'[n] /\ pending'[n] \in 1..Len(who) /\ pending'[n] \in Nat
    <3> TAKE n \in 1..Len(pending')
    <3>1. 1 \in 1..Len(pending) /\ n + 1 \in 1..Len(pending) /\ 1 < n + 1
      <4>1. n + 1 \in 1..Len(pending) /\ Len(pending) \in Nat /\ n \in Int /\ n >= 1
        BY <1>1, <2>2, TakenWasMet DEF Types
      <4> QED
        BY <4>1
    <3>2. pending[1] < pending[n + 1] /\ pending[n + 1] \in 1..Len(who)
      BY <3>1 DEF PendingIsNew
    <3> QED
      BY <2>1, <2>2, <3>2
  <2>4. \A n \in 1..Len(pending') : counted'[pending'[n]] = <<>>
    <3> TAKE n \in 1..Len(pending')
    <3>1. pending'[n] \in 1..MaxLines /\ pending'[n] # pending[1]
      BY <2>3 DEF Types, PendingIsNew
    <3>2. counted[pending'[n]] = <<>>
      BY <2>2 DEF PendingIsNew
    <3> QED
      BY <1>1, <3>1, <3>2, TakenWasMet
  <2>5. \A m, n \in 1..Len(pending') : m < n => pending'[m] < pending'[n]
    BY <2>2 DEF PendingIsNew
  <2>6. ASSUME NEW i \in 1..MaxLines, counted'[i] # <<>>
        PROVE  i <= Len(who) /\ \A n \in 1..Len(pending') : i < pending'[n]
    <3>1. CASE i = pending[1]
      <4>1. pending[1] \in 1..Len(who)
        BY <1>1, TakenWasMet DEF PendingIsNew, Types, Taken
      <4> QED
        BY <3>1, <2>3, <4>1
    <3>2. CASE i # pending[1]
      BY <1>0, <1>1, <2>2, <2>6, <3>2, TakenWasMet DEF PendingIsNew
    <3> QED
      BY <3>1, <3>2
  <2> QED
    BY <1>0, <2>1, <2>3, <2>4, <2>5, <2>6 DEF PendingIsNew
<1>2. CASE \E c \in Clients : EndLine(c)
  <2>1. Len(who') = Len(who) + 1 /\ Len(who) \in Nat /\ pending' = pending /\ counted' = counted
    BY <1>2 DEF EndLine, followVars, historyVars, Types
  <2> QED
    BY <1>0, <2>1 DEF PendingIsNew
<1>3. CASE Read
  <2>1. who' = who /\ counted' = counted /\ Len(who) \in Nat /\ Len(file) \in Nat /\ Len(file) <= Len(who)
    BY <1>3 DEF Read, nginxVars, historyVars, Types
  <2>2. PICK from \in Nat :
           /\ 2 * from > pos
           /\ Len(pending') = IF from <= LastLine THEN LastLine - from + 1 ELSE 0
           /\ \A n \in 1..Len(pending') : pending'[n] = file[from + n - 1]
    BY <1>3, ChunkIsAhead
  <2>3. pos \in Nat /\ LastLine \in Nat /\ LastLine <= Len(file)
    BY <1>3, ChunkIsAhead
  <2>4. from >= 1
    BY <2>2, <2>3
  <2>5. \A n \in 1..Len(pending') : from + n - 1 \in 1..Len(file) /\ 2 * (from + n - 1) > pos
    BY <2>1, <2>2, <2>3, <2>4
  <2>6. \A n \in 1..Len(pending') : pending'[n] = Len(who) - Len(file) + (from + n - 1)
    BY <2>2, <2>5 DEF FileIsTail
  <2>7. \A n \in 1..Len(pending') : pending'[n] \in 1..Len(who)
    BY <2>1, <2>5, <2>6
  <2>8. \A n \in 1..Len(pending') : \A i \in 1..MaxLines : counted[i] # <<>> => i < pending'[n]
    BY <1>0, <2>2, <2>3, <2>5 DEF AheadIsNew, Met
  <2>9. \A n \in 1..Len(pending') : counted[pending'[n]] = <<>>
    BY <2>1, <2>7, <2>8 DEF Types
  <2>10. \A i \in 1..MaxLines : counted[i] # <<>> => i <= Len(who)
    BY <1>0 DEF PendingIsNew
  <2>11. \A m, n \in 1..Len(pending') : m < n => pending'[m] < pending'[n]
    BY <2>1, <2>4, <2>6
  <2> QED
    BY <1>0, <2>1, <2>7, <2>8, <2>9, <2>10, <2>11 DEF PendingIsNew
<1>4. CASE Restart
  BY <1>0, <1>4 DEF Restart, nginxVars, PendingIsNew
<1>5. CASE Elsewhere \/ Truncate \/ MoveAway \/ NoFile \/ Stat
  BY <1>5 DEF Elsewhere, Truncate, MoveAway, NoFile, Stat, nginxVars, historyVars, PendingIsNew
<1> QED
  BY <1>1, <1>2, <1>3, <1>4, <1>5, NextIsOneOf

\* Rotations, restarts and the position leave ahead only lines not met.
LEMMA AheadKept ==
    Types /\ Phases /\ FileIsTail /\ PendingIsNew /\ AheadIsNew /\ [Next]_vars => AheadIsNew'
<1> SUFFICES ASSUME Types, Phases, FileIsTail, PendingIsNew, AheadIsNew, [Next]_vars
             PROVE  AheadIsNew'
  OBVIOUS
<1> USE Numbers
<1>0. /\ DOMAIN counted = 1..MaxLines /\ DOMAIN counted' = 1..MaxLines
      /\ Len(file) \in Nat /\ Len(who) \in Nat /\ FileSize \in Nat
      /\ 2 * Len(file) <= FileSize
  BY TypesKept, FileSizeIsNatural DEF Types
<1>1. CASE Elsewhere
  BY <1>1 DEF Elsewhere, AheadIsNew, Met
<1>2. CASE Taken
  <2>1. pos' = pos /\ file' = file /\ stale' = stale
    BY <1>2 DEF Taken
  <2>2. \A i \in 1..MaxLines : Met(i)' => Met(i)
    <3>1. 1 \in 1..Len(pending) /\ \A n \in 1..Len(pending') : n + 1 \in 1..Len(pending) /\ pending'[n] = pending[n + 1]
      <4>1. pending \in Seq(Nat) /\ pending # <<>> /\ Len(pending) \in Nat
        BY <1>2 DEF Types, Taken
      <4>2. 1 \in 1..Len(pending)
        BY <4>1
      <4> QED
        BY <1>2, <4>1, <4>2, TakenWasMet
    <3> QED
      BY <1>0, <1>2, <3>1, TakenWasMet DEF Met
  <2> QED
    BY <2>1, <2>2 DEF AheadIsNew
<1>3. CASE \E c \in Clients : EndLine(c)
  <2>1. pos' = pos /\ stale' = stale /\ pending' = pending /\ counted' = counted
    BY <1>3 DEF EndLine, followVars, historyVars
  <2>2. \A i \in 1..MaxLines : Met(i)' => Met(i) /\ i <= Len(who)
    BY <1>0, <2>1 DEF Met, PendingIsNew
  <2>3. Len(file') = Len(file) + 1 /\ file'[Len(file) + 1] = Len(who) + 1
    BY <1>3 DEF EndLine, Types
  <2>4. \A n \in 1..Len(file) : file'[n] = file[n]
    BY <1>3 DEF EndLine, Types
  <2>5. ASSUME pos # Unknown, NEW n \in 1..Len(file'), stale \/ 2 * n > pos, NEW i \in 1..MaxLines, Met(i)'
        PROVE  i < file'[n]
    <3>1. CASE n = Len(file) + 1
      BY <1>0, <2>2, <2>3, <2>5, <3>1
    <3>2. CASE n \in 1..Len(file)
      BY <2>2, <2>4, <2>5, <3>2 DEF AheadIsNew
    <3> QED
      BY <1>0, <2>3, <3>1, <3>2
  <2> QED
    BY <2>1, <2>5 DEF AheadIsNew
<1>4. CASE Truncate \/ MoveAway
  BY <1>4 DEF Truncate, MoveAway, AheadIsNew
<1>5. CASE NoFile \/ Restart
  BY <1>5 DEF NoFile, Restart, AheadIsNew
<1>6. CASE Stat
  <2>1. file' = file /\ pending' = pending /\ counted' = counted
    BY <1>6 DEF Stat, nginxVars, historyVars
  <2>2. \A i : Met(i)' <=> Met(i)
    BY <2>1 DEF Met
  <2>3. CASE pos = Unknown
    <3>1. pos' = FileSize /\ pos' # pos
      BY <1>0, <1>6, <2>3 DEF Stat
    <3>3. ~stale'
      BY <1>6, <3>1, Zenon DEF Stat
    <3>2. \A n \in 1..Len(file') : ~(2 * n > pos')
      BY <1>0, <2>1, <3>1
    <3> QED
      BY <3>2, <3>3 DEF AheadIsNew
  <2>4. CASE pos # Unknown /\ FileSize < pos
    <3>1. stale
      BY <1>0, <2>4 DEF Phases, Types
    <3> QED
      BY <2>1, <2>2, <2>4, <3>1 DEF AheadIsNew
  <2>5. CASE pos # Unknown /\ ~(FileSize < pos)
    <3>1. pos' = pos /\ stale' = stale
      BY <1>6, <2>5 DEF Stat, Types
    <3> QED
      BY <2>1, <2>2, <3>1 DEF AheadIsNew
  <2> QED
    BY <2>3, <2>4, <2>5
<1>7. CASE Read
  <2>1. who' = who /\ counted' = counted /\ file' = file /\ pos \in Nat
    BY <1>7, ChunkIsAhead DEF Read, nginxVars, historyVars
  <2>2. PICK from \in Nat :
           /\ 2 * from > pos /\ FirstLine <= from
           /\ Len(pending') = IF from <= LastLine THEN LastLine - from + 1 ELSE 0
           /\ \A n \in 1..Len(pending') : pending'[n] = file[from + n - 1]
    BY <1>7, ChunkIsAhead
  <2>3. LastLine \in Nat /\ LastLine <= Len(file)
    BY <1>7, ChunkIsAhead
  <2>4. FirstLine \in Nat /\ FirstLine >= 1 /\ 2 * FirstLine > pos
    BY <2>1 DEF FirstLine
  <2>5. CASE LastLine < FirstLine
    <3>1. pos' = pos /\ stale' = stale
      BY <1>7, <2>5 DEF Read, PositionAfter, Types
    <3>2. Len(pending') = 0
      BY <2>2, <2>3, <2>4, <2>5
    <3>3. \A i : Met(i)' => Met(i)
      BY <2>1, <3>2 DEF Met
    <3> QED
      BY <2>1, <3>1, <3>3 DEF AheadIsNew
  <2>6. CASE ~(LastLine < FirstLine)
    <3>1. pos' = 2 * LastLine /\ ~stale'
      BY <1>7, <2>6 DEF Read, PositionAfter
    <3>2. ASSUME NEW n \in 1..Len(file), 2 * n > pos', NEW i \in 1..MaxLines, Met(i)'
          PROVE  i < file[n]
      <4>1. n > LastLine /\ 2 * n > pos
        BY <2>1, <2>3, <2>4, <2>6, <3>1, <3>2
      <4>2. CASE counted[i] # <<>>
        BY <1>0, <2>1, <3>2, <4>1, <4>2 DEF AheadIsNew, Met, Types
      <4>3. CASE \E k \in 1..Len(pending') : pending'[k] = i
        <5>1. PICK k \in 1..Len(pending') : pending'[k] = i
          BY <4>3
        <5>2. from + k - 1 \in 1..Len(file) /\ from + k - 1 < n /\ from + k - 1 \in Int
          BY <1>0, <2>1, <2>2, <2>3, <4>1
        <5>3. i = Len(who) - Len(file) + (from + k - 1)
          BY <2>2, <5>1, <5>2 DEF FileIsTail
        <5>4. file[n] = Len(who) - Len(file) + n
          BY DEF FileIsTail
        <5> QED
          BY <1>0, <5>2, <5>3, <5>4
      <4> QED
        BY <2>1, <3>2, <4>2, <4>3 DEF Met
    <3> QED
      BY <2>1, <3>1, <3>2 DEF AheadIsNew
  <2> QED
    BY <2>5, <2>6
<1> QED
  BY <1>1, <1>2, <1>3, <1>4, <1>5, <1>6, <1>7, NextIsOneOf

\* The line failed() is given had not been counted.
LEMMA OnceKept == Types /\ PendingIsNew /\ CountedOnce /\ [Next]_vars => CountedOnce'
<1> SUFFICES ASSUME Types, PendingIsNew, CountedOnce, [Next]_vars
             PROVE  CountedOnce'
  OBVIOUS
<1>1. CASE Taken
  <2> SUFFICES ASSUME NEW i \in 1..MaxLines
               PROVE  Len(counted'[i]) <= 1
    BY DEF CountedOnce
  <2>1. CASE i = Head(pending)
    <3>1. Len(counted'[Head(pending)]) = 1
      BY <1>1, TakenWasMet
    <3> QED
      BY <2>1, <3>1
  <2>2. CASE i # Head(pending)
    BY <1>1, <2>2, TakenWasMet DEF CountedOnce
  <2> QED
    BY <2>1, <2>2
<1>2. CASE counted' = counted
  BY <1>2 DEF CountedOnce
<1> QED
  BY <1>1, <1>2, NextIsOneOf
     DEF Elsewhere, EndLine, Truncate, MoveAway, NoFile, Stat, Read, Restart, historyVars

\* An empty log.
LEMMA InitHolds == Init => IInv
<1> SUFFICES ASSUME Init
             PROVE  IInv
  OBVIOUS
<1> USE Numbers DEF Init
<1>1. Types
  <2>1. half \in BOOLEAN /\ exists \in BOOLEAN /\ stale \in BOOLEAN
    OBVIOUS
  <2>2. counted \in [1..MaxLines -> Seq(Nat)] /\ who \in Seq(Clients) /\ file \in Seq(Nat) /\ pending \in Seq(Nat)
    OBVIOUS
  <2> QED
    BY <2>1, <2>2 DEF Types
<1>2. Phases /\ FileIsTail /\ AheadIsNew
  BY DEF Phases, FileIsTail, AheadIsNew
<1>3. PendingIsNew /\ CountedOnce
  BY DEF PendingIsNew, CountedOnce
<1> QED
  BY <1>1, <1>2, <1>3 DEF IInv

\* The parts of the invariant keep one another.
LEMMA NextKeeps == IInv /\ [Next]_vars => IInv'
BY TypesKept, PhasesKept, TailKept, PendingKept, AheadKept, OnceKept DEF IInv

\* The follower meets the lines in order, each for the first time.
THEOREM Invariance == Spec => []IInv
BY InitHolds, NextKeeps, PTL DEF Spec

\* follow(): no line is given to failed() twice, whatever is appended, rotated or
\* truncated between getsize and read, and over restarts.
THEOREM LinesCountOnce == Spec => []CountedOnce
<1>1. IInv => CountedOnce
  BY DEF IInv
<1> QED
  BY <1>1, Invariance, PTL

-----------------------------------------------------------------------------
(* The saved bans *)

\* bans, and the lock that is kept until they are saved, change in one step.
LEMMA BansKept == DiskMatches /\ [Next]_vars => DiskMatches'
<1> SUFFICES ASSUME DiskMatches, [Next]_vars
             PROVE  DiskMatches'
  OBVIOUS
<1>1. CASE Tick \/ Nginx \/ NoFile \/ Stat \/ Read \/ Again \/ FailedLocal \/ UNCHANGED vars
  BY <1>1 DEF Tick, Nginx, BeginLine, EndLine, Truncate, MoveAway, MakeAgain, NoFile, Stat, Read, Again,
     FailedLocal, banVars, historyVars, vars, DiskMatches
<1>2. CASE \E c \in Clients : Failed(c)
  BY <1>2 DEF Failed, DiskMatches
<1>3. CASE \E c \in Clients : Unban(c)
  BY <1>3 DEF Unban, DiskMatches
<1>4. CASE Save
  BY <1>4 DEF Save, DiskMatches
<1>5. CASE Restart
  BY <1>5 DEF Restart, DiskMatches
<1> QED
  BY <1>1, <1>2, <1>3, <1>4, <1>5 DEF Next, Follow

\* save() and load(): while nobody holds the lock the file has the bans in memory,
\* unless the last save failed; so a restart loses no ban and revives none.
THEOREM SavedBansMatch == Spec => []DiskMatches
<1>1. Init => DiskMatches
  BY DEF Init, DiskMatches
<1> QED
  BY <1>1, BansKept, PTL DEF Spec

-----------------------------------------------------------------------------
(* Bans *)

\* The failures an address still has to its account are lines that were counted.
FailureTypes ==
    /\ fails \in [Clients -> Seq(Nat)]
    /\ \A c \in Clients : Len(fails[c]) < Fails
    /\ since \in [Clients -> SUBSET (1..MaxLines)]
    /\ \A c \in Clients : \A j \in since[c] : counted[j] # <<>>

BanTypes ==
    /\ bans \in [Clients -> Entry \cup {NoBan}]
    /\ saved \in [Clients -> Entry \cup {NoBan}]

\* l names the line of each time that is remembered of an address, each another one, and
\* none that is still within the window is left out: failed() forgets only what is older,
\* and what is older once stays so.
StandsFor(c, l) ==
    /\ l \in [1..Len(fails[c]) -> since[c]]
    /\ \A m, n \in 1..Len(fails[c]) : l[m] = l[n] => m = n
    /\ \A n \in 1..Len(fails[c]) : counted[l[n]][1] = fails[c][n]
    /\ \A j \in since[c] : now - counted[j][1] < Window => \E n \in 1..Len(fails[c]) : l[n] = j

FailuresStand == \A c \in Clients : \E l : StandsFor(c, l)

BanIInv == IInv /\ FailureTypes /\ BanTypes /\ FailuresStand

\* What the assumption makes of the lengths.
LEMMA Lengths ==
    /\ {Fails, Window, Ban, RepeatBan} \subseteq Nat \ {0}
    /\ Day \in Nat /\ NoBan \notin Entry /\ Local \subseteq Clients
BY BanAssumption DEF BanAssumption

\* The lines of an address that are within the window.
Near(c) == {j \in since[c] : now - counted[j][1] < Window}
StillNear(c) == Selected(fails[c], {t \in Nat : now - t < Window})

\* The times failed() keeps are those of the lines within the window, one for each.
LEMMA KeptAreNear ==
    ASSUME FailureTypes, NEW c \in Clients, NEW l, StandsFor(c, l), now \in Nat,
           counted \in [1..MaxLines -> Seq(Nat)]
    PROVE  /\ StillNear(c) \in Seq(Nat)
           /\ \E m : /\ m \in Bijection(1..Len(StillNear(c)), Near(c))
                     /\ \A k \in 1..Len(StillNear(c)) : counted[m[k]][1] = StillNear(c)[k]
<1> USE Lengths
<1> DEFINE s == fails[c]
           T == {t \in Nat : now - t < Window}
           r == StillNear(c)
<1>1. s \in Seq(Nat)
  BY DEF FailureTypes
<1>2. r \in Seq(Nat) /\ \E g : Selects(s, T, Len(s), r, g)
  <2> HIDE DEF T
  <2>1. Selected(s, T) \in Seq(Nat) /\ \E g : Selects(s, T, Len(s), Selected(s, T), g)
    BY <1>1, SelectedSelects
  <2> QED
    BY <2>1 DEF StillNear, T
<1>3. PICK g : Selects(s, T, Len(s), r, g)
  BY <1>2
<1> HIDE DEF r
<1> DEFINE m == [k \in 1..Len(r) |-> l[g[k]]]
<1>4. /\ g \in [1..Len(r) -> 1..Len(s)]
      /\ \A j, k \in 1..Len(r) : j < k => g[j] < g[k]
      /\ \A k \in 1..Len(r) : r[k] = s[g[k]] /\ r[k] \in T
      /\ \A i \in 1..Len(s) : s[i] \in T => \E k \in 1..Len(r) : g[k] = i
  BY <1>3 DEF Selects
<1>5. \A k \in 1..Len(r) : /\ m[k] \in since[c] /\ counted[m[k]][1] = r[k]
                           /\ r[k] \in Nat /\ now - r[k] < Window
  BY <1>4 DEF StandsFor
<1>6. m \in [1..Len(r) -> Near(c)]
  BY <1>5 DEF Near
<1>7. \A j, k \in 1..Len(r) : m[j] = m[k] => j = k
  <2> TAKE j, k \in 1..Len(r)
  <2>1. m[j] = m[k] => g[j] = g[k]
    BY <1>4 DEF StandsFor
  <2>2. Len(r) \in Nat /\ g[j] \in Nat /\ g[k] \in Nat
    BY <1>2, <1>4
  <2>3. j # k => j < k \/ k < j
    BY <2>2
  <2>4. g[j] = g[k] => j = k
    BY <2>2, <2>3, <1>4
  <2> QED
    BY <2>1, <2>4
<1>8. ASSUME NEW j \in Near(c)
      PROVE  \E k \in 1..Len(r) : m[k] = j
  <2>1. j \in since[c] /\ now - counted[j][1] < Window
    BY DEF Near
  <2>2. PICK n \in 1..Len(s) : l[n] = j
    BY <2>1 DEF StandsFor
  <2>3. s[n] = counted[j][1] /\ s[n] \in Nat
    BY <1>1, <2>2 DEF StandsFor
  <2>4. s[n] \in T
    BY <2>1, <2>3
  <2>5. PICK k \in 1..Len(r) : g[k] = n
    BY <1>4, <2>4
  <2> QED
    BY <2>2, <2>5
<1> HIDE DEF m
<1>9. m \in Bijection(1..Len(r), Near(c))
  <2>1. m \in Injection(1..Len(r), Near(c))
    BY <1>6, <1>7, Zenon DEF Injection, IsInjective
  <2>2. m \in Surjection(1..Len(r), Near(c))
    BY <1>6, <1>8, Zenon DEF Surjection
  <2> QED
    BY <2>1, <2>2, Zenon DEF Bijection
<1> QED
  BY <1>2, <1>5, <1>9 DEF r

\* So there are as many, and one more with the failure at hand.
LEMMA RecentCounts ==
    ASSUME FailureTypes, FailuresStand, NEW c \in Clients, now \in Nat,
           counted \in [1..MaxLines -> Seq(Nat)]
    PROVE  /\ Recent(c) \in Seq(Nat)
           /\ IsFiniteSet(Near(c)) /\ Cardinality(Near(c)) \in Nat
           /\ Len(Recent(c)) = Cardinality(Near(c)) + 1
<1>1. PICK l : StandsFor(c, l)
  BY DEF FailuresStand
<1>2. StillNear(c) \in Seq(Nat) /\ \E m : m \in Bijection(1..Len(StillNear(c)), Near(c))
  BY <1>1, KeptAreNear
<1>3. ExistsBijection(1..Len(StillNear(c)), Near(c)) /\ Len(StillNear(c)) \in Nat
  BY <1>2 DEF ExistsBijection
<1>4. Cardinality(Near(c)) = Len(StillNear(c))
  BY <1>3, FS_CountingElements
<1>5. IsFiniteSet(Near(c))
  <2>1. IsFiniteSet(1..Len(StillNear(c)))
    BY <1>3, FS_Interval
  <2> QED
    BY <1>3, <2>1, FS_Bijection
<1>6. Recent(c) = Append(StillNear(c), now)
  BY DEF Recent, StillNear
<1>7. Append(StillNear(c), now) \in Seq(Nat) /\ Len(Append(StillNear(c), now)) = Len(StillNear(c)) + 1
  BY <1>2
<1> QED
  BY <1>3, <1>4, <1>5, <1>6, <1>7

\* The line at hand counts for nobody yet.
LEMMA HeadIsNew ==
    ASSUME IInv, FailureTypes, Taken
    PROVE  /\ Head(pending) \in 1..MaxLines /\ Head(pending) \in 1..Len(who)
           /\ \A c \in Clients : Head(pending) \notin since[c]
           /\ counted' \in [1..MaxLines -> Seq(Nat)]
           /\ counted'[Head(pending)] = <<now>>
           /\ \A j \in 1..MaxLines : j # Head(pending) => counted'[j] = counted[j]
<1> USE Numbers
<1>1. Types /\ PendingIsNew
  BY DEF IInv
<1>2. /\ Head(pending) = pending[1] /\ Head(pending) \in 1..MaxLines
      /\ counted[Head(pending)] = <<>>
      /\ \A i \in 1..MaxLines : i # Head(pending) => counted'[i] = counted[i]
  BY <1>1, TakenWasMet
<1>3. Head(pending) \in 1..Len(who)
  <2>1. pending \in Seq(Nat) /\ pending # <<>>
    BY <1>1 DEF Types, Taken
  <2>2. 1 \in 1..Len(pending)
    BY <2>1
  <2> QED
    BY <1>1, <1>2, <2>2 DEF PendingIsNew
<1>4. \A c \in Clients : Head(pending) \notin since[c]
  BY <1>2 DEF FailureTypes
<1>5. counted' = [counted EXCEPT ![Head(pending)] = Append(counted[Head(pending)], now)]
  BY DEF Taken
<1>6. counted \in [1..MaxLines -> Seq(Nat)] /\ now \in Nat
  BY <1>1 DEF Types
<1>7. counted'[Head(pending)] = Append(<<>>, now)
  BY <1>2, <1>5, <1>6
<1>8. Append(<<>>, now) = <<now>> /\ <<now>> \in Seq(Nat)
  BY <1>6
<1>9. counted' \in [1..MaxLines -> Seq(Nat)]
  BY <1>2, <1>5, <1>6, <1>7, <1>8
<1> QED
  BY <1>2, <1>3, <1>4, <1>7, <1>8, <1>9

\* A failure that is counted, or the ban it completes.
LEMMA FailedKeeps ==
    ASSUME BanIInv, NEW c \in Clients, Failed(c)
    PROVE  FailureTypes' /\ BanTypes' /\ FailuresStand'
<1> USE Numbers, Lengths
<1>1. Taken
  BY DEF Failed, TakeNext, Taken, nginxVars
<1>2. IInv /\ FailureTypes /\ BanTypes /\ FailuresStand
  BY DEF BanIInv
<1>3. now \in Nat /\ counted \in [1..MaxLines -> Seq(Nat)] /\ now' = now /\ saved' = saved
  BY <1>2 DEF IInv, Types, Failed
<1> DEFINE i == Head(pending)
<1>4. /\ i \in 1..MaxLines /\ \A d \in Clients : i \notin since[d]
      /\ counted' \in [1..MaxLines -> Seq(Nat)] /\ counted'[i] = <<now>>
      /\ \A j \in 1..MaxLines : j # i => counted'[j] = counted[j]
  BY <1>1, <1>2, HeadIsNew
<1> HIDE DEF i
<1>5. /\ fails \in [Clients -> Seq(Nat)] /\ since \in [Clients -> SUBSET (1..MaxLines)]
      /\ \A d \in Clients : Len(fails[d]) < Fails
      /\ \A d \in Clients : \A j \in since[d] : counted[j] # <<>>
  BY <1>2 DEF FailureTypes
<1>6. \A d \in Clients : \A j \in since[d] : counted'[j] = counted[j] /\ j # i
  BY <1>4, <1>5
<1>7. \A d \in Clients : fails'[d] = fails[d] /\ since'[d] = since[d] => \E l : StandsFor(d, l)'
  <2> TAKE d \in Clients
  <2>1. PICK l : StandsFor(d, l)
    BY <1>2 DEF FailuresStand
  <2> HAVE fails'[d] = fails[d] /\ since'[d] = since[d]
  <2>2. StandsFor(d, l)'
    BY <1>3, <1>6, <2>1 DEF StandsFor
  <2> QED
    BY <2>2
<1>8. CASE NotYetBanned(c)
  <2>1. fails' = [fails EXCEPT ![c] = Recent(c)] /\ since' = [since EXCEPT ![c] = @ \cup {Head(pending)}]
    BY <1>8 DEF Failed
  <2>2. bans' = bans
    BY <1>8 DEF Failed
  <2>3. PICK l : StandsFor(c, l)
    BY <1>2 DEF FailuresStand
  <2> DEFINE r == StillNear(c)
  <2>4. PICK m : /\ m \in Bijection(1..Len(r), Near(c))
                 /\ \A k \in 1..Len(r) : counted[m[k]][1] = r[k]
    BY <1>2, <1>3, <2>3, KeptAreNear
  <2>5. r \in Seq(Nat)
    BY <1>2, <1>3, <2>3, KeptAreNear
  <2>6. Recent(c) = Append(r, now)
    BY DEF Recent, StillNear
  <2> HIDE DEF r
  <2>7. /\ Append(r, now) \in Seq(Nat) /\ Len(Append(r, now)) = Len(r) + 1 /\ Len(r) \in Nat
        /\ \A k \in 1..Len(r) : Append(r, now)[k] = r[k]
        /\ Append(r, now)[Len(r) + 1] = now
    BY <1>3, <2>5
  <2>8. fails'[c] = Append(r, now) /\ since'[c] = since[c] \cup {i}
    BY <1>5, <2>1, <2>6 DEF i
  <2>9. \A d \in Clients : d # c => fails'[d] = fails[d] /\ since'[d] = since[d]
    BY <1>5, <2>1
  <2>10. FailureTypes'
    <3>1. fails' \in [Clients -> Seq(Nat)]
      BY <1>5, <2>1, <2>6, <2>7
    <3>2. since' \in [Clients -> SUBSET (1..MaxLines)]
      BY <1>4, <1>5, <2>1 DEF i
    <3>3. Len(fails'[c]) < Fails
      BY <1>8, <2>6, <2>8 DEF NotYetBanned
    <3>4. \A d \in Clients : Len(fails'[d]) < Fails
      BY <1>5, <2>9, <3>3
    <3>5. <<now>> # <<>>
      OBVIOUS
    <3>6. \A j \in since'[c] : counted'[j] # <<>>
      BY <1>4, <1>5, <1>6, <2>8, <3>5
    <3>7. \A d \in Clients : \A j \in since'[d] : counted'[j] # <<>>
      BY <1>5, <1>6, <2>9, <3>6
    <3> QED
      BY <3>1, <3>2, <3>4, <3>7 DEF FailureTypes
  <2>11. BanTypes'
    BY <1>2, <1>3, <2>2 DEF BanTypes
  <2> DEFINE h == [k \in 1..Len(r) + 1 |-> IF k = Len(r) + 1 THEN i ELSE m[k]]
  <2>12. /\ m \in [1..Len(r) -> Near(c)]
         /\ \A j, k \in 1..Len(r) : m[j] = m[k] => j = k
         /\ \A j \in Near(c) : \E k \in 1..Len(r) : m[k] = j
    BY <2>4, Zenon DEF Bijection, Injection, IsInjective, Surjection
  <2>13. /\ \A k \in 1..Len(r) : h[k] = m[k] /\ h[k] \in Near(c)
         /\ h[Len(r) + 1] = i
    <3>1. Len(r) \in Nat
      BY <2>5
    <3>2. \A k \in 1..Len(r) : k \in 1..Len(r) + 1 /\ k # Len(r) + 1
      BY <3>1
    <3>3. Len(r) + 1 \in 1..Len(r) + 1
      BY <3>1
    <3> QED
      BY <2>12, <3>2, <3>3
  <2>14. Near(c) \subseteq since[c] /\ i \notin Near(c)
    BY <1>4 DEF Near
  <2>16. \A k \in 1..Len(r) + 1 : k \in 1..Len(r) \/ k = Len(r) + 1
    <3>1. Len(r) \in Nat
      BY <2>5
    <3> QED
      BY <3>1
  <2>15. h \in [1..Len(r) + 1 -> since'[c]]
    <3>1. \A k \in 1..Len(r) + 1 : h[k] \in since'[c]
      <4> HIDE DEF h
      <4> QED
        BY <2>8, <2>13, <2>14, <2>16
    <3> QED
      BY <3>1
  <2> HIDE DEF h
  <2>17. \A j, k \in 1..Len(r) + 1 : h[j] = h[k] => j = k
    BY <2>12, <2>13, <2>14, <2>16
  <2>18. \A k \in 1..Len(r) + 1 : counted'[h[k]][1] = fails'[c][k]
    <3> TAKE k \in 1..Len(r) + 1
    <3>1. CASE k \in 1..Len(r)
      <4>1. counted'[h[k]] = counted[m[k]]
        BY <1>6, <2>13, <2>14, <3>1
      <4> QED
        BY <2>4, <2>7, <2>8, <3>1, <4>1
    <3>2. CASE k = Len(r) + 1
      <4>1. <<now>>[1] = now
        OBVIOUS
      <4> QED
        BY <1>4, <2>7, <2>8, <2>13, <3>2, <4>1
    <3> QED
      BY <2>16, <3>1, <3>2
  <2>19. ASSUME NEW j \in since'[c], now' - counted'[j][1] < Window
         PROVE  \E k \in 1..Len(r) + 1 : h[k] = j
    <3>1. CASE j = i
      BY <2>7, <2>13, <3>1
    <3>2. CASE j \in since[c]
      <4>1. j \in Near(c)
        BY <1>3, <1>6, <2>19, <3>2 DEF Near
      <4>2. PICK k \in 1..Len(r) : m[k] = j
        BY <2>12, <4>1
      <4>3. k \in 1..Len(r) + 1
        BY <2>7
      <4> QED
        BY <2>13, <4>2, <4>3
    <3> QED
      BY <2>8, <3>1, <3>2
  <2>20. 1..Len(fails'[c]) = 1..Len(r) + 1
    BY <2>7, <2>8
  <2>0. PICK q : q = h
    OBVIOUS
  <2>21. StandsFor(c, q)'
    <3>1. q \in [1..Len(fails'[c]) -> since'[c]]
      BY <2>0, <2>15, <2>20
    <3>2. \A j, k \in 1..Len(fails'[c]) : q[j] = q[k] => j = k
      BY <2>0, <2>17, <2>20
    <3>3. \A k \in 1..Len(fails'[c]) : counted'[q[k]][1] = fails'[c][k]
      BY <2>0, <2>18, <2>20
    <3>4. \A j \in since'[c] : now' - counted'[j][1] < Window =>
             \E k \in 1..Len(fails'[c]) : q[k] = j
      BY <2>0, <2>19, <2>20
    <3> QED
      BY <3>1, <3>2, <3>3, <3>4 DEF StandsFor
  <2>22. FailuresStand'
    BY <1>7, <2>9, <2>21 DEF FailuresStand
  <2> QED
    BY <2>10, <2>11, <2>22
<1>9. CASE ~NotYetBanned(c)
  <2>1. fails' = [fails EXCEPT ![c] = <<>>] /\ since' = [since EXCEPT ![c] = {}]
    BY <1>9 DEF Failed
  <2>2. bans' = [bans EXCEPT ![c] = BannedEntry(c)]
    BY <1>9 DEF Failed
  <2>3. FailureTypes'
    <3>1. fails' \in [Clients -> Seq(Nat)] /\ \A d \in Clients : Len(fails'[d]) < Fails
      BY <1>5, <2>1
    <3>2. since' \in [Clients -> SUBSET (1..MaxLines)]
      BY <1>5, <2>1
    <3>3. \A d \in Clients : \A j \in since'[d] : counted'[j] # <<>>
      BY <1>5, <1>6, <2>1
    <3> QED
      BY <3>1, <3>2, <3>3 DEF FailureTypes
  <2>4. BannedEntry(c) \in Entry
    BY <1>2, <1>3 DEF BannedEntry, BanTypes, Entry
  <2>5. BanTypes'
    BY <1>2, <1>3, <2>2, <2>4 DEF BanTypes
  <2>6. StandsFor(c, <<>>)'
    BY <1>5, <2>1 DEF StandsFor
  <2>7. \A d \in Clients : d # c => fails'[d] = fails[d] /\ since'[d] = since[d]
    BY <1>5, <2>1
  <2>8. FailuresStand'
    BY <1>7, <2>6, <2>7 DEF FailuresStand
  <2> QED
    BY <2>3, <2>5, <2>8
<1> QED
  BY <1>8, <1>9

\* What leaves the failures and the lines that were counted alone, but for lines that
\* count for nobody; time may pass.
LEMMA AsideKeeps ==
    ASSUME FailureTypes, FailuresStand, now \in Nat, now' \in Nat, now <= now',
           counted \in [1..MaxLines -> Seq(Nat)], fails' = fails, since' = since,
           \A c \in Clients : \A j \in since[c] : counted'[j] = counted[j]
    PROVE  FailureTypes' /\ FailuresStand'
<1> USE Lengths
<1>1. FailureTypes'
  <2>1. \A c \in Clients : \A j \in since'[c] : counted'[j] # <<>>
    BY DEF FailureTypes
  <2> QED
    BY <2>1 DEF FailureTypes
<1>2. ASSUME NEW c \in Clients
      PROVE  \E l : StandsFor(c, l)'
  <2>1. PICK l : StandsFor(c, l)
    BY DEF FailuresStand
  <2>2. \A n \in 1..Len(fails[c]) : l[n] \in since[c]
    BY <2>1 DEF StandsFor
  <2>3. \A n \in 1..Len(fails'[c]) : counted'[l[n]][1] = fails'[c][n]
    BY <2>1, <2>2 DEF StandsFor
  <2>4. ASSUME NEW j \in since'[c], now' - counted'[j][1] < Window
        PROVE  \E n \in 1..Len(fails'[c]) : l[n] = j
    <3>1. counted'[j] = counted[j] /\ j \in 1..MaxLines /\ counted[j] \in Seq(Nat) /\ counted[j] # <<>>
      BY DEF FailureTypes
    <3>2. counted[j][1] \in Nat
      BY <3>1
    <3>3. now - counted[j][1] < Window
      BY <2>4, <3>1, <3>2
    <3> QED
      BY <2>1, <3>3 DEF StandsFor
  <2>5. StandsFor(c, l)'
    BY <2>1, <2>3, <2>4 DEF StandsFor
  <2> QED
    BY <2>5
<1> QED
  BY <1>1, <1>2 DEF FailuresStand

\* An address is let go.
LEMMA UnbanKeeps ==
    ASSUME BanIInv, NEW c \in Clients, Unban(c)
    PROVE  FailureTypes' /\ BanTypes' /\ FailuresStand'
<1> USE Lengths
<1>1. FailureTypes /\ BanTypes /\ FailuresStand
  BY DEF BanIInv
<1>2. /\ fails' = [fails EXCEPT ![c] = <<>>] /\ since' = [since EXCEPT ![c] = {}]
      /\ bans' = [bans EXCEPT ![c] = NoBan] /\ UNCHANGED <<now, counted, saved>>
  BY DEF Unban
<1>3. fails \in [Clients -> Seq(Nat)] /\ since \in [Clients -> SUBSET (1..MaxLines)]
  BY <1>1 DEF FailureTypes
<1>4. \A d \in Clients : d # c => fails'[d] = fails[d] /\ since'[d] = since[d]
  BY <1>2, <1>3
<1>5. fails'[c] = <<>> /\ since'[c] = {}
  BY <1>2, <1>3
<1>6. FailureTypes'
  <2>1. fails' \in [Clients -> Seq(Nat)]
    BY <1>2, <1>3
  <2>2. since' \in [Clients -> SUBSET (1..MaxLines)]
    BY <1>2, <1>3
  <2>3. \A d \in Clients : Len(fails'[d]) < Fails
    BY <1>1, <1>4, <1>5 DEF FailureTypes
  <2>4. \A d \in Clients : \A j \in since'[d] : counted'[j] # <<>>
    BY <1>1, <1>2, <1>4, <1>5 DEF FailureTypes
  <2> QED
    BY <2>1, <2>2, <2>3, <2>4 DEF FailureTypes
<1>7. BanTypes'
  BY <1>1, <1>2 DEF BanTypes
<1>8. ASSUME NEW d \in Clients
      PROVE  \E l : StandsFor(d, l)'
  <2>1. CASE d = c
    <3>1. StandsFor(d, <<>>)'
      BY <1>5, <2>1 DEF StandsFor
    <3> QED
      BY <3>1
  <2>2. CASE d # c
    <3>1. PICK l : StandsFor(d, l)
      BY <1>1 DEF FailuresStand
    <3>2. fails'[d] = fails[d] /\ since'[d] = since[d] /\ now' = now /\ counted' = counted
      BY <1>2, <1>4, <2>2
    <3>3. StandsFor(d, l)'
      BY <3>1, <3>2 DEF StandsFor
    <3> QED
      BY <3>3
  <2> QED
    BY <2>1, <2>2
<1> QED
  BY <1>6, <1>7, <1>8 DEF FailuresStand

\* The process comes back with the bans that were saved and no failures.
LEMMA RestartKeeps == BanIInv /\ Restart => FailureTypes' /\ BanTypes' /\ FailuresStand'
<1> SUFFICES ASSUME BanIInv, Restart
             PROVE  FailureTypes' /\ BanTypes' /\ FailuresStand'
  OBVIOUS
<1> USE Lengths
<1>1. fails' = [c \in Clients |-> <<>>] /\ since' = [c \in Clients |-> {}] /\ bans' = saved /\ saved' = saved
  BY DEF Restart
<1>2. BanTypes'
  BY <1>1 DEF BanIInv, BanTypes
<1>3. FailureTypes'
  BY <1>1 DEF FailureTypes
<1>4. ASSUME NEW c \in Clients
      PROVE  \E l : StandsFor(c, l)'
  <2>1. StandsFor(c, <<>>)'
    BY <1>1 DEF StandsFor
  <2> QED
    BY <2>1
<1> QED
  BY <1>2, <1>3, <1>4 DEF FailuresStand

\* Each step keeps the account of failures.
LEMMA BansNextKeeps == BanIInv /\ [Next]_vars => BanIInv'
<1> SUFFICES ASSUME BanIInv, [Next]_vars
             PROVE  BanIInv'
  OBVIOUS
<1>1. IInv' /\ IInv
  BY NextKeeps DEF BanIInv
<1>2. FailureTypes /\ BanTypes /\ FailuresStand
  BY DEF BanIInv
<1>3. now \in Nat /\ now' \in Nat /\ counted \in [1..MaxLines -> Seq(Nat)]
  BY <1>1 DEF IInv, Types
<1>4. CASE Tick \/ Nginx \/ NoFile \/ Stat \/ Read \/ Again \/ Save \/ UNCHANGED vars
  <2>1. /\ fails' = fails /\ since' = since /\ counted' = counted /\ bans' = bans
        /\ saved' \in {bans, saved}
    BY <1>4 DEF Tick, Nginx, BeginLine, EndLine, Truncate, MoveAway, MakeAgain, NoFile, Stat, Read, Again,
       Save, banVars, historyVars, vars
  <2>2. now <= now'
    BY <1>3, <1>4 DEF Tick, Nginx, BeginLine, EndLine, Truncate, MoveAway, MakeAgain, NoFile, Stat, Read,
       Again, Save, vars
  <2>3. BanTypes'
    BY <1>2, <2>1 DEF BanTypes
  <2>4. FailureTypes' /\ FailuresStand'
    BY <1>2, <1>3, <2>1, <2>2, AsideKeeps
  <2> QED
    BY <1>1, <2>3, <2>4 DEF BanIInv
<1>5. CASE FailedLocal
  <2>1. Taken
    BY <1>5 DEF FailedLocal, TakeNext, Taken, nginxVars
  <2>2. fails' = fails /\ since' = since /\ bans' = bans /\ saved' = saved /\ now' = now
    BY <1>5 DEF FailedLocal, banVars
  <2>3. \A c \in Clients : \A j \in since[c] : counted'[j] = counted[j]
    BY <1>1, <1>2, <2>1, HeadIsNew DEF FailureTypes
  <2>4. FailureTypes' /\ FailuresStand'
    <3>1. now <= now'
      BY <1>3, <2>2
    <3> QED
      BY <1>2, <1>3, <2>2, <2>3, <3>1, AsideKeeps
  <2> QED
    BY <1>1, <1>2, <2>2, <2>4 DEF BanIInv, BanTypes
<1>6. CASE \E c \in Clients : Failed(c)
  BY <1>1, <1>6, FailedKeeps DEF BanIInv
<1>7. CASE \E c \in Clients : Unban(c)
  BY <1>1, <1>7, UnbanKeeps DEF BanIInv
<1>8. CASE Restart
  BY <1>1, <1>8, RestartKeeps DEF BanIInv
<1> QED
  BY <1>4, <1>5, <1>6, <1>7, <1>8 DEF Next, Follow

\* Nobody has failed, nobody is banned.
LEMMA BansInitHolds == Init => BanIInv
<1> SUFFICES ASSUME Init
             PROVE  BanIInv
  OBVIOUS
<1> USE Lengths, Numbers
<1>1. IInv
  BY InitHolds
<1>2. FailureTypes /\ BanTypes
  BY DEF Init, FailureTypes, BanTypes
<1>3. \A c \in Clients : StandsFor(c, <<>>)
  BY DEF Init, StandsFor
<1> QED
  BY <1>1, <1>2, <1>3 DEF BanIInv, FailuresStand

\* What failed() remembers of an address stands, one for one, for the lines that still
\* count against it.
THEOREM BanInvariance == Spec => []BanIInv
BY BansInitHolds, BansNextKeeps, PTL DEF Spec

\* The step of one line: a ban if it completes the number, and in force at once.
LEMMA StepBansExactly ==
    ASSUME BanIInv, [Next]_vars, NEW i \in 1..Len(who), counted'[i] # counted[i]
    PROVE  LET c == who[i]
               near == {j \in since[c] \cup {i} : now - counted'[j][1] < Window}
           IN /\ bans'[c] # bans[c] <=> c \notin Local /\ Cardinality(near) >= Fails
              /\ bans'[c] # bans[c] => Banned(c)'
<1> USE Numbers, Lengths
<1> DEFINE c == who[i]
           near == {j \in since[c] \cup {i} : now - counted'[j][1] < Window}
<1>1. IInv /\ FailureTypes /\ BanTypes /\ FailuresStand
  BY DEF BanIInv
<1>2. /\ now \in Nat /\ counted \in [1..MaxLines -> Seq(Nat)]
      /\ who \in Seq(Clients) /\ Len(who) <= MaxLines
  BY <1>1 DEF IInv, Types
<1>3. c \in Clients /\ i \in 1..MaxLines
  BY <1>2
<1>4. CASE FailedLocal
  <2>1. Taken /\ bans' = bans
    BY <1>4 DEF FailedLocal, TakeNext, Taken, nginxVars, banVars
  <2>2. i = Head(pending)
    BY <1>1, <1>3, <2>1, HeadIsNew
  <2>3. c \in Local
    BY <1>4, <2>2 DEF FailedLocal
  <2> QED
    BY <2>1, <2>3
<1>5. ASSUME NEW d \in Clients, Failed(d)
      PROVE  /\ bans'[c] # bans[c] <=> c \notin Local /\ Cardinality(near) >= Fails
             /\ bans'[c] # bans[c] => Banned(c)'
  <2>1. Taken /\ now' = now
    BY <1>5 DEF Failed, TakeNext, Taken, nginxVars
  <2>2. i = Head(pending) /\ counted'[i] = <<now>> /\ \A e \in Clients : i \notin since[e]
    BY <1>1, <1>3, <2>1, HeadIsNew
  <2>3. d = c /\ c \notin Local
    BY <1>5, <2>2 DEF Failed
  <2>4. \A j \in since[c] : counted'[j] = counted[j]
    BY <1>1, <1>3, <2>1, <2>2, HeadIsNew DEF FailureTypes
  <2> HIDE DEF c
  <2>5. near = Near(c) \cup {i} /\ i \notin Near(c)
    <3>1. <<now>>[1] = now /\ now - now < Window
      BY <1>2
    <3>2. i \in near
      BY <2>2, <3>1
    <3>3. \A j \in since[c] : j \in near <=> j \in Near(c)
      BY <2>4 DEF Near
    <3>4. i \notin since[c] /\ Near(c) \subseteq since[c]
      BY <1>3, <2>2 DEF Near
    <3> QED
      BY <3>2, <3>3, <3>4
  <2> HIDE DEF near
  <2>6. /\ Recent(c) \in Seq(Nat)
        /\ IsFiniteSet(Near(c)) /\ Cardinality(Near(c)) \in Nat
        /\ Len(Recent(c)) = Cardinality(Near(c)) + 1
    BY <1>1, <1>2, <1>3, RecentCounts
  <2>7. Cardinality(near) = Cardinality(Near(c)) + 1
    BY <2>5, <2>6, FS_AddElement
  <2>8. NotYetBanned(c) <=> ~(Cardinality(near) >= Fails)
    BY <2>6, <2>7 DEF NotYetBanned
  <2>9. CASE NotYetBanned(c)
    <3>1. bans' = bans
      BY <1>5, <2>3, <2>9 DEF Failed
    <3> QED
      BY <2>8, <2>9, <3>1
  <2>10. CASE ~NotYetBanned(c)
    <3>1. bans'[c] = BannedEntry(c)
      BY <1>1, <1>3, <1>5, <2>3, <2>10 DEF Failed, BanTypes
    <3>2. bans[c] \in Entry \cup {NoBan}
      BY <1>1, <1>3 DEF BanTypes
    <3>3. BannedEntry(c) \in Entry /\ BannedEntry(c).until > now
      <4>1. PICK length \in {Ban, RepeatBan} : BannedEntry(c).until = now + length
        BY DEF BannedEntry
      <4>2. BannedEntry(c).last = now
        BY DEF BannedEntry
      <4>3. BannedEntry(c).count \in Nat
        BY <3>2 DEF BannedEntry, Entry
      <4>4. length \in Nat /\ length > 0 /\ now \in Nat
        BY <1>2, BanAssumption
      <4>5. now + length \in Nat /\ now + length > now
        BY <4>4
      <4>6. BannedEntry(c) = [until |-> BannedEntry(c).until, count |-> BannedEntry(c).count,
                              last |-> BannedEntry(c).last]
        BY DEF BannedEntry
      <4> QED
        BY <4>1, <4>2, <4>3, <4>4, <4>5, <4>6 DEF Entry
    <3>4. bans[c] \in Entry => BannedEntry(c).count = bans[c].count + 1
      BY <3>2 DEF BannedEntry
    <3>5. bans[c] \in Entry => bans[c].count \in Nat
      BY DEF Entry
    <3>6. BannedEntry(c) # bans[c]
      BY <3>2, <3>3, <3>4, <3>5
    <3>7. Banned(c)'
      <4>1. bans'[c] # NoBan /\ bans'[c].until > now'
        BY <2>1, <3>1, <3>3
      <4>2. c' = c
        BY <1>5 DEF Failed, nginxVars, c
      <4> QED
        BY <4>1, <4>2 DEF Banned
    <3> QED
      BY <2>3, <2>8, <2>10, <3>1, <3>6, <3>7
  <2> QED
    BY <2>9, <2>10
<1>6. CASE counted' = counted
  BY <1>6
<1>7. \/ FailedLocal \/ (\E d \in Clients : Failed(d)) \/ counted' = counted
  BY DEF Next, Follow, Tick, Nginx, BeginLine, EndLine, Truncate, MoveAway, MakeAgain, NoFile, Stat, Read,
     Again, Save, Restart, Unban, historyVars, vars
<1> QED
  BY <1>4, <1>5, <1>6, <1>7

\* failed(): an address is banned by exactly the failure that completes Fails of them
\* within the window since its count last began (start, ban, unban), and a local
\* address by none; from that step on /check refuses it.
THEOREM BansAreExact == Spec => BanExactly
<1>1. BanIInv /\ [Next]_vars =>
         [\A i \in 1..Len(who) : counted'[i] # counted[i] =>
             LET c == who[i]
                 near == {j \in since[c] \cup {i} : now - counted'[j][1] < Window}
             IN /\ bans'[c] # bans[c] <=> c \notin Local /\ Cardinality(near) >= Fails
                /\ bans'[c] # bans[c] => Banned(c)']_vars
  BY StepBansExactly
<1> QED
  BY <1>1, BanInvariance, PTL DEF Spec, BanExactly
===============================================================================
