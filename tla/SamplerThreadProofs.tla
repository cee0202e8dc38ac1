---------------------------- MODULE SamplerThreadProofs ----------------------------
(***************************************************************************)
(* Proofs about the store, for any lengths, retentions and ranges in the   *)
(* order of TimesAssumption, and about what is kept and collected beside   *)
(* it.                                                                     *)
(***************************************************************************)
EXTENDS SparkStore, SelectionProofs, FiniteSetTheorems, TLAPS

Types ==
    /\ now \in Times /\ t0 \in Times
    /\ raw \subseteq taken /\ taken \subseteq Times
    /\ rolled \in [Minutes -> SUBSET taken]
    /\ \A m \in Minutes : \A t \in rolled[m] : MinuteOf(t) = m
    /\ phase \in {"down", "sampling", "rollup", "prune", "sleeping"}
    /\ lastMaint \in Times \cup {Never}
    /\ passAt \in -1..Horizon
    /\ logged \in BOOLEAN
    /\ \A t \in taken : t <= now
    /\ passAt <= now /\ t0 <= now /\ lastMaint <= now

\* prune() keeps what the raw tier still owes.
RawIsKept == \A t \in taken : t >= now - RawRetention => t \in raw

\* A pass comes round in time: how old the last can be at each place of a turn.
PassIsRecent ==
    phase # "down" =>
        /\ now <= t0 + MaxLoop
        /\ phase # "rollup" => lastMaint <= passAt
        /\ phase = "sampling" => passAt <= t0
        /\ phase \in {"sampling", "rollup"} => t0 <= passAt + MaintEvery + MaxLoop
        /\ phase = "sleeping" => t0 <= passAt + MaintEvery
        /\ phase = "prune" => t0 <= passAt

\* What was there at the last pass has a row for as long as rows are kept, and
\* only of that has the raw tier let anything go.
Expired(m) == MinuteLen * m < now - RollRetention
PassedAreRolled ==
    /\ \A t \in taken : t < passAt => HasRow(MinuteOf(t)) \/ Expired(MinuteOf(t))
    /\ \A t \in taken : t \notin raw => t < passAt

InWindow(m) == MinuteLen * m >= passAt - Window /\ MinuteLen * (m + 1) <= passAt
RecentAreWhole ==
    \A m \in Minutes : InWindow(m) => rolled[m] = {t \in taken : MinuteOf(t) = m}

IInv ==
    /\ Types
    /\ RawIsKept
    /\ ~logged => PassIsRecent /\ PassedAreRolled /\ RecentAreWhole

-----------------------------------------------------------------------------
(* Minutes *)

\* A time lies in its minute.
LEMMA MinuteOfTime ==
    ASSUME NEW t \in Nat
    PROVE  /\ MinuteOf(t) \in Nat
           /\ MinuteLen * MinuteOf(t) <= t
           /\ t < MinuteLen * (MinuteOf(t) + 1)
BY TimesAssumption DEF TimesAssumption, MinuteOf

\* Minutes come in the order of their times.
LEMMA MinutesAreOrdered ==
    ASSUME NEW t \in Nat, NEW u \in Nat, t <= u
    PROVE  MinuteOf(t) <= MinuteOf(u)
<1> DEFINE p == MinuteOf(t)
           q == MinuteOf(u)
<1>1. p \in Nat /\ q \in Nat /\ MinuteLen * p <= t /\ u < MinuteLen * (q + 1)
  BY MinuteOfTime
<1> HIDE DEF p, q
<1>2. MinuteLen * p < MinuteLen * (q + 1)
  BY <1>1, TimesAssumption DEF TimesAssumption
<1>3. p < q + 1
  BY <1>1, <1>2, TimesAssumption DEF TimesAssumption
<1> QED
  BY <1>1, <1>3 DEF p, q

\* Every time the model reaches has its minute in the tier.
LEMMA MinuteIsThere == \A t \in Times : MinuteOf(t) \in Minutes
<1> TAKE t \in Times
<1>1. Horizon \in Nat
  BY TimesAssumption DEF TimesAssumption
<1>2. MinuteOf(t) \in Nat /\ MinuteOf(Horizon) \in Nat
  BY <1>1, MinuteOfTime DEF Times
<1>3. MinuteOf(t) <= MinuteOf(Horizon)
  BY <1>1, MinutesAreOrdered DEF Times
<1> QED
  BY <1>2, <1>3 DEF Minutes

-----------------------------------------------------------------------------
(* The statements of store.py *)

\* What _rollup_since makes of the minute tier: rows of samples of their own
\* minute, none gone, and a whole one for each minute all of whose samples the raw
\* tier has since then.
LEMMA RolledSinceKeeps ==
    ASSUME Types, NEW since \in Int
    PROVE  /\ RolledSince(since) \in [Minutes -> SUBSET taken]
           /\ \A m \in Minutes : \A t \in RolledSince(since)[m] : MinuteOf(t) = m
           /\ \A m \in Minutes : HasRow(m) => RolledSince(since)[m] # {}
           /\ \A t \in raw : t >= since => RolledSince(since)[MinuteOf(t)] # {}
           /\ \A m \in Minutes :
                 (\A t \in taken : MinuteOf(t) = m => t \in raw /\ t >= since)
                 => RolledSince(since)[m] = {t \in taken : MinuteOf(t) = m}
<1> DEFINE fresh(m) == {t \in raw : t >= since /\ MinuteOf(t) = m}
           new == RolledSince(since)
<1>1. \A m \in Minutes : new[m] = IF fresh(m) = {} THEN rolled[m] ELSE fresh(m)
  BY DEF RolledSince
<1>2. new \in [Minutes -> SUBSET taken]
  BY DEF RolledSince, Types
<1>3. \A m \in Minutes : \A t \in new[m] : MinuteOf(t) = m
  BY <1>1 DEF Types
<1>4. \A m \in Minutes : HasRow(m) => new[m] # {}
  BY <1>1 DEF HasRow
<1>5. \A t \in raw : t >= since => new[MinuteOf(t)] # {}
  <2> TAKE t \in raw
  <2> HAVE t >= since
  <2>1. MinuteOf(t) \in Minutes /\ t \in fresh(MinuteOf(t))
    BY MinuteIsThere DEF Types
  <2> QED
    BY <1>1, <2>1
<1>6. ASSUME NEW m \in Minutes, \A t \in taken : MinuteOf(t) = m => t \in raw /\ t >= since
      PROVE  new[m] = {t \in taken : MinuteOf(t) = m}
  <2>1. fresh(m) = {t \in taken : MinuteOf(t) = m}
    BY <1>6 DEF Types
  <2>2. rolled[m] \subseteq {t \in taken : MinuteOf(t) = m}
    BY DEF Types
  <2> QED
    BY <1>1, <2>1, <2>2
<1> HIDE DEF new, fresh
<1> QED
  BY <1>2, <1>3, <1>4, <1>5, <1>6 DEF new

\* A set of times that is not empty has a smallest one.
LEMMA SmallestIsLeast ==
    ASSUME NEW S \in SUBSET Times, S # {}
    PROVE  Smallest(S) \in S /\ \A t \in S : Smallest(S) <= t
<1>1. S \in SUBSET Nat
  BY TimesAssumption DEF Times, TimesAssumption
<1>2. \E x \in S : \A y \in S : x <= y
  BY <1>1, NaturalsHaveALeast
<1> QED
  BY <1>2 DEF Smallest

\* A set of minutes that is not empty has a last one: the farthest from the end.
LEMMA LargestIsGreatest ==
    ASSUME NEW S \in SUBSET Minutes, S # {}
    PROVE  Largest(S) \in S /\ \A m \in S : m <= Largest(S)
<1> DEFINE n == MinuteOf(Horizon)
           T == {n - m : m \in S}
<1>1. n \in Nat /\ Minutes = 0..n
  BY TimesAssumption, MinuteOfTime DEF Minutes, TimesAssumption
<1> HIDE DEF n
<1>2. T \in SUBSET Nat /\ T # {}
  <2>1. \A m \in S : m \in 0..n
    BY <1>1
  <2>2. \A m \in S : n - m \in Nat
    BY <1>1, <2>1
  <2> QED
    BY <2>2
<1>3. PICK x \in T : \A y \in T : x <= y
  BY <1>2, NaturalsHaveALeast
<1>4. PICK m \in S : x = n - m
  BY <1>3
<1>5. \A k \in S : k <= m
  <2> TAKE k \in S
  <2>1. x <= n - k
    BY <1>3
  <2>2. k \in Int /\ m \in Int /\ n \in Int
    BY <1>1
  <2> QED
    BY <1>4, <2>1, <2>2
<1> QED
  BY <1>4, <1>5 DEF Largest

\* backfill() rolls up everything the raw tier has, from wherever it starts.
LEMMA BackfillReachesAll ==
    ASSUME Types, raw # {}
    PROVE  \E since \in Int : Backfilled = RolledSince(since) /\ \A t \in raw : since <= t
<1> DEFINE rows == {m \in Minutes : HasRow(m)}
           oldest == Smallest(raw)
           lastRolled == MinuteLen * Largest(rows)
<1>1. oldest \in Int /\ \A t \in raw : oldest <= t /\ t \in Int
  <2>1. raw \in SUBSET Times /\ raw \subseteq Int
    BY DEF Types, Times
  <2>2. oldest \in raw /\ \A t \in raw : oldest <= t
    BY <2>1, SmallestIsLeast
  <2> QED
    BY <2>1, <2>2
<1>2. rows # {} => lastRolled \in Int
  BY LargestIsGreatest, TimesAssumption DEF Minutes, TimesAssumption
<1>3. Backfilled = RolledSince(IF rows = {} \/ oldest < lastRolled THEN oldest ELSE lastRolled)
  BY DEF Backfilled
<1> HIDE DEF rows, oldest, lastRolled
<1>4. CASE rows = {} \/ oldest < lastRolled
  BY <1>1, <1>3, <1>4
<1>5. CASE rows # {} /\ ~(oldest < lastRolled)
  <2>1. Backfilled = RolledSince(lastRolled)
    BY <1>3, <1>5
  <2>2. \A t \in raw : lastRolled <= t
    BY <1>1, <1>2, <1>5
  <2> QED
    BY <1>2, <1>5, <2>1, <2>2
<1> QED
  BY <1>4, <1>5

-----------------------------------------------------------------------------
(* The invariant *)

\* What the assumption and the bounds make of the constants.
LEMMA Numbers ==
    /\ MinuteLen \in Nat /\ MaintEvery \in Nat /\ MaxLoop \in Nat /\ Horizon \in Nat
    /\ Window \in Nat /\ RawRetention \in Nat /\ RollRetention \in Nat /\ Day \in Nat
    /\ MinuteLen > 0 /\ MaintEvery > 0 /\ MaxLoop > 0
    /\ Times \subseteq Nat /\ Never \in Int /\ Never < 0
BY TimesAssumption DEF TimesAssumption, Times, Never

\* A database without tables has no holes.
LEMMA InitHolds == Init => IInv
<1> SUFFICES ASSUME Init
             PROVE  IInv
  OBVIOUS
<1> USE Numbers DEF Init
<1>1. Types
  <2>1. rolled \in [Minutes -> SUBSET taken] /\ \A m \in Minutes : \A t \in rolled[m] : MinuteOf(t) = m
    OBVIOUS
  <2>2. logged \in BOOLEAN
    OBVIOUS
  <2> QED
    BY <2>1, <2>2 DEF Types, Times
<1>2. RawIsKept /\ PassedAreRolled
  BY DEF RawIsKept, PassedAreRolled
<1>3. PassIsRecent /\ RecentAreWhole
  BY DEF PassIsRecent, RecentAreWhole
<1> QED
  BY <1>1, <1>2, <1>3 DEF IInv

\* What the statements of a pass leave is a minute tier: its rows hold samples of
\* their own minute that were taken.
LEMMA PassesLeaveRows ==
    ASSUME Types
    PROVE  /\ Backfilled \in [Minutes -> SUBSET taken]
           /\ \A m \in Minutes : \A t \in Backfilled[m] : MinuteOf(t) = m
           /\ RolledSince(now - Window) \in [Minutes -> SUBSET taken]
           /\ \A m \in Minutes : \A t \in RolledSince(now - Window)[m] : MinuteOf(t) = m
           /\ KeptRows \in [Minutes -> SUBSET taken]
           /\ \A m \in Minutes : \A t \in KeptRows[m] : MinuteOf(t) = m
<1>1. now - Window \in Int
  BY Numbers DEF Types, Times
<1>2. CASE raw = {}
  <2>1. Backfilled = rolled
    BY <1>2 DEF Backfilled
  <2>2. rolled \in [Minutes -> SUBSET taken] /\ \A m \in Minutes : \A t \in rolled[m] : MinuteOf(t) = m
    BY DEF Types
  <2> QED
    BY <1>1, <2>1, <2>2, RolledSinceKeeps DEF KeptRows
<1>3. CASE raw # {}
  <2>1. PICK since \in Int : Backfilled = RolledSince(since)
    BY <1>3, BackfillReachesAll
  <2>2. KeptRows \in [Minutes -> SUBSET taken] /\ \A m \in Minutes : \A t \in KeptRows[m] : MinuteOf(t) = m
    BY DEF Types, KeptRows
  <2> QED
    BY <1>1, <2>1, <2>2, RolledSinceKeeps
<1> QED
  BY <1>2, <1>3

\* The samples and rows every step leaves are of the shape the statements expect.
LEMMA TypesKept == Types /\ [Next]_vars => Types'
<1> SUFFICES ASSUME Types, [Next]_vars
             PROVE  Types'
  OBVIOUS
<1> USE Numbers
<1>0. /\ now \in Times /\ t0 \in Times /\ raw \subseteq taken /\ taken \subseteq Times
      /\ rolled \in [Minutes -> SUBSET taken]
      /\ \A m \in Minutes : \A t \in rolled[m] : MinuteOf(t) = m
      /\ phase \in {"down", "sampling", "rollup", "prune", "sleeping"}
      /\ lastMaint \in Times \cup {Never} /\ passAt \in -1..Horizon /\ logged \in BOOLEAN
      /\ \A t \in taken : t <= now
      /\ passAt <= now /\ t0 <= now /\ lastMaint <= now
  BY DEF Types
<1>1. CASE Tick
  BY <1>0, <1>1 DEF Tick, Types, Times, MinuteOf
<1>2. CASE Start
  <2>1. /\ now' = now /\ raw' = raw /\ taken' = taken /\ lastMaint' = lastMaint
        /\ t0' \in {t0, now} /\ passAt' \in {passAt, now}
        /\ phase' \in {"sampling", "prune", "sleeping"}
    BY <1>2 DEF Start
  <2>2. logged' \in BOOLEAN
    BY <1>0, <1>2 DEF Start
  <2>3. rolled' \in [Minutes -> SUBSET taken] /\ \A m \in Minutes : \A t \in rolled'[m] : MinuteOf(t) = m
    BY <1>0, <1>2, PassesLeaveRows DEF Start
  <2> QED
    BY <1>0, <2>1, <2>2, <2>3 DEF Types, Times, MinuteOf
<1>3. CASE Stop
  BY <1>0, <1>3 DEF Stop, Types, Times, MinuteOf
<1>4. CASE Sample
  <2>1. taken' \in {taken, taken \cup {t0}} /\ raw' \subseteq taken'
    BY <1>0, <1>4 DEF Sample, Inserted
  <2>2. rolled' \in [Minutes -> SUBSET taken']
    BY <1>0, <1>4, <2>1 DEF Sample
  <2>3. lastMaint' \in {lastMaint, now} /\ phase' \in {"rollup", "sleeping"}
    BY <1>4 DEF Sample
  <2> QED
    BY <1>0, <1>4, <2>1, <2>2, <2>3 DEF Sample, Types, Times, MinuteOf
<1>5. CASE Rollup
  <2>1. /\ now' = now /\ raw' = raw /\ taken' = taken /\ lastMaint' = lastMaint
        /\ t0' \in {t0, now} /\ passAt' \in {passAt, now}
        /\ phase' \in {"sampling", "prune", "sleeping"}
    BY <1>5 DEF Rollup
  <2>2. logged' \in BOOLEAN
    BY <1>0, <1>5 DEF Rollup
  <2>3. rolled' \in [Minutes -> SUBSET taken] /\ \A m \in Minutes : \A t \in rolled'[m] : MinuteOf(t) = m
    BY <1>0, <1>5, PassesLeaveRows DEF Rollup
  <2> QED
    BY <1>0, <2>1, <2>2, <2>3 DEF Types, Times, MinuteOf
<1>6. CASE Prune
  <2>1. CASE rolled' = KeptRows /\ raw' = KeptRaw
    BY <1>0, <1>6, <2>1, PassesLeaveRows DEF Prune, KeptRaw, Types, Times, MinuteOf
  <2>2. CASE rolled' = rolled /\ raw' = raw
    BY <1>0, <1>6, <2>2 DEF Prune, Types, Times, MinuteOf
  <2> QED
    BY <1>6, <2>1, <2>2 DEF Prune
<1>7. CASE Wake
  BY <1>0, <1>7 DEF Wake, Types, Times, MinuteOf
<1>8. CASE UNCHANGED vars
  BY <1>0, <1>8 DEF vars, Types, Times, MinuteOf
<1> QED
  BY <1>1, <1>2, <1>3, <1>4, <1>5, <1>6, <1>7, <1>8 DEF Next

\* Only prune() takes samples out, and only those past the retention.
LEMMA RawStaysKept == Types /\ RawIsKept /\ [Next]_vars => RawIsKept'
<1> SUFFICES ASSUME Types, RawIsKept, [Next]_vars
             PROVE  RawIsKept'
  OBVIOUS
<1> USE Numbers
<1>0. now \in Nat /\ taken \subseteq Nat
  BY DEF Types
<1>1. CASE Tick
  BY <1>0, <1>1 DEF Tick, RawIsKept
<1>2. CASE Sample
  BY <1>0, <1>2 DEF Sample, Inserted, RawIsKept
<1>3. CASE Prune
  BY <1>0, <1>3 DEF Prune, KeptRaw, RawIsKept
<1>4. CASE Start \/ Stop \/ Rollup \/ Wake \/ UNCHANGED vars
  BY <1>4 DEF Start, Stop, Rollup, Wake, vars, RawIsKept
<1> QED
  BY <1>1, <1>2, <1>3, <1>4 DEF Next

\* The times of the loop, without a failed pass.
LEMMA PassStaysRecent == Types /\ PassIsRecent /\ [Next]_vars /\ ~logged' => PassIsRecent'
<1> SUFFICES ASSUME Types, PassIsRecent, [Next]_vars, ~logged'
             PROVE  PassIsRecent'
  OBVIOUS
<1> USE Numbers
<1>0. /\ now \in Int /\ t0 \in Int /\ lastMaint \in Int /\ passAt \in Int
      /\ passAt <= now /\ t0 <= now /\ lastMaint <= now
  BY DEF Types
<1>1. CASE Tick
  BY <1>0, <1>1 DEF Tick, PassIsRecent
<1>2. CASE Start
  BY <1>0, <1>2 DEF Start, PassIsRecent
<1>3. CASE Stop
  BY <1>3 DEF Stop, PassIsRecent
<1>4. CASE Sample
  BY <1>0, <1>4 DEF Sample, PassIsRecent
<1>5. CASE Rollup
  BY <1>0, <1>5 DEF Rollup, PassIsRecent
<1>6. CASE Prune
  BY <1>0, <1>6 DEF Prune, PassIsRecent
<1>7. CASE Wake
  BY <1>0, <1>7 DEF Wake, PassIsRecent
<1>8. CASE UNCHANGED vars
  BY <1>8 DEF vars, PassIsRecent
<1> QED
  BY <1>1, <1>2, <1>3, <1>4, <1>5, <1>6, <1>7, <1>8 DEF Next

\* What a pass owes and how it pays: with every sample it has not passed over
\* before within its reach, all that was taken has a row, and the minutes
\* inside the window have whole ones.
LEMMA PassCoversAll ==
    ASSUME Types, RawIsKept, PassedAreRolled, NEW since \in Int,
           \A t \in raw : t >= since \/ t < passAt
    PROVE  \A t \in taken : RolledSince(since)[MinuteOf(t)] # {} \/ Expired(MinuteOf(t))
<1> TAKE t \in taken
<1> USE Numbers
<1>1. t \in Nat /\ passAt \in Int /\ MinuteOf(t) \in Minutes
  BY MinuteIsThere DEF Types
<1>2. CASE t \in raw /\ t >= since
  BY <1>2, RolledSinceKeeps
<1>3. CASE t < passAt
  <2>1. HasRow(MinuteOf(t)) \/ Expired(MinuteOf(t))
    BY <1>3 DEF PassedAreRolled
  <2> QED
    BY <1>1, <2>1, RolledSinceKeeps
<1> QED
  BY <1>1, <1>2, <1>3 DEF PassedAreRolled

\* The samples of a minute inside the window of a pass made now are all in the raw
\* tier.
LEMMA WindowIsInRaw ==
    ASSUME Types, RawIsKept, NEW m \in Minutes, MinuteLen * m >= now - Window,
           NEW t \in taken, MinuteOf(t) = m
    PROVE  t \in raw /\ t >= now - Window
<1> USE Numbers
<1>1. t \in Nat /\ now \in Nat /\ MinuteLen * m \in Int /\ MinuteLen * m <= t
  <2>1. t \in Nat /\ now \in Nat
    BY DEF Types
  <2>2. MinuteOf(t) \in Nat /\ MinuteLen * MinuteOf(t) <= t
    BY <2>1, MinuteOfTime
  <2> QED
    BY <2>1, <2>2
<1>2. t >= now - Window
  BY <1>1
<1>3. now - Window >= now - RawRetention
  BY <1>1, TimesAssumption DEF TimesAssumption
<1>4. t >= now - RawRetention
  BY <1>1, <1>2, <1>3
<1> QED
  BY <1>2, <1>4 DEF RawIsKept

\* Only samples already in a row leave the raw tier.
LEMMA PassedStayRolled ==
    Types /\ RawIsKept /\ PassIsRecent /\ PassedAreRolled /\ [Next]_vars /\ ~logged' => PassedAreRolled'
<1> SUFFICES ASSUME Types, RawIsKept, PassIsRecent, PassedAreRolled, [Next]_vars, ~logged'
             PROVE  PassedAreRolled'
  OBVIOUS
<1> USE Numbers
<1>0. /\ now \in Nat /\ t0 \in Nat /\ passAt \in Int /\ passAt <= now /\ taken \subseteq Nat
      /\ \A t \in taken : t <= now /\ MinuteOf(t) \in Minutes
      /\ raw \subseteq taken
  BY MinuteIsThere DEF Types
<1>1. CASE Tick
  <2>1. \A t \in taken : MinuteOf(t) \in Int
    BY <1>0 DEF Minutes
  <2>2. \A m \in Int : Expired(m) => Expired(m)'
    BY <1>0, <1>1 DEF Tick, Expired
  <2> QED
    BY <1>1, <2>1, <2>2 DEF Tick, PassedAreRolled, HasRow, MinuteOf
<1>2. CASE Start
  <2>1. /\ now' = now /\ raw' = raw /\ taken' = taken
        /\ rolled' = Backfilled /\ passAt' = now
    BY <1>2 DEF Start
  <2>2. \A t \in taken : rolled'[MinuteOf(t)] # {} \/ Expired(MinuteOf(t))
    <3>1. CASE raw = {}
      BY <2>1, <3>1 DEF Backfilled, PassedAreRolled, HasRow
    <3>2. CASE raw # {}
      <4>1. PICK since \in Int : Backfilled = RolledSince(since) /\ \A t \in raw : since <= t
        BY <3>2, BackfillReachesAll
      <4>2. \A t \in raw : t >= since
        BY <1>0, <4>1
      <4> QED
        BY <2>1, <4>1, <4>2, PassCoversAll
    <3> QED
      BY <3>1, <3>2
  <2>3. \A t \in taken : t \notin raw => t < now
    BY <1>0 DEF PassedAreRolled
  <2> QED
    BY <2>1, <2>2, <2>3 DEF PassedAreRolled, HasRow, Expired, MinuteOf
<1>3. CASE Sample
  <2>1. passAt <= t0
    BY <1>3 DEF Sample, PassIsRecent
  <2>2. \A t \in taken' : t \in taken \/ (t = t0 /\ t0 \in raw')
    BY <1>3 DEF Sample, Inserted
  <2>3. raw \subseteq raw'
    BY <1>3 DEF Sample, Inserted
  <2>4. now' = now /\ passAt' = passAt /\ rolled' = rolled
    BY <1>3 DEF Sample
  <2>5. \A m : (HasRow(m)' <=> HasRow(m)) /\ (Expired(m)' <=> Expired(m))
    BY <2>4 DEF HasRow, Expired
  <2>6. \A t \in taken' : t < passAt => t \in taken
    BY <1>0, <2>1, <2>2
  <2>7. \A t \in taken' : t \notin raw' => t \in taken /\ t \notin raw
    BY <2>2, <2>3
  <2> QED
    BY <2>4, <2>5, <2>6, <2>7 DEF PassedAreRolled, MinuteOf
<1>4. CASE Rollup
  <2>1. /\ now' = now /\ raw' = raw /\ taken' = taken
        /\ rolled' = RolledSince(now - Window) /\ passAt' = now
    BY <1>4 DEF Rollup
  <2>2. now - Window <= passAt
    BY <1>0, <1>4, TimesAssumption DEF Rollup, PassIsRecent, TimesAssumption
  <2>3. \A t \in raw : t >= now - Window \/ t < passAt
    BY <1>0, <2>2
  <2>4. \A t \in taken : rolled'[MinuteOf(t)] # {} \/ Expired(MinuteOf(t))
    BY <1>0, <2>1, <2>3, PassCoversAll
  <2>5. \A t \in taken : t \notin raw => t < now
    BY <1>0 DEF PassedAreRolled
  <2> QED
    BY <2>1, <2>4, <2>5 DEF PassedAreRolled, HasRow, Expired, MinuteOf
<1>5. CASE Prune
  <2>1. now' = now /\ passAt' = passAt /\ taken' = taken
    BY <1>5 DEF Prune
  <2>2. \A m \in Minutes : HasRow(m) => HasRow(m)' \/ Expired(m)
    BY <1>5 DEF Prune, KeptRows, HasRow, Expired
  <2>3. \A t \in raw : t \notin raw' => t < now - RawRetention
    BY <1>0, <1>5 DEF Prune, KeptRaw
  <2>4. now - RawRetention < passAt
    BY <1>0, <1>5, TimesAssumption DEF Prune, PassIsRecent, TimesAssumption
  <2>5. \A t \in taken : t \notin raw' => t < passAt
    BY <1>0, <2>3, <2>4 DEF PassedAreRolled
  <2> QED
    BY <1>0, <2>1, <2>2, <2>5 DEF PassedAreRolled, HasRow, Expired, MinuteOf
<1>6. CASE Stop \/ Wake \/ UNCHANGED vars
  BY <1>6 DEF Stop, Wake, vars, PassedAreRolled, HasRow, Expired, MinuteOf
<1> QED
  BY <1>1, <1>2, <1>3, <1>4, <1>5, <1>6 DEF Next

\* New samples fall behind the window of the last pass, and the tiers keep all of
\* what lies in it.
LEMMA RecentStayWhole ==
    Types /\ RawIsKept /\ PassIsRecent /\ RecentAreWhole /\ [Next]_vars /\ ~logged' => RecentAreWhole'
<1> SUFFICES ASSUME Types, RawIsKept, PassIsRecent, RecentAreWhole, [Next]_vars, ~logged'
             PROVE  RecentAreWhole'
  OBVIOUS
<1> USE Numbers
<1>0. now \in Nat /\ t0 \in Nat /\ passAt \in Int /\ Minutes \subseteq Nat
  BY DEF Types, Minutes
<1>1. CASE Start
  <2>1. now' = now /\ taken' = taken /\ rolled' = Backfilled /\ passAt' = now
    BY <1>1 DEF Start
  <2>2. ASSUME NEW m \in Minutes, MinuteLen * m >= now - Window
        PROVE  Backfilled[m] = {t \in taken : MinuteOf(t) = m}
    <3>1. \A t \in taken : MinuteOf(t) = m => t \in raw
      BY <2>2, WindowIsInRaw
    <3>2. CASE raw = {}
      BY <3>1, <3>2 DEF Backfilled, Types
    <3>3. CASE raw # {}
      <4>1. PICK since \in Int : Backfilled = RolledSince(since) /\ \A t \in raw : since <= t
        BY <3>3, BackfillReachesAll
      <4>2. \A t \in taken : MinuteOf(t) = m => t \in raw /\ t >= since
        BY <3>1, <4>1 DEF Types
      <4> QED
        BY <4>1, <4>2, RolledSinceKeeps
    <3> QED
      BY <3>2, <3>3
  <2> QED
    BY <2>1, <2>2 DEF RecentAreWhole, InWindow, MinuteOf
<1>2. CASE Rollup
  <2>1. now' = now /\ taken' = taken /\ rolled' = RolledSince(now - Window) /\ passAt' = now
    BY <1>2 DEF Rollup
  <2>2. ASSUME NEW m \in Minutes, MinuteLen * m >= now - Window
        PROVE  RolledSince(now - Window)[m] = {t \in taken : MinuteOf(t) = m}
    <3>1. \A t \in taken : MinuteOf(t) = m => t \in raw /\ t >= now - Window
      BY <2>2, WindowIsInRaw
    <3>2. now - Window \in Int
      BY <1>0
    <3> QED
      BY <3>1, <3>2, RolledSinceKeeps
  <2> QED
    BY <2>1, <2>2 DEF RecentAreWhole, InWindow, MinuteOf
<1>3. CASE Sample
  <2>1. passAt <= t0 /\ passAt' = passAt /\ rolled' = rolled
    BY <1>3 DEF Sample, PassIsRecent
  <2>2. MinuteOf(t0) \in Nat /\ t0 < MinuteLen * (MinuteOf(t0) + 1)
    BY <1>0, MinuteOfTime
  <2>3. \A m \in Minutes : InWindow(m) => MinuteOf(t0) # m
    BY <1>0, <2>1, <2>2 DEF InWindow
  <2>4. taken' = taken \/ taken' = taken \cup {t0}
    BY <1>3 DEF Sample
  <2>5. \A m \in Minutes : InWindow(m) => {t \in taken' : MinuteOf(t) = m} = {t \in taken : MinuteOf(t) = m}
    BY <2>3, <2>4
  <2> QED
    BY <2>1, <2>5 DEF RecentAreWhole, InWindow, MinuteOf
<1>4. CASE Prune
  <2>1. now - RollRetention < passAt - Window
    BY <1>0, <1>4, TimesAssumption DEF Prune, PassIsRecent, TimesAssumption
  <2>2. \A m \in Minutes : InWindow(m) => rolled'[m] = rolled[m]
    BY <1>0, <1>4, <2>1 DEF Prune, KeptRows, InWindow
  <2> QED
    BY <1>4, <2>2 DEF Prune, RecentAreWhole, InWindow, MinuteOf
<1>5. CASE Tick \/ Stop \/ Wake \/ UNCHANGED vars
  BY <1>5 DEF Tick, Stop, Wake, vars, RecentAreWhole, InWindow, MinuteOf
<1> QED
  BY <1>1, <1>2, <1>3, <1>4, <1>5 DEF Next

\* Once the log has told of a failed pass only the first two parts are owed.
LEMMA NextKeeps == IInv /\ [Next]_vars => IInv'
<1> SUFFICES ASSUME IInv, [Next]_vars
             PROVE  IInv'
  OBVIOUS
<1>1. ~logged' => ~logged
  BY DEF Next, Tick, Start, Stop, Sample, Rollup, Prune, Wake, vars
<1>2. Types' /\ RawIsKept'
  BY TypesKept, RawStaysKept DEF IInv
<1>3. ~logged' => PassIsRecent' /\ PassedAreRolled' /\ RecentAreWhole'
  BY <1>1, PassStaysRecent, PassedStayRolled, RecentStayWhole DEF IInv
<1> QED
  BY <1>2, <1>3 DEF IInv

\* The samples, the times of the loop and the two tiers keep in step.
THEOREM Invariance == Spec => []IInv
BY InitHolds, NextKeeps, PTL DEF Spec

-----------------------------------------------------------------------------
(* What the charts may count on *)

\* store.py:10-11 from the invariant.
LEMMA HolesFollow == IInv => HolesAreLogged
<1> SUFFICES ASSUME IInv, ~logged, NEW t \in taken, t \notin raw
             PROVE  HasRow(MinuteOf(t)) \/ MinuteLen * MinuteOf(t) < now - RollRetention
  BY DEF HolesAreLogged
<1>1. PassedAreRolled
  BY DEF IInv
<1>2. t < passAt
  BY <1>1 DEF PassedAreRolled
<1> QED
  BY <1>1, <1>2 DEF PassedAreRolled, Expired

\* The rows of the last window from the invariant.
LEMMA RecentFollow == IInv => RecentMinutesWhole
BY DEF IInv, RecentAreWhole, InWindow, RecentMinutesWhole

\* Both sources of plan() from the invariant.
LEMMA HistoryFollows == IInv => HistoryIsWhole
<1> SUFFICES ASSUME IInv, ~logged, NEW range \in Ranges
             PROVE  IF Source(range) = "raw"
                    THEN RawAnswer(range) = {t \in taken : t >= now - range}
                    ELSE {MinuteOf(t) : t \in {x \in taken : x < passAt}}
                             \cap {m \in Minutes : MinuteLen * m >= now - range /\ MinuteLen * m >= now - RollRetention}
                           \subseteq MinuteAnswer(range)
  BY DEF HistoryIsWhole
<1> USE Numbers
<1>0. now \in Int /\ range \in Nat /\ taken \subseteq Int /\ raw \subseteq taken
  BY TimesAssumption DEF IInv, Types, TimesAssumption
<1>1. CASE Source(range) = "raw"
  <2>1. range <= RawRetention
    BY <1>0, <1>1, TimesAssumption DEF Source, TimesAssumption
  <2>2. \A t \in taken : t >= now - range => t \in raw
    BY <1>0, <2>1 DEF IInv, RawIsKept
  <2> QED
    BY <1>0, <1>1, <2>2 DEF RawAnswer
<1>2. CASE Source(range) # "raw"
  <2>1. ASSUME NEW t \in taken, t < passAt, MinuteOf(t) \in Minutes,
               MinuteLen * MinuteOf(t) >= now - range,
               MinuteLen * MinuteOf(t) >= now - RollRetention
        PROVE  MinuteOf(t) \in MinuteAnswer(range)
    <3>1. ~Expired(MinuteOf(t))
      BY <1>0, <2>1 DEF Expired, Minutes
    <3>2. HasRow(MinuteOf(t))
      BY <2>1, <3>1 DEF IInv, PassedAreRolled
    <3> QED
      BY <2>1, <3>2 DEF MinuteAnswer
  <2> QED
    BY <1>2, <2>1
<1> QED
  BY <1>1, <1>2

\* store.py:10-11, for any retentions in the order TimesAssumption gives them:
\* until the log tells of a failed pass, no sample is gone before its minute has
\* a row, and no row goes before its retention.
THEOREM NoUnloggedHole == Spec => []HolesAreLogged
BY Invariance, HolesFollow, PTL

\* plan() and history(): a range answered from the raw tier has every sample in
\* it, and a longer one every minute the last pass saw.
THEOREM ChartsAreWhole == Spec => []HistoryIsWhole
BY Invariance, HistoryFollows, PTL

\* The minutes inside the window of the last pass are averaged over all of their
\* samples, however the passes before it, the prunes and the restarts fell.
THEOREM RecentRowsAreWhole == Spec => []RecentMinutesWhole
BY Invariance, RecentFollow, PTL

-----------------------------------------------------------------------------
(* Inventory: for any containers, rounding and changes of the daemon *)

\* What a counter gained since a reading, beside what was moved since: unless it is exact
\* the reading was rounded; and between two readings, each of which may have been.
SinceReading(exact, gain, of) == 2 * gain < 2 * of + Unit /\ (exact => gain <= of)
BetweenReadings(exact, gain, of) == gain < of + Unit /\ (exact => gain <= of)

IsReading(r) == r.bytes \in Int /\ r.bytes >= -1 /\ r.true \in Nat /\ r.exact \in BOOLEAN
Holds(r, n) ==
    /\ IsReading(r) /\ r.true <= moved[n]
    /\ r.bytes # -1 => SinceReading(r.exact, total[n] - r.bytes, moved[n] - r.true)
Follows(p, r) ==
    /\ p.true <= r.true
    /\ p.bytes # -1 /\ r.bytes # -1 =>
          BetweenReadings(p.exact /\ r.exact, r.bytes - p.bytes, r.true - p.true)

Truly(rates) ==
    \A n \in DOMAIN rates :
        rates[n].bytes # -1 =>
            rates[n].bytes \in 0..(rates[n].of + IF rates[n].exact THEN 0 ELSE Unit - 1)

Counting == pass.at \in {"reading", "rates"}

DockerTypes ==
    /\ Docker!InventoryAssumption
    /\ total \in [Names -> Int] /\ moved \in [Names -> Nat] /\ \A n \in Names : total[n] >= -1
    /\ pass.at \in {"between", "reading", "rates", "rated"}
    /\ Counting => /\ pass = [at |-> pass.at, by |-> pass.by, left |-> pass.left, read |-> pass.read]
                   /\ pass.left \subseteq DOMAIN pass.read /\ DOMAIN pass.read \subseteq Names

PrevHolds == \A n \in DOMAIN prev : n \in Names /\ Holds(prev[n], n)
ReadHolds == Counting => \A n \in DOMAIN pass.read : Holds(pass.read[n], n)
ReadFollows ==
    Counting => \A n \in DOMAIN pass.read : n \in DOMAIN prev => Follows(prev[n], pass.read[n])
RatesHold ==
    /\ pass.at = "rated" => Truly(pass.made.rates) /\ DOMAIN prev = DOMAIN pass.made.rates
    /\ Truly(shown.rates)

DockerIInv == DockerTypes /\ PrevHolds /\ ReadHolds /\ ReadFollows /\ RatesHold

\* _size(): what docker prints is nearest to what it counted.
LEMMA PrintedIsNear ==
    ASSUME Docker!InventoryAssumption, NEW b \in Nat
    PROVE  /\ Docker!Printed(b) \in Nat
           /\ 2 * Docker!Printed(b) <= 2 * b + Unit /\ 2 * b < 2 * Docker!Printed(b) + Unit
<1>1. Unit \in Nat /\ Unit > 0
  BY DEF Docker!InventoryAssumption
<1> DEFINE a == 2 * b + Unit
           d == 2 * Unit
           q == a \div d
<1>2. a \in Nat /\ d \in Nat /\ d > 0
  BY <1>1
<1> HIDE DEF a, d
<1>3. q \in Nat /\ d * q <= a /\ a < d * q + d
  BY <1>2
<1> HIDE DEF q
<1>4. 2 * (q * Unit) = d * q /\ q * Unit \in Nat
  BY <1>1, <1>3 DEF d
<1>5. Docker!Printed(b) = q * Unit
  BY DEF Docker!Printed, q, a, d
<1> QED
  BY <1>1, <1>3, <1>4, <1>5 DEF a, d

\* A reading that was just made: a counter, as it is or printed, or nothing.
Fresh(r, n) ==
    /\ r.true = moved[n] /\ r.bytes \in Int /\ r.bytes >= -1 /\ r.exact \in BOOLEAN
    /\ \/ r.bytes = -1
       \/ r.bytes = total[n]
       \/ ~r.exact /\ total[n] \in Nat /\ r.bytes = Docker!Printed(total[n])

\* It holds, and follows what was read before.
LEMMA FreshHolds ==
    ASSUME DockerTypes, NEW n \in Names, NEW r, Fresh(r, n)
    PROVE  Holds(r, n) /\ \A p : Holds(p, n) => Follows(p, r)
<1>1. Unit \in Nat /\ Unit > 0 /\ moved[n] \in Nat /\ total[n] \in Int /\ total[n] >= -1
  BY DEF DockerTypes, Docker!InventoryAssumption
<1>2. CASE r.bytes = -1
  <2>1. Holds(r, n)
    BY <1>1, <1>2 DEF Fresh, Holds, IsReading
  <2>2. ASSUME NEW p, Holds(p, n) PROVE Follows(p, r)
    BY <1>1, <1>2, <2>2 DEF Fresh, Holds, Follows
  <2> QED
    BY <2>1, <2>2
<1>3. CASE r.bytes = total[n]
  <2>1. total[n] - r.bytes = 0 /\ moved[n] - r.true = 0
    BY <1>1, <1>3 DEF Fresh
  <2>2. Holds(r, n)
    BY <1>1, <1>3, <2>1 DEF Fresh, Holds, IsReading, SinceReading
  <2>3. ASSUME NEW p, Holds(p, n) PROVE Follows(p, r)
    BY <1>1, <1>3, <2>3 DEF Fresh, Holds, IsReading, Follows, SinceReading, BetweenReadings
  <2> QED
    BY <2>2, <2>3
<1>4. CASE ~r.exact /\ total[n] \in Nat /\ r.bytes = Docker!Printed(total[n])
  <2>1. /\ r.bytes \in Nat /\ 2 * r.bytes <= 2 * total[n] + Unit
        /\ 2 * total[n] < 2 * r.bytes + Unit
    BY <1>4, PrintedIsNear DEF DockerTypes
  <2>2. r.true = moved[n]
    BY DEF Fresh
  <2>3. Holds(r, n)
    <3>1. IsReading(r)
      BY <1>1, <2>2 DEF Fresh, IsReading
    <3>2. ~r.exact /\ 2 * (total[n] - r.bytes) < 2 * (moved[n] - r.true) + Unit
      BY <1>1, <1>4, <2>1, <2>2
    <3>3. SinceReading(r.exact, total[n] - r.bytes, moved[n] - r.true)
      BY <3>2 DEF SinceReading
    <3> QED
      BY <1>1, <2>2, <3>1, <3>3 DEF Holds
  <2>4. ASSUME NEW p, Holds(p, n) PROVE Follows(p, r)
    BY <1>1, <1>4, <2>1, <2>2, <2>4 DEF Holds, IsReading, Follows, SinceReading, BetweenReadings
  <2> QED
    BY <2>3, <2>4
<1> QED
  BY <1>2, <1>3, <1>4 DEF Fresh

\* Containers move bytes, start again and go: a reading still holds.
LEMMA ReadingsHold ==
    ASSUME DockerTypes, NEW n \in Names, NEW x \in Names, NEW r, Holds(r, x),
           \/ Docker!Traffic(n) \/ Docker!Turn(n, 0) \/ Docker!Turn(n, -1)
    PROVE  Holds(r, x)'
<1>1. /\ Unit \in Nat /\ Unit > 0 /\ moved[x] \in Nat /\ total[x] \in Int /\ total[x] >= -1
      /\ IsReading(r)
  BY DEF DockerTypes, Docker!InventoryAssumption, Holds
<1>2. \/ total'[x] = total[x] /\ moved'[x] = moved[x]
      \/ total'[x] = total[x] + 1 /\ moved'[x] = moved[x] + 1
      \/ total'[x] \in {0, -1} /\ moved'[x] = moved[x]
  BY DEF Docker!Traffic, Docker!Turn, DockerTypes
<1>3. CASE total'[x] = total[x] /\ moved'[x] = moved[x]
  BY <1>3 DEF Holds
<1>4. CASE total'[x] = total[x] + 1 /\ moved'[x] = moved[x] + 1
  <2>1. total'[x] - r.bytes = total[x] - r.bytes + 1 /\ moved'[x] - r.true = moved[x] - r.true + 1
    BY <1>1, <1>4 DEF IsReading
  <2> QED
    BY <1>1, <1>4, <2>1 DEF Holds, IsReading, SinceReading
<1>5. CASE total'[x] \in {0, -1} /\ moved'[x] = moved[x]
  <2> DEFINE gain == total'[x] - r.bytes
             of == moved'[x] - r.true
  <2>1. r.true <= moved'[x] /\ gain \in Int /\ of \in Int /\ of >= 0 /\ (r.bytes # -1 => gain <= 0)
    BY <1>1, <1>5 DEF Holds, IsReading
  <2> HIDE DEF gain, of
  <2>2. r.bytes # -1 => SinceReading(r.exact, gain, of)
    BY <1>1, <2>1 DEF SinceReading
  <2> QED
    BY <1>1, <2>1, <2>2 DEF Holds, IsReading, gain, of
<1> QED
  BY <1>2, <1>3, <1>4, <1>5

LEMMA ContainersKeep ==
    ASSUME DockerIInv, NEW n \in Names,
           \/ Docker!Traffic(n) \/ Docker!Turn(n, 0) \/ Docker!Turn(n, -1)
    PROVE  DockerIInv'
<1>1. UNCHANGED <<pass, prev, shown>>
  BY DEF Docker!Traffic, Docker!Turn, Docker!Happens
<1>2. DockerTypes'
  <2>1. total' \in [Names -> Int] /\ moved' \in [Names -> Nat] /\ \A x \in Names : total'[x] >= -1
    BY DEF Docker!Traffic, Docker!Turn, DockerIInv, DockerTypes
  <2> QED
    BY <1>1, <2>1 DEF DockerIInv, DockerTypes, Counting, Docker!InventoryAssumption
<1>3. DockerTypes
  BY DEF DockerIInv
<1>4. PrevHolds'
  <2> SUFFICES ASSUME NEW x \in DOMAIN prev PROVE x \in Names /\ Holds(prev[x], x)'
    BY <1>1 DEF PrevHolds, Holds
  <2>1. x \in Names /\ Holds(prev[x], x)
    BY DEF DockerIInv, PrevHolds
  <2> QED
    BY <1>1, <1>3, <2>1, ReadingsHold DEF Holds
<1>5. ReadHolds'
  <2> SUFFICES ASSUME Counting, NEW x \in DOMAIN pass.read PROVE Holds(pass.read[x], x)'
    BY <1>1 DEF ReadHolds, Counting, Holds
  <2>1. x \in Names /\ Holds(pass.read[x], x)
    BY <1>3 DEF DockerIInv, ReadHolds, DockerTypes
  <2> QED
    BY <1>1, <1>3, <2>1, ReadingsHold DEF Holds
<1>6. ReadFollows' /\ RatesHold'
  BY <1>1 DEF DockerIInv, ReadFollows, RatesHold, Counting, Follows, Truly
<1> QED
  BY <1>2, <1>4, <1>5, <1>6 DEF DockerIInv

\* The list: nothing has been read yet.
LEMMA ListingKeeps ==
    ASSUME DockerIInv, Docker!List
    PROVE  DockerIInv'
<1>1. UNCHANGED <<total, moved, prev, shown>>
  BY DEF Docker!List, Docker!World
<1>2. \/ pass' = Docker!Listed("api")
      \/ pass' = Docker!Listed("cli")
      \/ pass' = Docker!Unavailable
  BY DEF Docker!List, Docker!ListedByCli
<1>3. DockerTypes
  BY DEF DockerIInv
<1>4. PrevHolds'
  BY <1>1 DEF DockerIInv, PrevHolds, Holds
<1>5. CASE pass' = Docker!Unavailable
  <2>1. pass'.at = "rates" /\ pass'.left = {} /\ DOMAIN pass'.read = {} /\ pass'.by = "none"
    BY <1>5 DEF Docker!Unavailable
  <2>2. DockerTypes'
    <3>1. pass' = [at |-> pass'.at, by |-> pass'.by, left |-> pass'.left, read |-> pass'.read]
      BY <1>5 DEF Docker!Unavailable
    <3> QED
      BY <1>1, <1>3, <2>1, <3>1 DEF DockerTypes, Counting, Docker!InventoryAssumption
  <2> QED
    BY <1>1, <1>4, <2>1, <2>2 DEF DockerIInv, ReadHolds, ReadFollows, RatesHold, Counting, Truly
<1>6. ASSUME NEW by, pass' = Docker!Listed(by)
      PROVE  DockerIInv'
  <2>1. /\ pass'.at = "reading" /\ pass'.by = by /\ pass'.left = Docker!Live
        /\ pass'.read = [n \in Docker!Live |-> Docker!Reading(n)]
        /\ pass' = [at |-> pass'.at, by |-> pass'.by, left |-> pass'.left, read |-> pass'.read]
    BY <1>6 DEF Docker!Listed
  <2>2. Docker!Live \subseteq Names
    BY DEF Docker!Live
  <2>3. DockerTypes'
    BY <1>1, <1>3, <1>6, <2>1, <2>2 DEF DockerTypes, Counting, Docker!InventoryAssumption
  <2>4. ASSUME NEW n \in Docker!Live
        PROVE  Holds(pass'.read[n], n) /\ (n \in DOMAIN prev => Follows(prev[n], pass'.read[n]))
    <3>1. Fresh(pass'.read[n], n)
      <4>1. pass'.read[n] = [bytes |-> -1, true |-> moved[n], exact |-> TRUE]
        BY <2>1 DEF Docker!Reading, Docker!None
      <4>2. Fresh([bytes |-> -1, true |-> moved[n], exact |-> TRUE], n)
        BY DEF Fresh
      <4> QED
        BY ONLY <4>1, <4>2
    <3> QED
      BY <1>3, <2>2, <3>1, FreshHolds DEF DockerIInv, PrevHolds
  <2>5. ReadHolds' /\ ReadFollows'
    BY <1>1, <2>1, <2>4 DEF ReadHolds, ReadFollows, Counting, Holds, Follows
  <2> QED
    BY <1>1, <1>4, <2>1, <2>3, <2>5 DEF DockerIInv, RatesHold, Truly
<1> QED
  BY <1>2, <1>5, <1>6

\* Some containers are read.
LEMMA TakingKeeps ==
    ASSUME DockerIInv, pass.at = "reading", NEW some \in SUBSET pass.left, NEW bytes,
           UNCHANGED <<total, moved, prev, shown>>,
           pass' = [pass EXCEPT !.left = @ \ some,
              !.read = [n \in DOMAIN @ |->
                 IF n \in some THEN [bytes |-> bytes[n], true |-> moved[n], exact |-> pass.by = "api"]
                 ELSE @[n]]],
           \A n \in some : Fresh([bytes |-> bytes[n], true |-> moved[n], exact |-> pass.by = "api"], n)
    PROVE  DockerIInv'
<1>1. DockerTypes /\ Counting
  BY DEF DockerIInv, Counting
<1>2. pass = [at |-> pass.at, by |-> pass.by, left |-> pass.left, read |-> pass.read]
  BY <1>1 DEF DockerTypes
<1> DEFINE read == [n \in DOMAIN pass.read |->
                       IF n \in some THEN [bytes |-> bytes[n], true |-> moved[n], exact |-> pass.by = "api"]
                       ELSE pass.read[n]]
<1> DEFINE by == pass.by
           left == pass.left \ some
<1>3. pass' = [at |-> "reading", by |-> by, left |-> left, read |-> read]
  BY <1>2
<1>4. DOMAIN read = DOMAIN pass.read
  OBVIOUS
<1>5. ASSUME NEW n \in DOMAIN pass.read
      PROVE  Holds(read[n], n) /\ (n \in DOMAIN prev => Follows(prev[n], read[n]))
  <2>1. n \in Names /\ (n \in DOMAIN prev => Holds(prev[n], n))
    BY <1>1 DEF DockerTypes, DockerIInv, PrevHolds
  <2>2. CASE n \in some
    <3>1. Fresh(read[n], n)
      BY <2>2
    <3> QED
      BY <1>1, <2>1, <3>1, FreshHolds
  <2>3. CASE n \notin some
    <3>1. read[n] = pass.read[n]
      BY <2>3
    <3> QED
      BY <1>1, <3>1 DEF DockerIInv, ReadHolds, ReadFollows
  <2> QED
    BY <2>2, <2>3
<1> HIDE DEF read, by, left
<1>6. pass'.at = "reading" /\ pass'.by = by /\ pass'.left = left /\ pass'.read = read
  BY ONLY <1>3
<1>7. DockerTypes'
  BY <1>1, <1>3, <1>4, <1>6 DEF by, left, DockerTypes, Counting, Docker!InventoryAssumption
<1>8. PrevHolds' /\ RatesHold'
  BY <1>6 DEF DockerIInv, PrevHolds, RatesHold, Holds, Truly
<1>9. ReadHolds' /\ ReadFollows'
  BY <1>4, <1>5, <1>6 DEF ReadHolds, ReadFollows, Counting, Holds, Follows
<1> QED
  BY <1>7, <1>8, <1>9 DEF DockerIInv

\* A rate is what two readings that follow each other make.
LEMMA RatesKeep ==
    ASSUME DockerIInv, Docker!Rates
    PROVE  DockerIInv'
<1>1. Counting /\ DockerTypes /\ prev' = pass.read /\ UNCHANGED <<total, moved, shown>>
  BY DEF Docker!Rates, Docker!World, DockerIInv, Counting
<1>2. PICK forward \in BOOLEAN :
          pass' = [at |-> "rated",
                   made |-> [available |-> pass.by # "none", by |-> pass.by,
                             rates |-> [n \in DOMAIN pass.read |-> Docker!Rate(n, forward)]]]
  BY DEF Docker!Rates
<1> DEFINE rates == [n \in DOMAIN pass.read |-> Docker!Rate(n, forward)]
<1>3. pass'.at = "rated" /\ pass'.made.rates = rates
  BY <1>2
<1>4. DOMAIN rates = DOMAIN pass.read
  OBVIOUS
<1>5. ASSUME NEW n \in DOMAIN pass.read
      PROVE  rates[n].bytes # -1 =>
                 rates[n].bytes \in 0..(rates[n].of + IF rates[n].exact THEN 0 ELSE Unit - 1)
  <2>1. rates[n] = Docker!Rate(n, forward)
    OBVIOUS
  <2> HIDE DEF rates
  <2>2. CASE n \notin DOMAIN prev \/ ~forward
    BY <2>1, <2>2 DEF Docker!Rate, Docker!None
  <2>3. CASE n \in DOMAIN prev /\ forward
    <3> DEFINE b == prev[n].bytes
               c == pass.read[n].bytes
               of == pass.read[n].true - prev[n].true
               exact == prev[n].exact /\ pass.read[n].exact
    <3>1. rates[n].bytes = Docker!Delta(b, c) /\ rates[n].of = of /\ rates[n].exact = exact
      BY <2>1, <2>3 DEF Docker!Rate
    <3>2. b \in Int /\ c \in Int /\ of \in Int /\ of >= 0
      <4>1. IsReading(prev[n]) /\ IsReading(pass.read[n]) /\ Follows(prev[n], pass.read[n])
        BY <1>1, <2>3 DEF DockerIInv, PrevHolds, ReadHolds, ReadFollows, Holds
      <4> QED
        BY <4>1 DEF IsReading, Follows
    <3>3. b # -1 /\ c # -1 => BetweenReadings(exact, c - b, of)
      BY <1>1, <2>3 DEF DockerIInv, ReadFollows, Follows
    <3>4. Unit \in Nat /\ Unit > 0
      BY <1>1 DEF DockerTypes, Docker!InventoryAssumption
    <3> HIDE DEF b, c, of, exact
    <3>5. CASE b = -1 \/ c = -1 \/ c < b
      BY <3>1, <3>2, <3>5 DEF Docker!Delta, Docker!None
    <3>6. CASE ~(b = -1 \/ c = -1 \/ c < b)
      <4>1. rates[n].bytes = c - b
        BY <3>1, <3>6 DEF Docker!Delta, Docker!None
      <4> QED
        BY <3>1, <3>2, <3>3, <3>4, <3>6, <4>1 DEF BetweenReadings
    <3> QED
      BY <3>5, <3>6
  <2> QED
    BY <2>2, <2>3
<1> HIDE DEF rates
<1>6. DockerTypes'
  BY <1>1, <1>3 DEF DockerTypes, Counting, Docker!InventoryAssumption
<1>7. PrevHolds'
  BY <1>1 DEF DockerIInv, DockerTypes, PrevHolds, ReadHolds, Holds
<1>8. RatesHold'
  BY <1>1, <1>3, <1>4, <1>5 DEF DockerIInv, RatesHold, Truly
<1> QED
  BY <1>3, <1>6, <1>7, <1>8 DEF DockerIInv, ReadHolds, ReadFollows, Counting

LEMMA DockerStarts == Docker!InventoryAssumption /\ Docker!Init => DockerIInv
<1> SUFFICES ASSUME Docker!InventoryAssumption, Docker!Init PROVE DockerIInv
  OBVIOUS
<1>1. /\ pass.at = "between" /\ DOMAIN prev = {} /\ DOMAIN shown.rates = {}
      /\ total \in [Names -> {-1, 0}] /\ moved = [n \in Names |-> 0]
  BY DEF Docker!Init, Docker!Between, Docker!NothingShown, Docker!Gone
<1>2. total \in [Names -> Int] /\ \A n \in Names : total[n] >= -1
  BY <1>1
<1> QED
  BY <1>1, <1>2 DEF DockerIInv, DockerTypes, PrevHolds, ReadHolds, ReadFollows, RatesHold, Truly, Counting

LEMMA DockerGoes == DockerIInv /\ [Docker!Next]_Docker!vars => DockerIInv'
<1> SUFFICES ASSUME DockerIInv, [Docker!Next]_Docker!vars PROVE DockerIInv'
  OBVIOUS
<1>1. CASE UNCHANGED <<total, moved, pass, prev, shown>>
  BY <1>1 DEF DockerIInv, DockerTypes, PrevHolds, ReadHolds, ReadFollows, RatesHold, Truly, Counting,
              Holds, Follows, Docker!InventoryAssumption
<1>2. CASE Docker!ReadStats
  <2>1. PICK n \in pass.left : Docker!Take({n}, Docker!Counter) \/ Docker!Take({n}, Docker!Nothing)
    BY <1>2 DEF Docker!ReadStats
  <2>2. pass.at = "reading" /\ n \in Names /\ total[n] \in Int /\ total[n] >= -1
    BY <1>2 DEF Docker!ReadStats, DockerIInv, DockerTypes, Counting
  <2>3. CASE Docker!Take({n}, Docker!Counter)
    <3> DEFINE bytes == [x \in {n} |-> Docker!Counter(x)]
    <3>1. Fresh([bytes |-> bytes[n], true |-> moved[n], exact |-> pass.by = "api"], n)
      BY <2>2 DEF Fresh, Docker!Counter, Docker!None, Docker!Live, Docker!Gone
    <3>2. /\ UNCHANGED <<total, moved, prev, shown>>
          /\ pass' = [pass EXCEPT !.left = @ \ {n},
                !.read = [x \in DOMAIN @ |->
                   IF x \in {n} THEN [bytes |-> bytes[x], true |-> moved[x], exact |-> pass.by = "api"]
                   ELSE @[x]]]
      BY <2>3 DEF Docker!Take, Docker!World
    <3>3. {n} \in SUBSET pass.left /\ \A x \in {n} : x = n
      BY <2>1
    <3> HIDE DEF bytes
    <3> QED
      BY <2>2, <3>1, <3>2, <3>3, TakingKeeps
  <2>4. CASE Docker!Take({n}, Docker!Nothing)
    <3> DEFINE bytes == [x \in {n} |-> -1]
    <3>1. Fresh([bytes |-> bytes[n], true |-> moved[n], exact |-> pass.by = "api"], n)
      BY <2>2 DEF Fresh
    <3>2. /\ UNCHANGED <<total, moved, prev, shown>>
          /\ pass' = [pass EXCEPT !.left = @ \ {n},
                !.read = [x \in DOMAIN @ |->
                   IF x \in {n} THEN [bytes |-> bytes[x], true |-> moved[x], exact |-> pass.by = "api"]
                   ELSE @[x]]]
      BY <2>4 DEF Docker!Take, Docker!World, Docker!Nothing, Docker!None
    <3>3. {n} \in SUBSET pass.left /\ \A x \in {n} : x = n
      BY <2>1
    <3> HIDE DEF bytes
    <3> QED
      BY <2>2, <3>1, <3>2, <3>3, TakingKeeps
  <2> QED
    BY <2>1, <2>3, <2>4
<1>3. CASE Docker!ReadCliStats
  <2>1. /\ pass.at = "reading" /\ pass.by = "cli" /\ pass.left \subseteq Names
        /\ \A n \in pass.left : total[n] \in Int /\ total[n] >= -1
    BY <1>3 DEF Docker!ReadCliStats, DockerIInv, DockerTypes, Counting
  <2>2. PICK bytes :
            /\ \/ bytes = [n \in pass.left |-> IF n \in Docker!Live THEN Docker!Printed(total[n]) ELSE -1]
               \/ bytes = [n \in pass.left |-> -1]
            /\ UNCHANGED <<total, moved, prev, shown>>
            /\ pass' = [pass EXCEPT !.left = @ \ pass.left,
                  !.read = [n \in DOMAIN @ |->
                     IF n \in pass.left THEN [bytes |-> bytes[n], true |-> moved[n], exact |-> pass.by = "api"]
                     ELSE @[n]]]
    <3>1. CASE Docker!Take(pass.left, LAMBDA n : IF n \in Docker!Live THEN Docker!Printed(total[n]) ELSE -1)
      <4> DEFINE bytes == [n \in pass.left |-> IF n \in Docker!Live THEN Docker!Printed(total[n]) ELSE -1]
      <4>1. /\ UNCHANGED <<total, moved, prev, shown>>
            /\ pass' = [pass EXCEPT !.left = @ \ pass.left,
                  !.read = [n \in DOMAIN @ |->
                     IF n \in pass.left THEN [bytes |-> bytes[n], true |-> moved[n], exact |-> pass.by = "api"]
                     ELSE @[n]]]
        BY <3>1 DEF Docker!Take, Docker!World
      <4> QED
        BY <4>1
    <3>2. CASE Docker!Take(pass.left, Docker!Nothing)
      <4> DEFINE bytes == [n \in pass.left |-> -1]
      <4>1. /\ UNCHANGED <<total, moved, prev, shown>>
            /\ pass' = [pass EXCEPT !.left = @ \ pass.left,
                  !.read = [n \in DOMAIN @ |->
                     IF n \in pass.left THEN [bytes |-> bytes[n], true |-> moved[n], exact |-> pass.by = "api"]
                     ELSE @[n]]]
        BY <3>2 DEF Docker!Take, Docker!World, Docker!Nothing, Docker!None
      <4> QED
        BY <4>1
    <3> QED
      BY <1>3, <3>1, <3>2 DEF Docker!ReadCliStats, Docker!None
  <2>3. ASSUME NEW n \in pass.left PROVE Fresh([bytes |-> bytes[n], true |-> moved[n], exact |-> pass.by = "api"], n)
    <3>1. n \in Docker!Live => total[n] \in Nat
      BY <2>1 DEF Docker!Live, Docker!Gone
    <3>2. \/ bytes[n] = -1
          \/ n \in Docker!Live /\ bytes[n] = Docker!Printed(total[n])
      BY <2>2
    <3>3. total[n] \in Nat => Docker!Printed(total[n]) \in Nat
      BY PrintedIsNear DEF DockerIInv, DockerTypes
    <3> DEFINE r == [bytes |-> bytes[n], true |-> moved[n], exact |-> pass.by = "api"]
    <3>4. r.true = moved[n] /\ r.bytes = bytes[n] /\ r.exact = (pass.by = "api")
      OBVIOUS
    <3>5. r.exact \in BOOLEAN /\ ~r.exact
      BY <2>1, <3>4
    <3> HIDE DEF r
    <3>6. r.bytes \in Int /\ r.bytes >= -1
      BY <2>1, <3>1, <3>2, <3>3, <3>4
    <3>7. r.bytes = -1 \/ (total[n] \in Nat /\ r.bytes = Docker!Printed(total[n]))
      BY <3>1, <3>2, <3>4
    <3>8. Fresh(r, n)
      BY <3>4, <3>5, <3>6, <3>7 DEF Fresh
    <3> QED
      BY <3>8 DEF r
  <2> QED
    BY <2>1, <2>2, <2>3, TakingKeeps
<1>4. CASE Docker!Publish
  BY <1>4 DEF Docker!Publish, Docker!World, Docker!Between, DockerIInv, DockerTypes, PrevHolds, ReadHolds,
              ReadFollows, RatesHold, Truly, Counting, Holds, Follows, Docker!InventoryAssumption
<1>5. CASE Docker!DaemonTurns
  BY <1>1, <1>5 DEF Docker!DaemonTurns, Docker!Happens
<1>6. UNCHANGED Docker!vars => UNCHANGED <<total, moved, pass, prev, shown>>
  BY DEF Docker!vars
<1>7. ASSUME NEW n \in Names,
             Docker!Traffic(n) \/ Docker!Turn(n, 0) \/ (n \in Docker!Live /\ Docker!Turn(n, Docker!Gone))
      PROVE  DockerIInv'
  <2>1. Docker!Traffic(n) \/ Docker!Turn(n, 0) \/ Docker!Turn(n, -1)
    BY <1>7 DEF Docker!Gone
  <2> QED
    BY <2>1, ContainersKeep
<1> QED
  BY <1>1, <1>2, <1>3, <1>4, <1>5, <1>6, <1>7, ListingKeeps, RatesKeep DEF Docker!Next

\* DockerIInv holds always.
THEOREM DockerInvariance == AllSpec => [](part = "docker" => DockerIInv)
<1>1. AllInit => (part = "docker" => DockerIInv)
  BY PartsAssumption, DockerStarts DEF PartsAssumption, AllInit
<1>2. (part = "docker" => DockerIInv) /\ [AllNext]_AllVars => (part = "docker" => DockerIInv)'
  <2> SUFFICES ASSUME part = "docker" => DockerIInv, [AllNext]_AllVars, part' = "docker"
               PROVE  DockerIInv'
    OBVIOUS
  <2>1. part = "docker" /\ [Docker!Next]_Docker!vars
    BY DEF AllNext, AllVars, InStore, InDocker, InRead, InStats, DockerVars, Docker!vars
  <2> QED
    BY <2>1, DockerGoes
<1> QED
  BY <1>1, <1>2, PTL DEF AllSpec

\* _rates(): no rate is negative or says more than was moved, but for docker's rounding.
THEOREM RatesTellTheTruth == AllSpec => []RatesTellTruly
<1>1. DockerIInv => Docker!RatesTellTruly
  BY DEF DockerIInv, RatesHold, Truly, Docker!RatesTellTruly, Docker!None
<1>2. (part = "docker" => DockerIInv) => RatesTellTruly
  BY <1>1 DEF RatesTellTruly
<1> QED
  BY <1>2, DockerInvariance, PTL

-----------------------------------------------------------------------------
(* The row of a container *)

\* A container worked no longer than the host, nor since its earlier reading, which
\* counts all that it has on its counter.
RowIInv ==
    /\ cpu \in Nat /\ sys \in Nat /\ cpu <= sys
    /\ pre \subseteq [cpu : Nat, sys : Nat, since : Nat]
    /\ \A p \in pre : cpu - p.cpu <= p.since /\ p.since <= sys - p.sys
    /\ Stats!RowTellsTruly

\* The constants of a row are numbers.
LEMMA StatsNumbers ==
    /\ Cpus \in Nat \ {0} /\ MaxTime \in Nat
    /\ Memory \subseteq Nat /\ \A p \in Ports : p.private \in Nat
BY PartsAssumption DEF PartsAssumption, Stats!ContainerStatsAssumption

\* Of k parts of a whole, some of which were used, a share of them is no more than k.
LEMMA ShareOfAWhole ==
    ASSUME NEW k \in Nat, NEW used \in Nat, NEW elapsed \in Nat \ {0}, used <= elapsed
    PROVE  (used * k) \div elapsed \in 0..k
<1> DEFINE q == (used * k) \div elapsed
<1>1. used * k \in Nat /\ elapsed * k \in Nat
  OBVIOUS
<1>2. used * k <= elapsed * k
  OBVIOUS
<1>3. q \in Int /\ elapsed * q <= used * k /\ used * k < elapsed * q + elapsed
  BY <1>1
<1> HIDE DEF q
<1>4. q >= 0
  <2>1. CASE q <= -1
    <3>1. elapsed * q <= elapsed * (-1)
      BY <1>3, <2>1
    <3> QED
      BY <1>1, <1>3, <3>1
  <2> QED
    BY <1>3, <2>1
<1>5. q <= k
  <2>1. CASE q >= k + 1
    <3>1. elapsed * q >= elapsed * (k + 1) /\ elapsed * (k + 1) = elapsed * k + elapsed
      BY <1>3, <2>1
    <3> QED
      BY <1>1, <1>2, <1>3, <3>1
  <2> QED
    BY <1>3, <2>1
<1>6. q \in 0..k
  BY <1>3, <1>4, <1>5
<1> QED
  BY <1>6 DEF q

\* The larger of 0 and a number.
LEMMA NotNegative ==
    ASSUME NEW x \in Int
    PROVE  Stats!Max({0, x}) = IF x > 0 THEN x ELSE 0
<1> DEFINE S == {0, x}
           m == IF x > 0 THEN x ELSE 0
<1>1. m \in S /\ \A y \in S : m >= y
  OBVIOUS
<1>2. Stats!Max(S) \in S /\ \A y \in S : Stats!Max(S) >= y
  <2> HIDE DEF S, m
  <2> QED
    BY <1>1, Zenon DEF Stats!Max
<1> QED
  BY <1>1, <1>2

\* What is shown of the processor is of the work since the earlier reading.
LEMMA PercentIsWithin ==
    ASSUME RowIInv, NEW of, of = IF pre = {} THEN cpu ELSE (CHOOSE p \in pre : TRUE).since
    PROVE  Stats!CpuPercent \in {-1} \cup 0..100 * Cpus /\ (of = 0 => Stats!CpuPercent = -1)
<1> USE StatsNumbers
<1> DEFINE earlier == IF pre = {} THEN [cpu |-> 0, sys |-> 0] ELSE CHOOSE p \in pre : TRUE
<1>1. /\ earlier.cpu \in Nat /\ earlier.sys \in Nat /\ of \in Nat
      /\ cpu - earlier.cpu <= of /\ cpu - earlier.cpu <= sys - earlier.sys
  <2>1. CASE pre = {}
    BY <2>1 DEF RowIInv
  <2>2. CASE pre # {}
    <3>1. PICK p \in pre : p = (CHOOSE q \in pre : TRUE)
      BY <2>2
    <3>2. p.cpu \in Nat /\ p.sys \in Nat /\ p.since \in Nat /\ cpu - p.cpu <= p.since /\ p.since <= sys - p.sys
      BY <3>1 DEF RowIInv
    <3>3. earlier = p /\ of = p.since
      BY <2>2, <3>1
    <3>4. cpu \in Nat /\ sys \in Nat
      BY DEF RowIInv
    <3> HIDE DEF earlier
    <3> QED
      BY <3>2, <3>3, <3>4
  <2> QED
    BY <2>1, <2>2
<1>2. cpu \in Nat /\ sys \in Nat
  BY DEF RowIInv
<1> DEFINE used == cpu - earlier.cpu
           elapsed == sys - earlier.sys
<1>3. Stats!CpuPercent = IF used > 0 /\ elapsed > 0 THEN (used * Cpus * 100) \div elapsed ELSE -1
  BY Zenon DEF Stats!CpuPercent, Stats!Advanced, Stats!None
<1>4. used \in Int /\ elapsed \in Int /\ used <= of /\ used <= elapsed
  BY <1>1, <1>2
<1> HIDE DEF earlier, used, elapsed
<1>5. ASSUME used > 0, elapsed > 0
      PROVE  (used * Cpus * 100) \div elapsed \in 0..100 * Cpus
  <2>1. used * Cpus * 100 = used * (100 * Cpus) /\ 100 * Cpus \in Nat
    BY <1>4
  <2>2. (used * (100 * Cpus)) \div elapsed \in 0..100 * Cpus
    <3> DEFINE k == 100 * Cpus
    <3>1. k \in Nat
      BY <2>1
    <3> HIDE DEF k
    <3>2. (used * k) \div elapsed \in 0..k
      BY <1>4, <1>5, <3>1, ShareOfAWhole
    <3> QED
      BY <3>2 DEF k
  <2> QED
    BY <2>1, <2>2
<1> QED
  BY <1>1, <1>3, <1>4, <1>5

\* A row that is read tells the truth.
LEMMA RowsAreRead ==
    ASSUME RowIInv,
           NEW usage \in Memory \cup {-1, 0}, NEW v2 \in Memory \cup {-1}, NEW v1 \in Memory \cup {-1},
           NEW limit \in Memory \cup {-1}, NEW entries \in SUBSET Ports,
           Stats!Read(usage, v2, v1, limit, entries)
    PROVE  Stats!RowTellsTruly'
<1> USE StatsNumbers
<1> DEFINE used == Stats!UsedMemory(usage, v2, v1)
           of == IF pre = {} THEN cpu ELSE (CHOOSE p \in pre : TRUE).since
<1>1. /\ row'.cpu = Stats!CpuPercent /\ row'.of = of
      /\ row'.used = used /\ row'.usage = usage /\ row'.full = Stats!Percent(used, limit)
      /\ row'.api = Stats!ApiPorts(entries) /\ row'.cli = Stats!CliPorts(entries)
      /\ row'.listed = entries
  BY DEF Stats!Read
<1>2. Stats!CpuPercent \in {-1} \cup 0..100 * Cpus /\ (of = 0 => Stats!CpuPercent = -1)
  <2>1. PICK o : o = of
    OBVIOUS
  <2> HIDE DEF of
  <2> QED
    BY <2>1, PercentIsWithin DEF of
<1>3. usage # -1 => used \in 0..usage
  <2> SUFFICES ASSUME usage # -1 PROVE used \in 0..usage
    OBVIOUS
  <2> DEFINE c == IF v2 # -1 THEN v2 ELSE IF v1 # -1 THEN v1 ELSE 0
  <2>1. c \in Nat /\ usage \in Nat
    OBVIOUS
  <2>2. used = Stats!Max({0, usage - c})
    BY DEF Stats!UsedMemory, Stats!None
  <2> HIDE DEF c
  <2>3. used = IF usage - c > 0 THEN usage - c ELSE 0
    BY <2>1, <2>2, NotNegative
  <2> HIDE DEF used
  <2> QED
    BY <2>1, <2>3
<1>4. usage = -1 => used = -1 /\ Stats!Percent(used, limit) = -1
  BY DEF Stats!UsedMemory, Stats!Percent, Stats!None
<1>5. Stats!CliPorts(entries) \subseteq Stats!ApiPorts(entries)
  BY DEF Stats!CliPorts, Stats!ApiPorts
<1>6. (\A e \in entries : ~Stats!InRange(entries, e)) => Stats!CliPorts(entries) = Stats!ApiPorts(entries)
  <2> SUFFICES ASSUME \A e \in entries : ~Stats!InRange(entries, e)
               PROVE  Stats!CliPorts(entries) = Stats!ApiPorts(entries)
    OBVIOUS
  <2>1. {e \in entries : ~Stats!InRange(entries, e)} = entries
    OBVIOUS
  <2> QED
    BY <2>1 DEF Stats!CliPorts
<1>7. \A p \in Stats!ApiPorts(entries) : \E e \in entries : e.public = p.host /\ e.private = p.container
  BY DEF Stats!ApiPorts
<1> HIDE DEF used, of
<1>8. row'.cpu \in {-1} \cup 0..100 * Cpus /\ (row'.of = 0 => row'.cpu = -1)
  BY <1>1, <1>2
<1>9. /\ row'.usage # -1 => row'.used \in 0..row'.usage
      /\ row'.usage = -1 => row'.used = -1 /\ row'.full = -1
  BY <1>1, <1>3, <1>4
<1>10. /\ row'.cli \subseteq row'.api
       /\ \A p \in row'.api : \E e \in row'.listed : e.public = p.host /\ e.private = p.container
  BY <1>1, <1>5, <1>7
<1>11. (\A e \in row'.listed : ~Stats!InRange(row'.listed, e)) => row'.cli = row'.api
  BY <1>1, <1>6
<1> QED
  BY <1>8, <1>9, <1>10, <1>11 DEF Stats!RowTellsTruly, Stats!None, Stats!InRange, Stats!Follows

\* The counters start in their invariant.
LEMMA StatsStart == Stats!Init => RowIInv
<1> SUFFICES ASSUME Stats!Init PROVE RowIInv
  OBVIOUS
<1>1. sys = 0 /\ cpu = 0 /\ pre = {} /\ row = Stats!NoRow
  BY DEF Stats!Init
<1>2. Stats!RowTellsTruly
  BY <1>1 DEF Stats!NoRow, Stats!RowTellsTruly, Stats!None
<1> QED
  BY <1>1, <1>2 DEF RowIInv

\* A step of the host, of the container or of the collector leaves it.
LEMMA StatsGo == RowIInv /\ [Stats!Next]_Stats!vars => RowIInv'
<1> SUFFICES ASSUME RowIInv, [Stats!Next]_Stats!vars PROVE RowIInv'
  OBVIOUS
<1> USE StatsNumbers
<1>1. /\ cpu \in Nat /\ sys \in Nat /\ cpu <= sys
      /\ pre \subseteq [cpu : Nat, sys : Nat, since : Nat]
      /\ \A p \in pre : cpu - p.cpu <= p.since /\ p.since <= sys - p.sys
      /\ Stats!RowTellsTruly
  BY DEF RowIInv
<1>2. row' = row => Stats!RowTellsTruly'
  BY <1>1 DEF Stats!RowTellsTruly, Stats!InRange, Stats!Follows
<1>3. ASSUME NEW n \in 0..Cpus, Stats!Work(n)
      PROVE  RowIInv'
  <2>1. /\ sys' = sys + Cpus /\ cpu' = cpu + n /\ row' = row
        /\ pre' = {[p EXCEPT !.since = @ + n] : p \in pre}
    BY <1>3 DEF Stats!Work
  <2>2. ASSUME NEW o \in pre'
        PROVE  o \in [cpu : Nat, sys : Nat, since : Nat] /\ cpu' - o.cpu <= o.since /\ o.since <= sys' - o.sys
    <3>1. PICK p \in pre : o = [p EXCEPT !.since = @ + n]
      BY <2>1, <2>2
    <3>2. p \in [cpu : Nat, sys : Nat, since : Nat] /\ cpu - p.cpu <= p.since /\ p.since <= sys - p.sys
      BY <1>1
    <3>3. o \in [cpu : Nat, sys : Nat, since : Nat] /\ o.cpu = p.cpu /\ o.sys = p.sys /\ o.since = p.since + n
      BY <3>1, <3>2
    <3> QED
      BY <1>1, <2>1, <3>2, <3>3
  <2>3. cpu' \in Nat /\ sys' \in Nat /\ cpu' <= sys'
    BY <1>1, <2>1
  <2> QED
    BY <1>2, <2>1, <2>2, <2>3 DEF RowIInv
<1>4. CASE Stats!StartsAgain
  <2>1. cpu' = 0 /\ sys' = sys /\ pre' = pre /\ row' = row
    BY <1>4 DEF Stats!StartsAgain
  <2>2. \A p \in pre' : cpu' - p.cpu <= p.since /\ p.since <= sys' - p.sys
    BY <1>1, <2>1
  <2> QED
    BY <1>1, <1>2, <2>1, <2>2 DEF RowIInv
<1>5. CASE Stats!FirstReading
  <2>1. pre' = {[cpu |-> cpu, sys |-> sys, since |-> 0]} /\ cpu' = cpu /\ sys' = sys /\ row' = row
    BY <1>5 DEF Stats!FirstReading
  <2> QED
    BY <1>1, <1>2, <2>1 DEF RowIInv
<1>6. CASE Stats!ReadAny
  <2>1. PICK usage \in Memory \cup {-1, 0}, v2 \in Memory \cup {-1}, v1 \in Memory \cup {-1},
             limit \in Memory \cup {-1}, entries \in SUBSET Ports : Stats!Read(usage, v2, v1, limit, entries)
    <3>1. CASE \E usage \in Memory \cup {-1}, v2, v1, limit \in Memory \cup {-1} :
                  Stats!Read(usage, v2, v1, limit, {})
      BY <3>1
    <3>2. CASE \E entries \in SUBSET Ports : Stats!Read(0, -1, -1, -1, entries)
      BY <3>2
    <3> QED
      BY <1>6, <3>1, <3>2 DEF Stats!ReadAny, Stats!None
  <2>2. Stats!RowTellsTruly'
    BY <2>1, RowsAreRead
  <2>3. UNCHANGED <<sys, cpu, pre>>
    BY <2>1 DEF Stats!Read
  <2> QED
    BY <1>1, <2>2, <2>3 DEF RowIInv
<1>7. CASE UNCHANGED Stats!vars
  BY <1>1, <1>2, <1>7 DEF Stats!vars, RowIInv
<1> QED
  BY <1>3, <1>4, <1>5, <1>6, <1>7 DEF Stats!Next

\* RowIInv holds always.
THEOREM RowInvariance == AllSpec => [](part = "stats" => RowIInv)
<1>1. AllInit => (part = "stats" => RowIInv)
  BY StatsStart DEF AllInit
<1>2. (part = "stats" => RowIInv) /\ [AllNext]_AllVars => (part = "stats" => RowIInv)'
  <2> SUFFICES ASSUME part = "stats" => RowIInv, [AllNext]_AllVars, part' = "stats"
               PROVE  RowIInv'
    OBVIOUS
  <2>1. part = "stats" /\ [Stats!Next]_Stats!vars
    BY DEF AllNext, AllVars, InStore, InDocker, InRead, InStats, StatsVars, Stats!vars
  <2> QED
    BY <2>1, StatsGo
<1> QED
  BY <1>1, <1>2, PTL DEF AllSpec

\* _rates(), collect_docker_api(): neither a rate nor a row says more than there was.
THEOREM InventoryIsTrue == AllSpec => []InventoryTellsTruly
<1>1. (part = "stats" => RowIInv) => RowTellsTruly
  BY DEF RowIInv, RowTellsTruly
<1> QED
  BY <1>1, RowInvariance, RatesTellTheTruth, PTL DEF InventoryTellsTruly

-----------------------------------------------------------------------------
(* Collectors: for any cards, processes and bytes *)

\* How AddedUp() is computed.
Sums(f, s) == f = [i \in 0..Len(s) |-> IF i = 0 THEN 0 ELSE f[i - 1] + s[i]]

\* There is such a function: it can be built up to each place.
LEMMA SumIsComputed ==
    ASSUME NEW s \in Seq(Nat)
    PROVE  \E f : Sums(f, s)
<1> DEFINE Built(n, f) == f = [i \in 0..n |-> IF i = 0 THEN 0 ELSE f[i - 1] + s[i]]
           S == {n \in Nat : \E f : Built(n, f)}
<1>1. 0 \in S
  <2>1. Built(0, [i \in 0..0 |-> 0])
    BY SMT
  <2> QED
    BY <2>1
<1>2. ASSUME NEW n \in Nat, n \in S
      PROVE  n + 1 \in S
  <2>1. PICK f : Built(n, f)
    BY <1>2
  <2> DEFINE h == [i \in 0..n + 1 |-> IF i = n + 1 THEN f[n] + s[n + 1] ELSE f[i]]
  <2>2. \A i \in 0..n : h[i] = f[i]
    BY <1>2
  <2>3. \A i \in 0..n : h[i] = IF i = 0 THEN 0 ELSE h[i - 1] + s[i]
    <3>1. \A i \in 0..n : f[i] = IF i = 0 THEN 0 ELSE f[i - 1] + s[i]
      BY <2>1
    <3> HIDE DEF h
    <3>2. \A i \in 0..n : i # 0 => i - 1 \in 0..n
      BY <1>2
    <3> QED
      BY <2>2, <3>1, <3>2
  <2>4. h[n + 1] = h[n] + s[n + 1]
    BY <2>2, <1>2
  <2>5. \A i \in 0..n + 1 : i # n + 1 => i \in 0..n
    BY <1>2
  <2>6. h = [i \in 0..n + 1 |-> h[i]]
    OBVIOUS
  <2> HIDE DEF h
  <2>7. ASSUME NEW i \in 0..n + 1 PROVE h[i] = IF i = 0 THEN 0 ELSE h[i - 1] + s[i]
    <3>1. CASE i = n + 1
      <4>1. i # 0 /\ i - 1 = n
        BY <1>2, <3>1
      <4> QED
        BY <2>4, <3>1, <4>1
    <3>2. CASE i # n + 1
      BY <2>3, <2>5, <3>2
    <3> QED
      BY <3>1, <3>2
  <2>8. Built(n + 1, h)
    BY <2>6, <2>7
  <2> QED
    BY <2>8
<1> HIDE DEF S
<1>3. Len(s) \in S
  BY <1>1, <1>2, FromZeroOn
<1> QED
  BY <1>3 DEF S, Sums

\* AddedUp() adds the numbers of a list one by one.
LEMMA SumGoes ==
    ASSUME NEW s \in Seq(Nat)
    PROVE  \E f : /\ f[0] = 0 /\ \A i \in 0..Len(s) : f[i] \in Nat
                  /\ \A i \in 1..Len(s) : f[i] = f[i - 1] + s[i]
                  /\ Read!AddedUp(s) = f[Len(s)]
<1> DEFINE f == CHOOSE h : Sums(h, s)
<1>1. Sums(f, s)
  BY SumIsComputed
<1>2. Read!AddedUp(s) = f[Len(s)]
  BY DEF Read!AddedUp, Sums
<1> HIDE DEF f
<1>3. PICK m \in Nat : m = Len(s)
  OBVIOUS
<1>4. f[0] = 0 /\ \A i \in 1..m : f[i] = f[i - 1] + s[i]
  <2>1. \A i \in 0..m : f[i] = IF i = 0 THEN 0 ELSE f[i - 1] + s[i]
    BY <1>1, <1>3 DEF Sums
  <2> QED
    BY <1>3, <2>1
<1> DEFINE S == {n \in Nat : n <= m => f[n] \in Nat}
<1>5. 0 \in S
  BY <1>4
<1>6. ASSUME NEW n \in Nat, n \in S
      PROVE  n + 1 \in S
  <2> SUFFICES ASSUME n + 1 <= m PROVE f[n + 1] \in Nat
    OBVIOUS
  <2>1. f[n] \in Nat /\ s[n + 1] \in Nat
    BY <1>3, <1>6
  <2>2. f[n + 1] = f[n] + s[n + 1]
    <3>1. n + 1 \in 1..m /\ n + 1 - 1 = n
      BY <1>6
    <3> QED
      BY <1>4, <3>1
  <2> QED
    BY <2>1, <2>2
<1> HIDE DEF S
<1>7. \A n \in Nat : n \in S
  BY <1>5, <1>6, FromZeroOn
<1>8. \A i \in 0..m : f[i] \in Nat
  BY <1>7 DEF S
<1> QED
  BY <1>2, <1>3, <1>4, <1>8

\* A list whose entries are no more than those of another.
LEMMA SumsFit ==
    ASSUME NEW s \in Seq(Nat), NEW u \in Seq(Nat),
           Len(s) = Len(u), \A i \in 1..Len(u) : s[i] <= u[i]
    PROVE  /\ {Read!AddedUp(s), Read!AddedUp(u)} \subseteq Nat
           /\ Read!AddedUp(s) <= Read!AddedUp(u)
<1>1. PICK m \in Nat : m = Len(u)
  OBVIOUS
<1>2. PICK f : /\ f[0] = 0 /\ \A i \in 0..m : f[i] \in Nat
               /\ \A i \in 1..m : f[i] = f[i - 1] + s[i]
               /\ Read!AddedUp(s) = f[m]
  BY <1>1, SumGoes
<1>3. PICK h : /\ h[0] = 0 /\ \A i \in 0..m : h[i] \in Nat
               /\ \A i \in 1..m : h[i] = h[i - 1] + u[i]
               /\ Read!AddedUp(u) = h[m]
  BY <1>1, SumGoes
<1> DEFINE S == {n \in Nat : n <= m => f[n] <= h[n]}
<1>4. 0 \in S
  BY <1>2, <1>3
<1>5. ASSUME NEW n \in Nat, n \in S
      PROVE  n + 1 \in S
  <2> SUFFICES ASSUME n + 1 <= m PROVE f[n + 1] <= h[n + 1]
    OBVIOUS
  <2>1. n + 1 \in 1..m /\ n \in 0..m /\ n + 1 - 1 = n
    BY <1>5
  <2>2. f[n + 1] = f[n] + s[n + 1] /\ h[n + 1] = h[n] + u[n + 1]
    BY <1>2, <1>3, <2>1
  <2>3. f[n] \in Nat /\ h[n] \in Nat /\ f[n] <= h[n]
    BY <1>2, <1>3, <1>5, <2>1
  <2>4. s[n + 1] \in Nat /\ u[n + 1] \in Nat /\ s[n + 1] <= u[n + 1]
    BY <1>1, <2>1
  <2> QED
    BY <2>2, <2>3, <2>4
<1> HIDE DEF S
<1>6. m \in S
  BY <1>4, <1>5, FromZeroOn
<1>7. f[m] <= h[m]
  BY <1>6 DEF S
<1> QED
  BY <1>2, <1>3, <1>7

\* What a pass has read: no two cards have the same UUID, and a process is on one of them.
ReadTypes ==
    /\ seen.gpus \in Seq(Gpus) /\ seen.procs \in Seq(Procs)
    /\ \A i, j \in DOMAIN seen.gpus :
          i # j /\ seen.gpus[i].uuid # -1 => seen.gpus[i].uuid # seen.gpus[j].uuid
    /\ \A i \in DOMAIN seen.procs : seen.procs[i].on \in DOMAIN seen.gpus

HeldOn(gpu) ==
    [i \in 1..Len(seen.procs) |-> IF seen.procs[i].on = gpu THEN seen.procs[i].holds ELSE 0]

\* What is told of processes, and what they hold, are lists of numbers.
LEMMA MemsAreNumbers ==
    ASSUME ReadTypes, NEW P, NEW gpu
    PROVE  /\ Read!Mems(P) \in Seq(Nat) /\ Len(Read!Mems(P)) = Len(seen.procs)
           /\ \A i \in 1..Len(seen.procs) : Read!Mems(P)[i] =
                 IF i \in P /\ seen.procs[i].told THEN seen.procs[i].holds ELSE 0
           /\ HeldOn(gpu) \in Seq(Nat) /\ Len(HeldOn(gpu)) = Len(seen.procs)
           /\ \A i \in 1..Len(seen.procs) : HeldOn(gpu)[i] =
                 IF seen.procs[i].on = gpu THEN seen.procs[i].holds ELSE 0
<1>1. PICK m \in Nat : m = Len(seen.procs)
  BY DEF ReadTypes
<1>2. \A i \in 1..m : seen.procs[i].holds \in Nat
  BY <1>1, PartsAssumption DEF ReadTypes, PartsAssumption, Read!CollectorsAssumption
<1> DEFINE mem(i) == IF i \in P /\ seen.procs[i].told THEN seen.procs[i].holds ELSE 0
           held(i) == IF seen.procs[i].on = gpu THEN seen.procs[i].holds ELSE 0
<1>3. \A i \in 1..m : mem(i) \in Nat /\ held(i) \in Nat
  BY <1>2
<1>4. Read!Mems(P) = [i \in 1..m |-> mem(i)] /\ HeldOn(gpu) = [i \in 1..m |-> held(i)]
  BY <1>1 DEF Read!Mems, HeldOn
<1> HIDE DEF mem, held
<1>5. /\ Read!Mems(P) \in Seq(Nat) /\ Len(Read!Mems(P)) = m /\ \A i \in 1..m : Read!Mems(P)[i] = mem(i)
      /\ HeldOn(gpu) \in Seq(Nat) /\ Len(HeldOn(gpu)) = m /\ \A i \in 1..m : HeldOn(gpu)[i] = held(i)
  BY <1>3, <1>4
<1> QED
  BY <1>1, <1>5 DEF mem, held

\* reconcile_memory(): the processes that count on a card are on it, as no other card has
\* its UUID, or there is no other.
LEMMA OnItAreOnIt ==
    ASSUME ReadTypes, NEW gpu \in DOMAIN seen.gpus, NEW i \in Read!OnIt(gpu)
    PROVE  i \in DOMAIN seen.procs /\ seen.procs[i].on = gpu
<1>1. i \in DOMAIN seen.procs /\ seen.procs[i].on \in DOMAIN seen.gpus
  BY DEF ReadTypes, Read!OnIt, Read!ListedProcs
<1>2. \/ Read!Named(seen.procs[i]) = seen.gpus[gpu].uuid /\ seen.gpus[gpu].uuid # -1
      \/ Len(seen.gpus) = 1
  BY DEF Read!OnIt, Read!None
<1>3. CASE Read!Named(seen.procs[i]) = seen.gpus[gpu].uuid /\ seen.gpus[gpu].uuid # -1
  <2>1. seen.gpus[seen.procs[i].on].uuid = seen.gpus[gpu].uuid
    BY <1>3 DEF Read!Named, Read!None
  <2> QED
    BY <1>1, <1>3, <2>1 DEF ReadTypes
<1>4. CASE Len(seen.gpus) = 1
  <2>1. DOMAIN seen.gpus = 1..1
    BY <1>4 DEF ReadTypes
  <2> QED
    BY <1>1, <2>1
<1> QED
  BY <1>2, <1>3, <1>4

\* Where all is told they are all that are on it.
LEMMA AllAreOnIt ==
    ASSUME ReadTypes, NEW gpu \in DOMAIN seen.gpus, Read!AllIsTold(gpu), Read!ProcsOf(gpu) # {}
    PROVE  Read!OnIt(gpu) = Read!ProcsOf(gpu)
<1>1. Read!OnIt(gpu) \subseteq Read!ProcsOf(gpu)
  BY OnItAreOnIt DEF Read!ProcsOf
<1>2. Read!ProcsOf(gpu) \subseteq Read!ListedProcs
  BY DEF Read!AllIsTold
<1>3. ASSUME seen.gpus[gpu].uuid # -1, \A i \in Read!ProcsOf(gpu) : seen.procs[i].named
      PROVE  Read!ProcsOf(gpu) \subseteq Read!OnIt(gpu)
  <2>1. \A i \in Read!ProcsOf(gpu) : Read!Named(seen.procs[i]) = seen.gpus[gpu].uuid
    BY <1>3 DEF Read!Named, Read!ProcsOf
  <2>2. \E i \in Read!ListedProcs : Read!Named(seen.procs[i]) # -1
    BY <1>2, <1>3, <2>1
  <2> QED
    BY <1>2, <1>3, <2>1, <2>2 DEF Read!OnIt, Read!None
<1>4. ASSUME Len(seen.gpus) = 1, \A i \in DOMAIN seen.procs : Read!Named(seen.procs[i]) = -1
      PROVE  Read!ProcsOf(gpu) \subseteq Read!OnIt(gpu)
  BY <1>2, <1>4 DEF Read!OnIt, Read!None, Read!ListedProcs
<1> QED
  BY <1>1, <1>3, <1>4 DEF Read!AllIsTold, Read!None

\* The memory in use that a card does not report: no more than is held there, and just
\* that where all is told.
UsedFits(gpu, used) ==
    /\ used <= Read!Held(gpu)
    /\ Read!AllIsTold(gpu) /\ Read!ProcsOf(gpu) # {} => used = Read!Held(gpu)

LEMMA ReconciledFits ==
    ASSUME ReadTypes, NEW gpu \in DOMAIN seen.gpus, seen.gpus[gpu].used = -1
    PROVE  UsedFits(gpu, Read!Reconciled(gpu).used)
<1> DEFINE mems == Read!Mems(Read!OnIt(gpu))
           held == HeldOn(gpu)
<1>1. PICK m \in Nat : m = Len(seen.procs) /\ DOMAIN seen.procs = 1..m
  BY DEF ReadTypes
<1>2. mems \in Seq(Nat) /\ Len(mems) = m /\ held \in Seq(Nat) /\ Len(held) = m
  BY <1>1, MemsAreNumbers
<1>3. \A i \in 1..m : /\ mems[i] = IF i \in Read!OnIt(gpu) /\ seen.procs[i].told
                                   THEN seen.procs[i].holds ELSE 0
                      /\ held[i] = IF seen.procs[i].on = gpu THEN seen.procs[i].holds ELSE 0
  BY <1>1, MemsAreNumbers
<1>4. Read!Held(gpu) = Read!AddedUp(held)
  BY DEF Read!Held, HeldOn
<1>5. Read!Reconciled(gpu).used = IF Read!OnIt(gpu) # {} THEN Read!AddedUp(mems) ELSE -1
  BY DEF Read!Reconciled, Read!None
<1> HIDE DEF mems, held
<1>6. ASSUME NEW i \in 1..m PROVE mems[i] <= held[i]
  <2>1. mems[i] \in Nat /\ held[i] \in Nat
    BY <1>2
  <2>2. i \in Read!OnIt(gpu) => seen.procs[i].on = gpu
    BY OnItAreOnIt
  <2> QED
    BY <1>3, <2>1, <2>2
<1>7. Read!AddedUp(mems) \in Nat /\ Read!AddedUp(held) \in Nat /\ Read!AddedUp(mems) <= Read!AddedUp(held)
  BY <1>2, <1>6, SumsFit
<1>8. ASSUME Read!AllIsTold(gpu), Read!ProcsOf(gpu) # {}
      PROVE  Read!OnIt(gpu) # {} /\ mems = held
  <2>1. Read!OnIt(gpu) = Read!ProcsOf(gpu)
    BY <1>8, AllAreOnIt
  <2>2. \A i \in Read!ProcsOf(gpu) : seen.procs[i].told
    BY <1>8 DEF Read!AllIsTold
  <2>3. \A i \in 1..m : mems[i] = held[i]
    BY <1>1, <1>3, <2>1, <2>2 DEF Read!ProcsOf
  <2> QED
    BY <1>2, <1>8, <2>1, <2>3
<1> QED
  BY <1>4, <1>5, <1>7, <1>8 DEF UsedFits

\* Since the last reading the counter has gained no more than was moved, whatever
\* started again.
LastHolds ==
    /\ counter \in Nat /\ moved \in Nat
    /\ last.true \in Nat /\ last.true <= moved
    /\ last.bytes = -1 \/ (last.bytes \in Nat /\ counter - last.bytes <= moved - last.true)

\* The cards of the last pass, if there was one.
CardsHold ==
    \/ sample.gpus = <<>>
    \/ sample.gpus = [i \in DOMAIN seen.gpus |-> Read!Reconciled(i)]

ReadIInv == ReadTypes /\ LastHolds /\ CardsHold /\ sample.rate <= sample.of

LEMMA ReadStarts ==
    ASSUME Read!Init
    PROVE  ReadIInv
<1>1. counter = 0 /\ moved = 0 /\ last = Read!NoLast /\ sample = Read!NoSample /\ seen \in Read!Hosts
  BY DEF Read!Init
<1>2. ReadTypes
  <2>1. PICK n \in Nat, k \in Nat : seen.gpus \in [1..n -> Gpus] /\ seen.procs \in [1..k -> Procs]
    <3>1. seen.gpus \in Read!Lists(Gpus, MaxGpus) /\ seen.procs \in Read!Lists(Procs, MaxProcs)
      BY <1>1 DEF Read!Hosts
    <3>2. MaxGpus \in Nat /\ MaxProcs \in Nat
      BY PartsAssumption DEF PartsAssumption, Read!CollectorsAssumption
    <3>3. PICK n \in 0..MaxGpus : seen.gpus \in [1..n -> Gpus]
      BY <3>1 DEF Read!Lists
    <3>4. PICK k \in 0..MaxProcs : seen.procs \in [1..k -> Procs]
      BY <3>1 DEF Read!Lists
    <3> QED
      BY <3>2, <3>3, <3>4
  <2>2. seen.gpus \in Seq(Gpus) /\ seen.procs \in Seq(Procs)
    BY <2>1
  <2> QED
    BY <1>1, <2>2 DEF ReadTypes, Read!Hosts, Read!None
<1> QED
  BY <1>1, <1>2 DEF ReadIInv, LastHolds, CardsHold, Read!NoLast, Read!NoSample, Read!None

\* What is made of a card depends on nothing but what was read.
LEMMA ReconciledStays ==
    ASSUME seen' = seen, NEW gpu
    PROVE  Read!Reconciled(gpu)' = Read!Reconciled(gpu)
<1>1. Read!OnIt(gpu)' = Read!OnIt(gpu)
  BY DEF Read!OnIt, Read!Named, Read!ListedProcs
<1>2. Read!Mems(Read!OnIt(gpu))' = Read!Mems(Read!OnIt(gpu))
  BY <1>1 DEF Read!Mems
<1>3. Read!AddedUp(Read!Mems(Read!OnIt(gpu)))' = Read!AddedUp(Read!Mems(Read!OnIt(gpu)))
  BY <1>2
<1> QED
  BY <1>1, <1>3 DEF Read!Reconciled

\* A pass, what the host does, and counters that cannot be read.
LEMMA ReadGoes ==
    ASSUME ReadIInv, [Read!Next]_Read!vars
    PROVE  ReadIInv'
<1>1. ASSUME seen' = seen, sample'.gpus = [i \in DOMAIN seen.gpus |-> Read!Reconciled(i)]
      PROVE  ReadTypes' /\ CardsHold'
  <2>1. \A i : Read!Reconciled(i)' = Read!Reconciled(i)
    BY <1>1, ReconciledStays
  <2> QED
    BY <1>1, <2>1 DEF ReadIInv, ReadTypes, CardsHold
<1>2. CASE Read!Collect
  <2>1. counter' = counter /\ moved' = moved /\ seen' = seen
    BY <1>2 DEF Read!Collect
  <2>2. PICK bytes \in {-1, counter} :
            /\ last' = [bytes |-> bytes, true |-> moved, primed |-> TRUE]
            /\ sample' = [gpus |-> [i \in DOMAIN seen.gpus |-> Read!Reconciled(i)],
                          rate |-> IF last.primed THEN Read!Delta(last.bytes, bytes) ELSE Read!None,
                          of |-> moved - last.true]
    BY <1>2 DEF Read!Collect, Read!None
  <2>3. LastHolds'
    BY <2>1, <2>2 DEF ReadIInv, LastHolds
  <2>4. moved - last.true \in Nat /\ sample'.of = moved - last.true
    BY <2>2 DEF ReadIInv, LastHolds
  <2>5. Read!Delta(last.bytes, bytes) <= moved - last.true
    BY <2>2, <2>4 DEF Read!Delta, Read!None, ReadIInv, LastHolds
  <2>6. sample'.rate <= sample'.of
    BY <2>2, <2>4, <2>5 DEF Read!None
  <2>7. sample'.gpus = [i \in DOMAIN seen.gpus |-> Read!Reconciled(i)]
    BY <2>2
  <2> QED
    BY <1>1, <2>1, <2>3, <2>6, <2>7 DEF ReadIInv
<1>3. CASE Read!CountersRaise
  <2>1. seen' = seen /\ UNCHANGED <<counter, moved, last>>
        /\ sample' = [gpus |-> [i \in DOMAIN seen.gpus |-> Read!Reconciled(i)], rate |-> -1, of |-> 0]
    BY <1>3 DEF Read!CountersRaise, Read!None
  <2>2. LastHolds' /\ sample'.rate <= sample'.of
    BY <2>1 DEF ReadIInv, LastHolds
  <2> QED
    BY <1>1, <2>1, <2>2 DEF ReadIInv
<1>4. CASE Read!Moves \/ Read!StartsAgain \/ UNCHANGED Read!vars
  <2>1. UNCHANGED <<seen, sample>>
    BY <1>4 DEF Read!Moves, Read!StartsAgain, Read!vars
  <2>2. /\ counter' \in Nat /\ moved' \in Nat /\ last' = last
        /\ counter' - counter <= moved' - moved /\ moved <= moved'
    BY <1>4 DEF Read!Moves, Read!StartsAgain, Read!vars, LastHolds, ReadIInv
  <2>3. LastHolds'
    <3>1. LastHolds
      BY DEF ReadIInv
    <3>2. ASSUME last.bytes \in Nat
          PROVE  counter' - last.bytes <= moved' - last.true
      <4>1. counter - last.bytes <= moved - last.true
        BY <3>1, <3>2 DEF LastHolds
      <4>2. counter \in Nat /\ moved \in Nat /\ last.true \in Nat
        BY <3>1 DEF LastHolds
      <4>3. PICK a \in Nat, b \in Nat, c \in Nat, d \in Nat :
                a = counter' /\ b = moved' /\ c = last.bytes /\ d = last.true
        BY <2>2, <3>2, <4>2
      <4>4. counter - c <= moved - d /\ a - counter <= b - moved
        BY <2>2, <4>1, <4>3
      <4>5. a - c <= b - d
        BY <4>2, <4>4
      <4> QED
        BY <4>3, <4>5
    <3> QED
      BY <2>2, <3>1, <3>2 DEF LastHolds
  <2>4. ReadTypes' /\ CardsHold'
    <3>1. \A i : Read!Reconciled(i)' = Read!Reconciled(i)
      BY <2>1, ReconciledStays
    <3> QED
      BY <2>1, <3>1 DEF ReadIInv, ReadTypes, CardsHold
  <2> QED
    BY <2>1, <2>3, <2>4 DEF ReadIInv
<1> QED
  BY <1>2, <1>3, <1>4 DEF Read!Next

\* ReadIInv holds always.
THEOREM ReadInvariance == AllSpec => [](part = "read" => ReadIInv)
<1>1. AllInit => (part = "read" => ReadIInv)
  BY ReadStarts DEF AllInit
<1>2. (part = "read" => ReadIInv) /\ [AllNext]_AllVars => (part = "read" => ReadIInv)'
  <2> SUFFICES ASSUME part = "read" => ReadIInv, [AllNext]_AllVars, part' = "read"
               PROVE  ReadIInv'
    OBVIOUS
  <2>1. part = "read" /\ [Read!Next]_Read!vars
    BY DEF AllNext, AllVars, InStore, InDocker, InRead, InStats, ReadVars, Read!vars
  <2> QED
    BY <2>1, ReadGoes
<1> QED
  BY <1>1, <1>2, PTL DEF AllSpec

\* reconcile_memory() and HostCollector, for any cards, processes and limit of the list:
\* the memory in use that a card does not report is never more than its processes hold,
\* and just that when all of it is told; no rate counts bytes that were not moved.
THEOREM CollectorsAreTrue == AllSpec => []CollectorsTellTruly
<1>1. ASSUME ReadIInv PROVE Read!CollectorsTellTruly
  <2>1. ASSUME NEW gpu \in DOMAIN sample.gpus, seen.gpus[gpu].used = -1
        PROVE  UsedFits(gpu, sample.gpus[gpu].used)
    <3>1. gpu \in DOMAIN seen.gpus /\ sample.gpus[gpu] = Read!Reconciled(gpu)
      BY <1>1 DEF ReadIInv, CardsHold
    <3> QED
      BY <1>1, <2>1, <3>1, ReconciledFits DEF ReadIInv
  <2> QED
    BY <1>1, <2>1 DEF ReadIInv, Read!CollectorsTellTruly, UsedFits, Read!None
<1>2. (part = "read" => ReadIInv) => CollectorsTellTruly
  BY <1>1 DEF CollectorsTellTruly
<1> QED
  BY <1>2, ReadInvariance, PTL
===============================================================================
