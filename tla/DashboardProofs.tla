---------------------------- MODULE DashboardProofs ----------------------------
(***************************************************************************)
(* Proofs about the live stream, for any period of the process table, any  *)
(* ring, buffer and number of samples, losses and restarts, about the      *)
(* prompt feed, and about the choice of prompts.                           *)
(***************************************************************************)
EXTENDS Dashboard, SelectionProofs, FiniteSetTheorems, TLAPS

Types ==
    /\ sampler \in [at : {"waiting", "collected", "appended", "published"},
                    sample : Samples, tick : Nat, errors : Nat]
    /\ sampler.errors <= sampler.tick
    /\ state \in [ring : Seq(Nat \ {0}), latest : Samples, seq : Nat, procs : Nat]
    /\ Len(state.ring) <= RingLength
    /\ stream \in [at : {"closed", "idle", "noticed", "marked", "sampled", "read"},
                   last : Nat \cup {-1}, sample : Samples, point : Nat, sent : Nat]
    /\ wire \in Seq(Samples) /\ Len(wire) <= Buffer
    /\ page \in [at : {"asking", "answered", "open"}, now : Samples, paused : BOOLEAN,
                 shown : Samples, passed : Nat]
    /\ clock \in 0..MaxTicks

\* How far the sample in hand is published, at each place of the thread.
Published ==
    /\ sampler.sample.n <= clock /\ state.latest.n <= clock
    /\ state.latest # None => state.latest.n > 0
    /\ sampler.at # "waiting" => sampler.sample.n = clock /\ clock > 0
    /\ sampler.at \in {"waiting", "published"} => state.latest = sampler.sample
    /\ sampler.at \in {"collected", "appended"} => state.latest.n < clock
    /\ sampler.at # "appended" => (state.ring = <<>> <=> state.latest.n = 0)
    /\ sampler.at # "appended" /\ state.ring # <<>> => NewestPoint = state.latest.n
    /\ sampler.at = "appended" => state.ring # <<>> /\ NewestPoint = clock

\* What the generator has read since it noticed a number.
Noticed ==
    /\ stream.at \notin {"closed", "idle"} => state.latest.n > 0
    /\ stream.at \in {"sampled", "read"} => stream.sample.n <= state.latest.n
    /\ stream.last <= state.seq
    /\ stream.last = state.seq /\ sampler.at # "published" =>
          /\ stream.at \in {"sampled", "read"} => stream.sample.n = state.latest.n
          /\ stream.at = "idle" => stream.sent = state.latest.n

\* While collecting works the table is as old as the tick is past its period.
TableIsDue ==
    sampler.errors = 0 =>
        /\ sampler.tick > 0 => state.procs > 0 /\ clock - state.procs = (sampler.tick - 1) % Every
        /\ sampler.at # "waiting" => sampler.tick > 0 /\ sampler.sample.procs = state.procs

\* From the page back to the thread, samples only get newer.
InOrder ==
    /\ page.shown.n <= clock
    /\ page.at # "open" => page.shown.n = 0 /\ stream.at = "closed"
    /\ page.at = "answered" => page.now.n <= state.latest.n
    /\ stream.at = "closed" => wire = <<>>
    /\ state.latest.n > 0 => page.shown.n <= state.latest.n
    /\ wire # <<>> => state.latest.n > 0
    /\ \A i \in 1..Len(wire) :
          /\ page.shown.n <= wire[i].n /\ wire[i].n <= state.latest.n
          /\ \A j \in 1..Len(wire) : i < j => wire[i].n <= wire[j].n
          /\ stream.at \in {"sampled", "read"} => wire[i].n <= stream.sample.n
    /\ stream.at \in {"sampled", "read"} => page.shown.n <= stream.sample.n

IInv ==
    /\ LiveStreamAssumption
    /\ Types /\ Published /\ Noticed /\ PointNotOlder /\ InOrder
    /\ Every >= 2 => TableIsDue /\ TableIsHeld

-----------------------------------------------------------------------------
(* Helpers *)

\* What the assumption makes of the constants.
LEMMA Numbers ==
    ASSUME LiveStreamAssumption
    PROVE  /\ Every \in Nat /\ Every > 0 /\ RingLength \in Nat /\ RingLength > 0
           /\ Buffer \in Nat /\ Buffer > 0 /\ MaxTicks \in Nat
           /\ None \in Samples /\ None.n = 0 /\ None.procs = 0
BY DEF LiveStreamAssumption, None, Samples

\* The ring keeps the point that is appended, and never more than its length.
LEMMA RingKeepsNewest ==
    ASSUME LiveStreamAssumption, Types, AppendPoint, sampler.sample.n > 0
    PROVE  /\ state'.ring \in Seq(Nat \ {0}) /\ Len(state'.ring) <= RingLength
           /\ state'.ring # <<>> /\ state'.ring[Len(state'.ring)] = sampler.sample.n
           /\ state' = [state EXCEPT !.ring = state'.ring]
<1> USE Numbers
<1> DEFINE old == state.ring
           n == sampler.sample.n
           new == Append(old, n)
<1>1. old \in Seq(Nat \ {0}) /\ Len(old) \in Nat /\ Len(old) <= RingLength /\ n \in Nat \ {0}
  <2>1. sampler.sample \in Samples
    BY DEF Types
  <2>2. old \in Seq(Nat \ {0}) /\ Len(old) <= RingLength
    BY DEF Types
  <2> QED
    BY <2>1, <2>2 DEF Samples
<1>2. state' = [state EXCEPT !.ring = IF Len(new) > RingLength THEN Tail(new) ELSE new]
  BY DEF AppendPoint
<1>3. state'.ring = IF Len(new) > RingLength THEN Tail(new) ELSE new
  BY <1>2 DEF Types
<1> HIDE DEF old, n
<1>4. new \in Seq(Nat \ {0}) /\ Len(new) = Len(old) + 1 /\ new[Len(new)] = n
  BY <1>1
<1>5. CASE Len(new) > RingLength
  <2>1. /\ Tail(new) \in Seq(Nat \ {0}) /\ Len(Tail(new)) = Len(new) - 1
        /\ \A i \in 1..Len(Tail(new)) : Tail(new)[i] = new[i + 1]
    BY <1>1, <1>4, <1>5
  <2>2. Len(Tail(new)) >= 1 /\ Tail(new)[Len(Tail(new))] = n
    BY <1>1, <1>4, <1>5, <2>1
  <2>3. Tail(new) # <<>>
    BY <2>2
  <2> QED
    BY <1>1, <1>2, <1>3, <1>4, <1>5, <2>1, <2>2, <2>3 DEF n
<1>6. CASE ~(Len(new) > RingLength)
  <2>1. new # <<>>
    BY <1>1, <1>4
  <2> QED
    BY <1>1, <1>2, <1>3, <1>4, <1>6, <2>1 DEF n
<1> QED
  BY <1>5, <1>6

\* The remainder is the only one there is.
LEMMA Remainder ==
    ASSUME NEW b \in Nat, b > 0, NEW q \in Int, NEW r \in 0..(b - 1), NEW a \in Int, a = b * q + r
    PROVE  a % b = r
<1> DEFINE d == a \div b
           m == a % b
<1>2. d \in Int /\ m \in 0..(b - 1) /\ a = b * d + m
  OBVIOUS
<1> HIDE DEF d, m
<1>3. b * (q - d) = m - r
  BY <1>2
<1>4. ~(q - d >= 1)
  <2> SUFFICES ASSUME q - d >= 1
               PROVE  FALSE
    OBVIOUS
  <2>1. b * (q - d) >= b
    BY <1>2
  <2> QED
    BY <1>2, <1>3, <2>1
<1>5. ~(q - d <= -1)
  <2> SUFFICES ASSUME q - d <= -1
               PROVE  FALSE
    OBVIOUS
  <2>1. b * (q - d) <= -b
    BY <1>2
  <2> QED
    BY <1>2, <1>3, <2>1
<1>6. q = d
  BY <1>2, <1>4, <1>5
<1>7. m = r
  BY <1>2, <1>3, <1>6
<1> QED
  BY <1>7 DEF m

\* Counting on by one goes round the period.
LEMMA NextRemainder ==
    ASSUME NEW b \in Nat, b > 0, NEW a \in Int
    PROVE  /\ a % b \in 0..(b - 1)
           /\ (a + 1) % b = IF a % b = b - 1 THEN 0 ELSE (a % b) + 1
<1> DEFINE q == a \div b
           r == a % b
           next == a + 1
           one == r + 1
           more == q + 1
<1>1. q \in Int /\ r \in 0..(b - 1) /\ a = b * q + r
  OBVIOUS
<1>2. next \in Int /\ more \in Int /\ b * more = b * q + b
  BY <1>1
<1> HIDE DEF q, r
<1>3. CASE r = b - 1
  <2>1. next = b * more + 0 /\ 0 \in 0..(b - 1)
    BY <1>1, <1>2, <1>3
  <2> HIDE DEF next, more
  <2>2. next % b = 0
    BY <1>2, <2>1, Remainder
  <2> QED
    BY <1>1, <1>3, <2>2 DEF r, next
<1>4. CASE r # b - 1
  <2>1. next = b * q + one /\ one \in 0..(b - 1)
    BY <1>1, <1>4
  <2> HIDE DEF next, one
  <2>2. next % b = one
    BY <1>1, <1>2, <2>1, Remainder
  <2> QED
    BY <1>1, <1>4, <2>2 DEF r, next, one
<1> QED
  BY <1>3, <1>4

\* WantProcs(): due on the tick after a full period, and only then.
LEMMA PeriodsPass ==
    ASSUME LiveStreamAssumption, Every >= 2, NEW tick \in Nat \ {0}
    PROVE  /\ (tick - 1) % Every \in 0..(Every - 1)
           /\ WantProcs(tick + 1) => tick % Every = 0
           /\ ~WantProcs(tick + 1) => tick % Every = ((tick - 1) % Every) + 1
           /\ WantProcs(1)
<1> DEFINE before == tick - 1
<1>1. Every \in Nat /\ Every >= 2 /\ Every > 0 /\ before \in Int /\ tick \in Int /\ tick = before + 1
  BY Numbers
<1>2. /\ before % Every \in 0..(Every - 1)
      /\ (before + 1) % Every = IF before % Every = Every - 1 THEN 0 ELSE (before % Every) + 1
  <2> HIDE DEF before
  <2> QED
    BY <1>1, NextRemainder
<1>3. /\ tick % Every \in 0..(Every - 1)
      /\ (tick + 1) % Every = IF tick % Every = Every - 1 THEN 0 ELSE (tick % Every) + 1
  BY <1>1, NextRemainder
<1>4. 1 % Every = 1
  <2>1. 1 = Every * 0 + 1 /\ 1 \in 0..(Every - 1)
    BY <1>1
  <2> QED
    BY <1>1, <2>1, Remainder
<1>5. tick % Every = IF before % Every = Every - 1 THEN 0 ELSE (before % Every) + 1
  BY <1>1, <1>2
<1> DEFINE r == tick % Every
           s == (tick + 1) % Every
           m == before % Every
<1>6. /\ m \in 0..(Every - 1) /\ r \in 0..(Every - 1)
      /\ s = IF r = Every - 1 THEN 0 ELSE r + 1
      /\ r = IF m = Every - 1 THEN 0 ELSE m + 1
  BY <1>2, <1>3, <1>5
<1>7. WantProcs(tick + 1) <=> s = 1
  BY DEF WantProcs
<1> HIDE DEF r, s, m
<1>8. (s = 1 => r = 0) /\ (s # 1 => r = m + 1)
  BY <1>1, <1>6
<1> QED
  BY <1>4, <1>6, <1>7, <1>8 DEF WantProcs, r, m

\* What a tick leaves: a sample in hand with the table of its period, or one failure
\* more.
CollectedOne ==
    /\ sampler'.at = "collected" /\ sampler'.tick = sampler.tick + 1 /\ sampler'.errors = sampler.errors
    /\ sampler'.sample.n = clock + 1 /\ sampler'.sample.procs = state'.procs
    /\ state'.procs = IF WantProcs(sampler.tick + 1) THEN clock + 1 ELSE state.procs
FailedOne ==
    /\ sampler'.at = "waiting" /\ sampler'.tick = sampler.tick + 1 /\ sampler'.errors = sampler.errors + 1
    /\ sampler'.sample = sampler.sample
    /\ state'.procs = state.procs

LEMMA CollectChanges ==
    ASSUME Types, Collect
    PROVE  /\ clock' = clock + 1 /\ sampler.at = "waiting"
           /\ CollectedOne \/ FailedOne
           /\ state'.ring = state.ring /\ state'.latest = state.latest /\ state'.seq = state.seq
<1> DEFINE procs == IF WantProcs(sampler.tick + 1) THEN clock + 1 ELSE state.procs
<1>1. clock' = clock + 1 /\ sampler.at = "waiting"
  BY DEF Collect
<1>2. CASE /\ sampler' = [sampler EXCEPT !.at = "collected", !.tick = sampler.tick + 1,
                                         !.sample = [n |-> clock + 1, procs |-> procs]]
           /\ state' = [state EXCEPT !.procs = procs]
  <2>1. sampler'.at = "collected"
    BY <1>2 DEF Types
  <2>2. sampler'.tick = sampler.tick + 1
    BY <1>2 DEF Types
  <2>3. sampler'.errors = sampler.errors
    BY <1>2 DEF Types
  <2>4. sampler'.sample = [n |-> clock + 1, procs |-> procs]
    BY <1>2 DEF Types
  <2>5. /\ state'.procs = procs
        /\ state'.ring = state.ring /\ state'.latest = state.latest /\ state'.seq = state.seq
    BY <1>2 DEF Types
  <2> QED
    BY <1>1, <2>1, <2>2, <2>3, <2>4, <2>5 DEF CollectedOne
<1>3. CASE sampler' = [sampler EXCEPT !.tick = sampler.tick + 1, !.errors = @ + 1] /\ state' = state
  <2>1. sampler'.at = sampler.at
    BY <1>3 DEF Types
  <2>2. sampler'.tick = sampler.tick + 1
    BY <1>3 DEF Types
  <2>3. sampler'.errors = sampler.errors + 1
    BY <1>3 DEF Types
  <2>4. sampler'.sample = sampler.sample
    BY <1>3 DEF Types
  <2> QED
    BY <1>1, <1>3, <2>1, <2>2, <2>3, <2>4 DEF FailedOne
<1> QED
  BY <1>2, <1>3 DEF Collect

-----------------------------------------------------------------------------
(* The invariant *)

\* Each step changes some of the records, and of those the fields it names.
LEMMA TypesKept == LiveStreamAssumption /\ Types /\ Published /\ Noticed /\ [Next]_vars => Types'
<1> SUFFICES ASSUME LiveStreamAssumption, Types, Published, Noticed, [Next]_vars
             PROVE  Types'
  OBVIOUS
<1> USE Numbers
<1> DEFINE SamplerOk == sampler \in [at : {"waiting", "collected", "appended", "published"},
                                     sample : Samples, tick : Nat, errors : Nat]
                        /\ sampler.errors <= sampler.tick
           StateOk == state \in [ring : Seq(Nat \ {0}), latest : Samples, seq : Nat, procs : Nat]
                      /\ Len(state.ring) <= RingLength
           StreamOk == stream \in [at : {"closed", "idle", "noticed", "marked", "sampled", "read"},
                                   last : Nat \cup {-1}, sample : Samples, point : Nat, sent : Nat]
           WireOk == wire \in Seq(Samples) /\ Len(wire) <= Buffer
           PageOk == page \in [at : {"asking", "answered", "open"}, now : Samples, paused : BOOLEAN,
                               shown : Samples, passed : Nat]
<1>0. SamplerOk /\ StateOk /\ StreamOk /\ WireOk /\ PageOk /\ clock \in 0..MaxTicks
  BY DEF Types
<1> SUFFICES SamplerOk' /\ StateOk' /\ StreamOk' /\ WireOk' /\ PageOk' /\ clock' \in 0..MaxTicks
  BY DEF Types
<1>1. CASE Collect
  <2>1. clock' \in 0..MaxTicks /\ clock + 1 \in Nat
    BY <1>0, <1>1 DEF Collect
  <2> DEFINE procs == IF WantProcs(sampler.tick + 1) THEN clock + 1 ELSE state.procs
  <2>2. procs \in Nat /\ [n |-> clock + 1, procs |-> procs] \in Samples
    BY <1>0, <2>1 DEF Samples
  <2>3. \/ /\ sampler' = [sampler EXCEPT !.at = "collected", !.tick = sampler.tick + 1,
                                         !.sample = [n |-> clock + 1, procs |-> procs]]
           /\ state' = [state EXCEPT !.procs = procs]
        \/ sampler' = [sampler EXCEPT !.tick = sampler.tick + 1, !.errors = @ + 1] /\ state' = state
    BY <1>1 DEF Collect
  <2> HIDE DEF procs
  <2>4. SamplerOk'
    <3>1. sampler.tick \in Nat /\ sampler.errors \in Nat /\ sampler.errors <= sampler.tick
      BY <1>0
    <3>2. CASE sampler' = [sampler EXCEPT !.at = "collected", !.tick = sampler.tick + 1,
                                          !.sample = [n |-> clock + 1, procs |-> procs]]
      <4>1. sampler'.errors = sampler.errors /\ sampler'.tick = sampler.tick + 1
        BY <1>0, <3>2
      <4>2. sampler.tick + 1 \in Nat
        BY <3>1
      <4>3. sampler' \in [at : {"waiting", "collected", "appended", "published"},
                          sample : Samples, tick : Nat, errors : Nat]
        BY <1>0, <2>2, <3>2, <4>2
      <4> QED
        BY <3>1, <4>1, <4>3
    <3>3. CASE sampler' = [sampler EXCEPT !.tick = sampler.tick + 1, !.errors = @ + 1]
      <4>1. sampler'.errors = sampler.errors + 1 /\ sampler'.tick = sampler.tick + 1
        BY <1>0, <3>3
      <4>2. sampler.tick + 1 \in Nat /\ sampler.errors + 1 \in Nat
        BY <3>1
      <4>3. sampler' \in [at : {"waiting", "collected", "appended", "published"},
                          sample : Samples, tick : Nat, errors : Nat]
        BY <1>0, <3>3, <4>2
      <4> QED
        BY <3>1, <4>1, <4>3
    <3> QED
      BY <2>3, <3>2, <3>3
  <2>5. StateOk'
    BY <1>0, <2>2, <2>3
  <2> QED
    BY <1>0, <1>1, <2>1, <2>4, <2>5 DEF Collect
<1>2. CASE AppendPoint
  <2>1. sampler.sample.n > 0
    BY <1>0, <1>2 DEF AppendPoint, Writes, Published
  <2>2. StateOk'
    BY <1>0, <1>2, <2>1, RingKeepsNewest
  <2>3. SamplerOk'
    BY <1>0, <1>2 DEF AppendPoint, Writes
  <2> QED
    BY <1>0, <1>2, <2>2, <2>3 DEF AppendPoint, Writes
<1>3. CASE PublishLatest
  BY <1>0, <1>3 DEF PublishLatest, Writes
<1>4. CASE CountSample
  <2>1. state' = [state EXCEPT !.seq = state.seq + 1] /\ state.seq + 1 \in Nat
    BY <1>0, <1>4 DEF CountSample
  <2>2. StateOk'
    BY <1>0, <2>1
  <2> QED
    BY <1>0, <1>4, <2>2 DEF CountSample, Writes
<1>5. CASE Notice
  BY <1>0, <1>5 DEF Notice, Reads
<1>6. CASE Mark
  BY <1>0, <1>6 DEF Mark, Reads
<1>7. CASE ReadSample
  BY <1>0, <1>7 DEF ReadSample, Reads
<1>8. CASE Send
  <2>1. stream.sample \in Samples /\ stream.sample.n \in Nat
    BY <1>0 DEF Samples
  <2>2. StreamOk'
    BY <1>0, <1>8, <2>1 DEF Send, Reads, NotedAtFirst
  <2>3. WireOk'
    BY <1>0, <1>8, <2>1 DEF Send, HasRoom
  <2> QED
    BY <1>0, <1>8, <2>2, <2>3 DEF Send, Reads
<1>9. CASE Answer
  BY <1>0, <1>9 DEF Answer
<1>10. CASE Boot
  BY <1>0, <1>10 DEF Boot
<1>11. CASE Pause
  BY <1>0, <1>11 DEF Pause
<1>12. CASE Open
  BY <1>0, <1>12 DEF Open, Closed
<1>13. CASE Message
  <2>1. wire # <<>> /\ wire' = Tail(wire) /\ wire \in Seq(Samples) /\ Len(wire) <= Buffer
    BY <1>0, <1>13 DEF Message
  <2>3. Head(wire) \in Samples /\ WireOk'
    BY <2>1
  <2>4. Head(wire).n \in Nat
    BY <2>3 DEF Samples
  <2>2. PageOk'
    BY <1>0, <1>13, <2>3, <2>4 DEF Message
  <2> QED
    BY <1>0, <1>13, <2>2, <2>3 DEF Message
<1>14. CASE Drop
  BY <1>0, <1>14 DEF Drop, Closed
<1>15. CASE Restart
  BY <1>0, <1>15 DEF Restart, Closed, NoThread, NoState
<1>16. CASE UNCHANGED vars
  BY <1>0, <1>16 DEF vars
<1>17. CASE ReadPoint
  <2>1. state.ring \in Seq(Nat \ {0}) /\ state.ring # <<>>
    BY <1>0, <1>17 DEF ReadPoint, Reads, Noticed, Published
  <2>2. NewestPoint \in Nat
    BY <2>1 DEF NewestPoint
  <2>3. StreamOk'
    BY <1>0, <1>17, <2>2 DEF ReadPoint, Reads
  <2> QED
    BY <1>0, <1>17, <2>3 DEF ReadPoint, Reads
<1> QED
  BY <1>1, <1>2, <1>3, <1>4, <1>5, <1>6, <1>7, <1>8, <1>9, <1>10, <1>11, <1>12, <1>13, <1>14,
     <1>15, <1>16, <1>17 DEF Next, Sampler, Generator, Page

\* The ring is ahead of the latest sample by at most the sample in hand.
LEMMA PublishedKept ==
    LiveStreamAssumption /\ Types /\ Published /\ [Next]_vars => Published'
<1> SUFFICES ASSUME LiveStreamAssumption, Types, Published, [Next]_vars
             PROVE  Published'
  OBVIOUS
<1> USE Numbers
<1>0. /\ clock \in Nat /\ sampler.sample \in Samples /\ state.latest \in Samples
      /\ sampler.sample.n \in Nat /\ state.latest.n \in Nat
      /\ sampler.at \in {"waiting", "collected", "appended", "published"}
  BY DEF Types, Samples
<1>1. CASE Collect
  <2>1. clock' = clock + 1 /\ sampler.at = "waiting" /\ (CollectedOne \/ FailedOne)
    BY <1>1, CollectChanges
  <2>2. state'.ring = state.ring /\ state'.latest = state.latest
    BY <1>1, CollectChanges
  <2> QED
    BY <1>0, <2>1, <2>2 DEF CollectedOne, FailedOne, Published, NewestPoint
<1>2. CASE AppendPoint
  <2>1. sampler.at = "collected" /\ clock' = clock /\ sampler' = [sampler EXCEPT !.at = "appended"]
    BY <1>2 DEF AppendPoint, Writes
  <2>2. sampler'.at = "appended" /\ sampler'.sample = sampler.sample
    BY <2>1 DEF Types
  <2>3. sampler.sample.n = clock /\ clock > 0
    BY <2>1 DEF Published
  <2>4. state'.ring # <<>> /\ state'.ring[Len(state'.ring)] = clock /\ state'.latest = state.latest
    BY <1>0, <1>2, <2>3, RingKeepsNewest DEF Types
  <2> QED
    BY <1>0, <2>1, <2>2, <2>3, <2>4 DEF Published, NewestPoint
<1>3. CASE PublishLatest
  <2>1. /\ sampler.at = "appended" /\ clock' = clock /\ sampler' = [sampler EXCEPT !.at = "published"]
        /\ state' = [state EXCEPT !.latest = sampler.sample]
    BY <1>3 DEF PublishLatest, Writes
  <2>2. /\ sampler'.at = "published" /\ sampler'.sample = sampler.sample
        /\ state'.latest = sampler.sample /\ state'.ring = state.ring
    BY <2>1 DEF Types
  <2> QED
    BY <1>0, <2>1, <2>2 DEF Published, NewestPoint
<1>4. CASE CountSample
  <2>1. /\ sampler.at = "published" /\ clock' = clock /\ sampler' = [sampler EXCEPT !.at = "waiting"]
        /\ state' = [state EXCEPT !.seq = @ + 1]
    BY <1>4 DEF CountSample, Writes
  <2>2. /\ sampler'.at = "waiting" /\ sampler'.sample = sampler.sample
        /\ state'.latest = state.latest /\ state'.ring = state.ring
    BY <2>1 DEF Types
  <2> QED
    BY <1>0, <2>1, <2>2 DEF Published, NewestPoint
<1>5. CASE Restart
  BY <1>0, <1>5 DEF Restart, NoThread, NoState, Published
<1>6. CASE UNCHANGED <<sampler, state, clock>>
  BY <1>6 DEF Published, NewestPoint
<1> QED
  BY <1>1, <1>2, <1>3, <1>4, <1>5, <1>6
     DEF Next, Sampler, Generator, Page, Notice, Mark, ReadSample, ReadPoint, Send, Reads,
         Answer, Boot, Pause, Open, Message, Drop, vars

\* The numbers in the records.
LEMMA Fields ==
    ASSUME Types
    PROVE  /\ clock \in Nat /\ sampler.tick \in Nat /\ sampler.errors \in Nat
           /\ sampler.sample.n \in Nat /\ sampler.sample.procs \in Nat
           /\ state.latest.n \in Nat /\ state.seq \in Nat /\ state.procs \in Nat
           /\ stream.last \in Int /\ stream.sample.n \in Nat /\ stream.sent \in Nat
           /\ page.now.n \in Nat /\ page.shown.n \in Nat
<1>1. sampler.sample \in Samples /\ sampler.tick \in Nat /\ sampler.errors \in Nat /\ clock \in Nat
  BY DEF Types
<1>2. state.latest \in Samples /\ state.seq \in Nat /\ state.procs \in Nat
  BY DEF Types
<1>3. stream.last \in Int /\ stream.sample \in Samples /\ stream.sent \in Nat
  BY DEF Types
<1>4. page.now \in Samples /\ page.shown \in Samples
  BY DEF Types
<1> QED
  BY <1>1, <1>2, <1>3, <1>4 DEF Samples

\* What the other steps change, field by field.
LEMMA SamplerSteps ==
    ASSUME Types
    PROVE  /\ AppendPoint =>
                 /\ sampler.at = "collected" /\ sampler'.at = "appended"
                 /\ sampler'.sample = sampler.sample /\ sampler'.tick = sampler.tick /\ sampler'.errors = sampler.errors
                 /\ state'.latest = state.latest /\ state'.seq = state.seq /\ state'.procs = state.procs
           /\ PublishLatest =>
                 /\ sampler.at = "appended" /\ sampler'.at = "published"
                 /\ sampler'.sample = sampler.sample /\ sampler'.tick = sampler.tick /\ sampler'.errors = sampler.errors
                 /\ state'.latest = sampler.sample /\ state'.seq = state.seq /\ state'.procs = state.procs
                 /\ state'.ring = state.ring
           /\ CountSample =>
                 /\ sampler.at = "published" /\ sampler'.at = "waiting"
                 /\ sampler'.sample = sampler.sample /\ sampler'.tick = sampler.tick /\ sampler'.errors = sampler.errors
                 /\ state'.latest = state.latest /\ state'.seq = state.seq + 1 /\ state'.procs = state.procs
                 /\ state'.ring = state.ring
<1>1. ASSUME AppendPoint
      PROVE  /\ sampler.at = "collected" /\ sampler'.at = "appended"
             /\ sampler'.sample = sampler.sample /\ sampler'.tick = sampler.tick /\ sampler'.errors = sampler.errors
             /\ state'.latest = state.latest /\ state'.seq = state.seq /\ state'.procs = state.procs
  BY <1>1 DEF AppendPoint, Writes, Types
<1>2. ASSUME PublishLatest
      PROVE  /\ sampler.at = "appended" /\ sampler'.at = "published"
             /\ sampler'.sample = sampler.sample /\ sampler'.tick = sampler.tick /\ sampler'.errors = sampler.errors
             /\ state'.latest = sampler.sample /\ state'.seq = state.seq /\ state'.procs = state.procs
             /\ state'.ring = state.ring
  BY <1>2 DEF PublishLatest, Writes, Types
<1>3. ASSUME CountSample
      PROVE  /\ sampler.at = "published" /\ sampler'.at = "waiting"
             /\ sampler'.sample = sampler.sample /\ sampler'.tick = sampler.tick /\ sampler'.errors = sampler.errors
             /\ state'.latest = state.latest /\ state'.seq = state.seq + 1 /\ state'.procs = state.procs
             /\ state'.ring = state.ring
  BY <1>3 DEF CountSample, Writes, Types
<1> QED
  BY <1>1, <1>2, <1>3

\* The generator reads the number first, so a sample it reads later is no older.
LEMMA NoticedKept ==
    LiveStreamAssumption /\ Types /\ Published /\ Noticed /\ [Next]_vars => Noticed'
<1> SUFFICES ASSUME LiveStreamAssumption, Types, Published, Noticed, [Next]_vars
             PROVE  Noticed'
  OBVIOUS
<1> USE Numbers
<1>0. /\ clock \in Nat /\ sampler.sample.n \in Nat /\ state.latest.n \in Nat /\ state.seq \in Nat
      /\ stream.last \in Int /\ stream.sample.n \in Nat /\ stream.sent \in Nat
  BY Fields
<1>1. CASE Sampler
  <2>0. stream' = stream
    BY <1>1 DEF Sampler, Collect, AppendPoint, PublishLatest, CountSample, Writes
  <2>1. CASE Collect
    BY <2>0, <2>1, CollectChanges DEF CollectedOne, FailedOne, Noticed
  <2>2. CASE AppendPoint
    BY <2>0, <2>2, SamplerSteps DEF Noticed
  <2>3. CASE PublishLatest
    <3>1. state'.latest.n > state.latest.n
      BY <1>0, <2>3, SamplerSteps DEF Published
    <3>2. state'.latest.n \in Nat
      BY <1>0, <2>3, SamplerSteps
    <3> QED
      BY <1>0, <2>0, <2>3, <3>1, <3>2, SamplerSteps DEF Noticed
  <2>4. CASE CountSample
    BY <1>0, <2>0, <2>4, SamplerSteps DEF Noticed
  <2> QED
    BY <1>1, <2>1, <2>2, <2>3, <2>4 DEF Sampler
<1>2. CASE Generator
  <2>0. sampler' = sampler /\ state' = state
    BY <1>2 DEF Generator, Notice, Mark, ReadSample, ReadPoint, Send, Reads
  <2>1. CASE Notice
    <3>1. state.latest.n > 0
      BY <2>1 DEF Notice, Published
    <3>2. stream' = [stream EXCEPT !.at = "noticed"]
      BY <2>1 DEF Notice, Reads
    <3>3. stream'.at = "noticed" /\ stream'.last = stream.last
      BY <3>2 DEF Types
    <3> QED
      BY <2>0, <3>1, <3>3 DEF Noticed
  <2>2. CASE Mark
    <3>1. stream'.at = "marked" /\ stream'.last = state.seq /\ stream.at = "noticed"
      BY <2>2 DEF Mark, Reads, Types
    <3> QED
      BY <1>0, <2>0, <3>1 DEF Noticed
  <2>3. CASE ReadSample
    <3>1. stream'.at = "sampled" /\ stream'.last = stream.last /\ stream'.sample = state.latest /\ stream.at = "marked"
      BY <2>3 DEF ReadSample, Reads, Types
    <3> QED
      BY <1>0, <2>0, <3>1 DEF Noticed
  <2>4. CASE ReadPoint
    <3>1. stream'.at = "read" /\ stream'.last = stream.last /\ stream'.sample = stream.sample /\ stream.at = "sampled"
      BY <2>4 DEF ReadPoint, Reads, Types
    <3> QED
      BY <2>0, <3>1 DEF Noticed
  <2>5. CASE Send
    <3>1. /\ stream'.at = "idle" /\ stream'.last = stream.last /\ stream'.sent = stream.sample.n
          /\ stream.at = "read"
      BY <2>5 DEF Send, Reads, NotedAtFirst, Types
    <3> QED
      BY <2>0, <3>1 DEF Noticed
  <2> QED
    BY <1>2, <2>1, <2>2, <2>3, <2>4, <2>5 DEF Generator
<1>3. CASE Open
  BY <1>0, <1>3 DEF Open, Closed, Noticed
<1>4. CASE Drop
  BY <1>0, <1>4 DEF Drop, Closed, Noticed
<1>5. CASE Restart
  BY <1>5 DEF Restart, Closed, NoState, NoThread, None, Noticed
<1>6. CASE UNCHANGED <<sampler, state, stream>>
  BY <1>6 DEF Noticed
<1> QED
  BY <1>1, <1>2, <1>3, <1>4, <1>5, <1>6 DEF Next, Page, Answer, Boot, Pause, Message, vars

\* The point is read after the sample, from a ring whose end is never behind the
\* latest sample.
LEMMA PointKept ==
    LiveStreamAssumption /\ Types /\ Published /\ Noticed /\ PointNotOlder /\ [Next]_vars => PointNotOlder'
<1> SUFFICES ASSUME LiveStreamAssumption, Types, Published, Noticed, PointNotOlder, [Next]_vars,
                    stream'.at = "read"
             PROVE  stream'.point >= stream'.sample.n
  BY DEF PointNotOlder
<1>1. CASE ReadPoint
  <2>1. /\ stream.at = "sampled" /\ stream'.point = NewestPoint /\ stream'.sample = stream.sample
    BY <1>1 DEF ReadPoint, Reads, Types
  <2>2. stream.sample.n <= state.latest.n /\ state.latest.n > 0
    BY <2>1 DEF Noticed
  <2>3. /\ clock \in Nat /\ state.latest.n \in Nat /\ stream.sample.n \in Nat
        /\ sampler.at \in {"waiting", "collected", "appended", "published"}
    BY DEF Types, Samples
  <2>4. NewestPoint = state.latest.n \/ NewestPoint = clock
    BY <2>2, <2>3 DEF Published
  <2>5. state.latest.n <= clock
    BY DEF Published
  <2> QED
    BY <2>1, <2>2, <2>3, <2>4, <2>5
<1>2. CASE stream' = stream
  BY <1>2 DEF PointNotOlder
<1>3. CASE Notice \/ Mark \/ ReadSample \/ Send
  <2>1. stream'.at # "read"
    BY <1>3 DEF Notice, Mark, ReadSample, Send, Reads, Types
  <2> QED
    BY <2>1
<1>4. CASE Open \/ Drop \/ Restart
  BY <1>4 DEF Open, Drop, Restart, Closed
<1> QED
  BY <1>1, <1>2, <1>3, <1>4
     DEF Next, Sampler, Generator, Page, Collect, AppendPoint, PublishLatest, CountSample, Writes,
         Answer, Boot, Pause, Message, vars

\* Where the period is more than one tick, the table is carried forward on the ticks that
\* skip it.
LEMMA TableKept ==
    LiveStreamAssumption /\ Every >= 2 /\ Types /\ Published /\ TableIsDue /\ TableIsHeld /\ [Next]_vars
        => TableIsDue' /\ TableIsHeld'
<1> SUFFICES ASSUME LiveStreamAssumption, Every >= 2, Types, Published, TableIsDue, TableIsHeld, [Next]_vars
             PROVE  TableIsDue' /\ TableIsHeld'
  OBVIOUS
<1>0. /\ Every \in Nat /\ Every >= 2
      /\ clock \in Nat /\ sampler.sample.n \in Nat /\ sampler.sample.procs \in Nat
      /\ state.procs \in Nat /\ sampler.tick \in Nat /\ sampler.errors \in Nat
  BY Numbers, Fields
<1>1. CASE Collect
  <2>1. /\ clock' = clock + 1 /\ sampler.at = "waiting" /\ (CollectedOne \/ FailedOne)
        /\ state'.latest = state.latest
    BY <1>1, CollectChanges
  <2>2. CASE FailedOne
    <3>1. sampler'.errors # 0
      BY <1>0, <2>2 DEF FailedOne
    <3> QED
      BY <3>1 DEF TableIsDue, TableIsHeld
  <2>3. CASE CollectedOne
    <3>1. TableIsHeld'
      BY <2>1, <2>3 DEF CollectedOne, TableIsHeld
    <3>2. /\ sampler'.errors = sampler.errors /\ sampler'.tick = sampler.tick + 1
          /\ sampler'.sample.procs = state'.procs
          /\ state'.procs = IF WantProcs(sampler.tick + 1) THEN clock + 1 ELSE state.procs
      BY <2>3 DEF CollectedOne
    <3>3. ASSUME sampler.errors = 0
          PROVE  state'.procs > 0 /\ (clock + 1) - state'.procs = sampler.tick % Every
      <4>1. CASE sampler.tick = 0
        <5>1. WantProcs(1) /\ 0 % Every = 0
          BY <1>0, PeriodsPass
        <5>2. WantProcs(sampler.tick + 1)
          BY <4>1, <5>1
        <5> QED
          BY <1>0, <3>2, <4>1, <5>1, <5>2
      <4>2. CASE sampler.tick # 0
        <5>1. sampler.tick \in Nat \ {0}
          BY <1>0, <4>2
        <5>2. state.procs > 0 /\ clock - state.procs = (sampler.tick - 1) % Every
          BY <1>0, <3>3, <5>1 DEF TableIsDue
        <5>3. /\ WantProcs(sampler.tick + 1) => sampler.tick % Every = 0
              /\ ~WantProcs(sampler.tick + 1) => sampler.tick % Every = ((sampler.tick - 1) % Every) + 1
          BY <5>1, PeriodsPass
        <5>4. CASE WantProcs(sampler.tick + 1)
          BY <1>0, <3>2, <5>3, <5>4
        <5>5. CASE ~WantProcs(sampler.tick + 1)
          <6>1. state'.procs = state.procs
            BY <3>2, <5>5
          <6>2. sampler.tick % Every = (clock - state.procs) + 1
            BY <5>2, <5>3, <5>5
          <6>3. clock \in Nat /\ state.procs \in Nat /\ state.procs > 0
            BY <1>0, <5>2
          <6>4. (clock + 1) - state.procs = (clock - state.procs) + 1
            BY <6>3
          <6>5. (clock + 1) - state.procs = sampler.tick % Every
            BY <6>2, <6>4
          <6> QED
            BY <6>1, <6>3, <6>5
        <5> QED
          BY <5>4, <5>5
      <4> QED
        BY <4>1, <4>2
    <3>4. sampler'.tick > 0 /\ sampler'.tick - 1 = sampler.tick
      BY <1>0, <3>2
    <3>5. TableIsDue'
      <4>1. sampler.errors = 0 => clock' - state'.procs = (sampler'.tick - 1) % Every
        <5>1. (sampler'.tick - 1) % Every = sampler.tick % Every
          BY <3>4
        <5>2. clock' = clock + 1
          BY <2>1
        <5>3. sampler.errors = 0 => (clock + 1) - state'.procs = sampler.tick % Every
          BY <3>3
        <5> QED
          BY <5>1, <5>2, <5>3, Zenon
      <4> QED
        BY <3>2, <3>3, <3>4, <4>1 DEF TableIsDue
    <3> QED
      BY <3>1, <3>5
  <2> QED
    BY <2>1, <2>2, <2>3
<1>2. CASE AppendPoint
  BY <1>2, SamplerSteps DEF AppendPoint, Writes, TableIsDue, TableIsHeld
<1>3. CASE PublishLatest
  <2>1. clock' = clock
    BY <1>3 DEF PublishLatest, Writes
  <2>2. TableIsDue'
    BY <1>3, <2>1, SamplerSteps DEF TableIsDue
  <2>3. ASSUME sampler.errors = 0
        PROVE  /\ sampler.sample.procs > 0
               /\ sampler.sample.n - sampler.sample.procs < Every
    <3>1. sampler.at # "waiting" /\ sampler.sample.n = clock
      BY <1>3, SamplerSteps DEF Published
    <3>2. /\ sampler.tick > 0 /\ sampler.sample.procs = state.procs
          /\ state.procs > 0 /\ clock - state.procs = (sampler.tick - 1) % Every
      BY <2>3, <3>1 DEF TableIsDue
    <3>3. (sampler.tick - 1) % Every \in 0..(Every - 1)
      BY <1>0, <3>2, PeriodsPass
    <3> QED
      BY <1>0, <3>1, <3>2, <3>3
  <2>4. TableIsHeld'
    BY <1>3, <2>3, SamplerSteps DEF TableIsHeld
  <2> QED
    BY <2>2, <2>4
<1>4. CASE CountSample
  BY <1>4, SamplerSteps DEF CountSample, Writes, TableIsDue, TableIsHeld
<1>5. CASE Restart
  BY <1>5 DEF Restart, NoState, NoThread, TableIsDue, TableIsHeld
<1>6. CASE UNCHANGED <<sampler, state, clock>>
  BY <1>6 DEF TableIsDue, TableIsHeld
<1> QED
  BY <1>1, <1>2, <1>3, <1>4, <1>5, <1>6
     DEF Next, Sampler, Generator, Page, Notice, Mark, ReadSample, ReadPoint, Send, Reads,
         Answer, Boot, Pause, Open, Message, Drop, vars

\* The end of the connection at the page: the oldest message goes.
LEMMA MessageGoes ==
    ASSUME Types, Message
    PROVE  /\ Len(wire) >= 1 /\ Head(wire) = wire[1]
           /\ Len(wire') = Len(wire) - 1
           /\ \A i \in 1..Len(wire') : i + 1 \in 1..Len(wire) /\ wire'[i] = wire[i + 1]
           /\ page'.at = page.at /\ page'.now = page.now
           /\ page'.shown.n = page.shown.n \/ page'.shown.n = wire[1].n
<1>1. wire \in Seq(Samples) /\ wire # <<>> /\ wire' = Tail(wire)
  BY DEF Types, Message
<1>2. Len(wire) >= 1 /\ Head(wire) = wire[1] /\ Len(wire') = Len(wire) - 1
  BY <1>1
<1>3. \A i \in 1..Len(wire') : i + 1 \in 1..Len(wire) /\ wire'[i] = wire[i + 1]
  BY <1>1, <1>2
<1>4. page'.at = page.at /\ page'.now = page.now
  BY DEF Message, Types
<1>5. page'.shown = page.shown \/ page'.shown = Head(wire)
  BY DEF Message, Types
<1> QED
  BY <1>2, <1>3, <1>4, <1>5

\* Messages arrive in the order they were sent, of samples in the order they were
\* published, and a new connection or process starts from later ones.
LEMMA InOrderKept ==
    LiveStreamAssumption /\ Types /\ Published /\ Noticed /\ InOrder /\ [Next]_vars => InOrder'
<1> SUFFICES ASSUME LiveStreamAssumption, Types, Published, Noticed, InOrder, [Next]_vars
             PROVE  InOrder'
  OBVIOUS
<1> USE Numbers
<1>0. /\ clock \in Nat /\ sampler.sample.n \in Nat /\ state.latest.n \in Nat
      /\ stream.sample.n \in Nat /\ page.now.n \in Nat /\ page.shown.n \in Nat
      /\ Len(wire) \in Nat /\ \A i \in 1..Len(wire) : wire[i].n \in Nat
  <2>1. wire \in Seq(Samples)
    BY DEF Types
  <2>2. Len(wire) \in Nat /\ \A i \in 1..Len(wire) : wire[i] \in Samples
    BY <2>1
  <2> QED
    BY <2>2, Fields DEF Samples
<1>1. CASE Sampler
  <2>0. stream' = stream /\ wire' = wire /\ page' = page
    BY <1>1 DEF Sampler, Collect, AppendPoint, PublishLatest, CountSample, Writes
  <2>1. CASE Collect
    <3>1. clock' = clock + 1 /\ state'.latest = state.latest
      BY <2>1, CollectChanges
    <3> QED
      BY <1>0, <2>0, <3>1 DEF InOrder
  <2>2. CASE AppendPoint
    BY <2>0, <2>2, SamplerSteps DEF AppendPoint, Writes, InOrder
  <2>3. CASE PublishLatest
    <3>1. clock' = clock /\ state'.latest.n = clock /\ clock > 0 /\ state.latest.n <= clock
      BY <2>3, SamplerSteps DEF PublishLatest, Writes, Published
    <3>2. \A i \in 1..Len(wire) : wire[i].n <= state.latest.n
      BY DEF InOrder
    <3> QED
      BY <1>0, <2>0, <3>1, <3>2 DEF InOrder
  <2>4. CASE CountSample
    BY <2>0, <2>4, SamplerSteps DEF CountSample, Writes, InOrder
  <2> QED
    BY <1>1, <2>1, <2>2, <2>3, <2>4 DEF Sampler
<1>2. CASE Notice \/ Mark
  <2>1. UNCHANGED <<state, page, clock, wire>> /\ stream.at \in {"idle", "noticed"}
    BY <1>2 DEF Notice, Mark, Reads
  <2>2. stream'.at \in {"noticed", "marked"}
    BY <1>2 DEF Notice, Mark, Reads, Types
  <2> QED
    BY <2>1, <2>2 DEF InOrder
<1>3. CASE ReadSample
  <2>1. UNCHANGED <<state, page, clock, wire>> /\ stream.at = "marked"
    BY <1>3 DEF ReadSample, Reads
  <2>2. stream'.at = "sampled" /\ stream'.sample = state.latest
    BY <1>3 DEF ReadSample, Reads, Types
  <2>3. state.latest.n > 0
    BY <2>1 DEF Noticed
  <2> QED
    BY <1>0, <2>1, <2>2, <2>3 DEF InOrder
<1>4. CASE ReadPoint
  <2>1. UNCHANGED <<state, page, clock, wire>> /\ stream.at = "sampled"
    BY <1>4 DEF ReadPoint, Reads
  <2>2. stream'.at = "read" /\ stream'.sample = stream.sample
    BY <1>4 DEF ReadPoint, Reads, Types
  <2> QED
    BY <2>1, <2>2 DEF InOrder
<1>5. CASE Send
  <2>1. UNCHANGED <<state, page, clock>> /\ stream.at = "read" /\ wire' = Append(wire, stream.sample)
    BY <1>5 DEF Send, Reads
  <2>2. stream'.at = "idle"
    BY <1>5 DEF Send, Reads, Types
  <2>3. /\ Len(wire') = Len(wire) + 1 /\ wire'[Len(wire) + 1] = stream.sample
        /\ \A i \in 1..Len(wire) : wire'[i] = wire[i]
    BY <2>1 DEF Types
  <2>4. stream.sample.n <= state.latest.n /\ state.latest.n > 0
    BY <2>1 DEF Noticed
  <2>5. /\ page.shown.n <= stream.sample.n
        /\ \A i \in 1..Len(wire) : /\ page.shown.n <= wire[i].n /\ wire[i].n <= state.latest.n
                                   /\ wire[i].n <= stream.sample.n
                                   /\ \A j \in 1..Len(wire) : i < j => wire[i].n <= wire[j].n
    BY <2>1 DEF InOrder
  <2>6. \A i \in 1..Len(wire') : i \in 1..Len(wire) \/ (i = Len(wire) + 1 /\ wire'[i] = stream.sample)
    BY <1>0, <2>3
  <2>7. \A i \in 1..Len(wire') : page.shown.n <= wire'[i].n /\ wire'[i].n <= state.latest.n
    BY <2>3, <2>4, <2>5, <2>6
  <2>8. \A i, j \in 1..Len(wire') : i < j => wire'[i].n <= wire'[j].n
    BY <1>0, <2>3, <2>5, <2>6
  <2>9. page.at = "open"
    BY <2>1 DEF InOrder
  <2> QED
    BY <2>1, <2>2, <2>4, <2>7, <2>8, <2>9 DEF InOrder
<1>6. CASE Answer
  <2>1. page'.at = "answered" /\ page'.now = state.latest /\ page'.shown = page.shown /\ page.at = "asking"
    BY <1>6 DEF Answer, Types
  <2> QED
    BY <1>0, <1>6, <2>1 DEF Answer, InOrder
<1>7. CASE Boot
  <2>1. /\ page.at = "answered" /\ page'.at = "open"
        /\ page'.shown = page.shown \/ page'.shown = page.now
    BY <1>7 DEF Boot, Types
  <2>2. UNCHANGED <<state, stream, wire, clock>>
    BY <1>7 DEF Boot
  <2>3. stream.at = "closed" /\ wire = <<>> /\ page.now.n <= state.latest.n /\ page.shown.n = 0
    BY <2>1 DEF InOrder
  <2>4. state.latest.n <= clock
    BY DEF Published
  <2>5. page'.shown.n <= clock /\ (state.latest.n > 0 => page'.shown.n <= state.latest.n)
    BY <1>0, <2>1, <2>3, <2>4
  <2> QED
    BY <2>1, <2>2, <2>3, <2>5 DEF InOrder
<1>8. CASE Pause
  <2>1. page'.at = page.at /\ page'.now = page.now /\ page'.shown = page.shown
    BY <1>8 DEF Pause, Types
  <2> QED
    BY <1>8, <2>1 DEF Pause, InOrder
<1>9. CASE Open
  BY <1>9 DEF Open, BootIsOver, Closed, InOrder
<1>10. CASE Message
  <2>1. UNCHANGED <<state, stream, clock>>
    BY <1>10 DEF Message
  <2>2. /\ \A i \in 1..Len(wire') : i + 1 \in 1..Len(wire) /\ wire'[i] = wire[i + 1]
        /\ page'.at = page.at /\ page'.now = page.now
        /\ page'.shown.n = page.shown.n \/ page'.shown.n = wire[1].n
        /\ 1 \in 1..Len(wire) /\ Len(wire') \in Nat
    BY <1>0, <1>10, MessageGoes
  <2>3. /\ wire # <<>> /\ page.at = "open" /\ stream.at # "closed" /\ state.latest.n > 0
    BY <1>10 DEF Message, InOrder
  <2>4. wire[1].n \in Nat /\ wire[1].n <= state.latest.n /\ page.shown.n <= wire[1].n
    BY <1>0, <2>2 DEF InOrder
  <2>5. page'.shown.n <= wire[1].n /\ page'.shown.n \in Nat
    BY <1>0, <2>2, <2>4
  <2>6. \A i \in 1..Len(wire') : page'.shown.n <= wire'[i].n /\ wire'[i].n <= state.latest.n
    <3> TAKE i \in 1..Len(wire')
    <3>1. i + 1 \in 1..Len(wire) /\ 1 < i + 1 /\ wire'[i] = wire[i + 1]
      BY <2>2
    <3>2. wire[1].n <= wire[i + 1].n /\ wire[i + 1].n <= state.latest.n
      BY <2>2, <3>1 DEF InOrder
    <3> QED
      BY <1>0, <2>4, <2>5, <3>1, <3>2
  <2>7. \A i, j \in 1..Len(wire') : i < j => wire'[i].n <= wire'[j].n
    <3> TAKE i, j \in 1..Len(wire')
    <3>1. i + 1 \in 1..Len(wire) /\ j + 1 \in 1..Len(wire) /\ (i < j => i + 1 < j + 1)
      BY <2>2
    <3> QED
      BY <2>2, <3>1 DEF InOrder
  <2>8. stream.at \in {"sampled", "read"} => \A i \in 1..Len(wire') : wire'[i].n <= stream.sample.n
    BY <2>2 DEF InOrder
  <2>9. stream.at \in {"sampled", "read"} => page'.shown.n <= stream.sample.n
    BY <2>2 DEF InOrder
  <2>10. page'.shown.n <= clock /\ page'.shown.n <= state.latest.n
    BY <1>0, <2>1, <2>4, <2>5 DEF Published
  <2> QED
    BY <2>1, <2>2, <2>3, <2>6, <2>7, <2>8, <2>9, <2>10 DEF InOrder
<1>11. CASE Drop
  BY <1>11 DEF Drop, Closed, InOrder
<1>12. CASE Restart
  BY <1>12 DEF Restart, Closed, NoState, None, InOrder
<1>13. CASE UNCHANGED vars
  BY <1>13 DEF vars, InOrder
<1> QED
  BY <1>1, <1>2, <1>3, <1>4, <1>5, <1>6, <1>7, <1>8, <1>9, <1>10, <1>11, <1>12, <1>13
     DEF Next, Generator, Page

\* Nothing collected, nothing shown.
LEMMA InitHolds == LiveStreamAssumption /\ Init => IInv
<1> SUFFICES ASSUME LiveStreamAssumption, Init
             PROVE  IInv
  OBVIOUS
<1> USE Numbers DEF Init
<1>1. Types
  <2>1. sampler \in [at : {"waiting", "collected", "appended", "published"},
                     sample : Samples, tick : Nat, errors : Nat] /\ sampler.errors <= sampler.tick
    BY DEF NoThread
  <2>2. state \in [ring : Seq(Nat \ {0}), latest : Samples, seq : Nat, procs : Nat] /\ Len(state.ring) <= RingLength
    BY DEF NoState
  <2>3. stream \in [at : {"closed", "idle", "noticed", "marked", "sampled", "read"},
                    last : Nat \cup {-1}, sample : Samples, point : Nat, sent : Nat]
    BY DEF Closed
  <2>4. page \in [at : {"asking", "answered", "open"}, now : Samples, paused : BOOLEAN,
                  shown : Samples, passed : Nat]
    OBVIOUS
  <2> QED
    BY <2>1, <2>2, <2>3, <2>4 DEF Types
<1>2. Published /\ Noticed /\ PointNotOlder
  BY DEF NoThread, NoState, Closed, Published, Noticed, PointNotOlder
<1>3. TableIsDue /\ TableIsHeld /\ InOrder
  BY DEF NoThread, NoState, Closed, TableIsDue, TableIsHeld, InOrder
<1> QED
  BY <1>1, <1>2, <1>3 DEF IInv

\* The parts of the invariant keep one another.
LEMMA NextKeeps == IInv /\ [Next]_vars => IInv'
BY TypesKept, PublishedKept, NoticedKept, PointKept, TableKept, InOrderKept DEF IInv, LiveStreamAssumption

\* The thread, the generator and the page keep in step without a lock.
THEOREM Invariance == Spec => []IInv
<1>1. Init => IInv
  BY LiveStreamAssumption, InitHolds
<1> QED
  BY <1>1, NextKeeps, PTL DEF Spec

-----------------------------------------------------------------------------
(* What the dashboard may count on *)

\* A generator at rest has sent what it noticed.
LEMMA WholeFollows == IInv => SamplesAreWhole
<1> SUFFICES ASSUME IInv
             PROVE  SamplesAreWhole
  OBVIOUS
<1>1. TypeOK
  BY DEF IInv, Types, TypeOK
<1>2. NothingMissed
  BY DEF IInv, Noticed, NothingMissed
<1> QED
  BY <1>1, <1>2 DEF IInv, SamplesAreWhole

\* gen() and sampler(): whatever the thread writes between the generator's reads, a
\* message has a point and one not older than its sample, a generator at rest has
\* sent the last sample, and while collecting works and the period is of two ticks or more
\* every sample carries a table younger than a period.
THEOREM SamplesStayWhole == Spec => []SamplesAreWhole
BY Invariance, WholeFollows, PTL

\* boot() shows its sample before the stream is opened; a message is never older than
\* the sample shown.
LEMMA NotBack == IInv /\ [Next]_vars => [page'.shown.n >= page.shown.n]_vars
<1> SUFFICES ASSUME IInv, Next
             PROVE  page'.shown.n >= page.shown.n
  OBVIOUS
<1>0. Types /\ page.shown.n \in Nat /\ page.now.n \in Nat
  BY Fields DEF IInv
<1>1. CASE Boot
  <2>1. page.shown.n = 0
    BY <1>1 DEF Boot, IInv, InOrder
  <2>2. page'.shown = page.shown \/ page'.shown = page.now
    BY <1>0, <1>1 DEF Boot, Types
  <2> QED
    BY <1>0, <2>1, <2>2
<1>2. CASE Message
  <2>1. 1 \in 1..Len(wire) /\ (page'.shown.n = page.shown.n \/ page'.shown.n = wire[1].n)
    <3>1. Len(wire) \in Nat
      BY <1>0 DEF Types
    <3> QED
      BY <1>0, <1>2, <3>1, MessageGoes
  <2>2. page.shown.n <= wire[1].n /\ wire[1].n \in Nat
    <3>1. wire[1] \in Samples
      BY <1>0, <2>1 DEF Types
    <3> QED
      BY <2>1, <3>1 DEF IInv, InOrder, Samples
  <2> QED
    BY <1>0, <2>1, <2>2
<1>3. CASE page'.shown = page.shown
  BY <1>0, <1>3
<1>4. Answer \/ Pause => page'.shown = page.shown
  BY <1>0 DEF Answer, Pause, Types
<1> QED
  BY <1>1, <1>2, <1>3, <1>4
     DEF Next, Sampler, Generator, Page, Collect, AppendPoint, PublishLatest, CountSample, Writes,
         Notice, Mark, ReadSample, ReadPoint, Send, Reads, Open, Drop, Restart

\* boot(), onmessage and EventSource: the readouts never go back in time, over pauses,
\* lost connections and restarts of the server.
THEOREM ReadoutsGoForward == Spec => NeverGoesBack
BY Invariance, NotBack, PTL DEF Spec, NeverGoesBack

-----------------------------------------------------------------------------
(* The prompt feed *)

AllModels == Models \cup {ClassifyModel}
FeedEvents == [run : Nat, seq : Nat, label : Categories, model : AllModels]
\* One behind the other, by their numbers.
Rising(s) == \A i, j \in 1..Len(s) : i < j => s[i].seq < s[j].seq

\* The events of one run of the service, up to the number seq.
OfThisRun(s, now, seq) ==
    /\ s \in Seq(FeedEvents)
    /\ Rising(s)
    /\ \A i \in 1..Len(s) : s[i].run = now /\ s[i].seq <= seq

FeedCalls ==
    {r \in [model : AllModels, task : {"waiting", "asking", "retrying", "over"},
            kept : BOOLEAN, field : BOOLEAN] :
        r.kept => r.task = "over"}
FeedPolls == [at : {"none", "asked", "answered"}, after : Nat, got : Seq(FeedEvents)]
Feeds == [events : Seq(FeedEvents), seq : Nat, counts : [Categories -> Nat]]

FeedTypes ==
    /\ picky \in BOOLEAN /\ sendField \in BOOLEAN /\ run \in 0..MaxRestarts
    /\ calls \in Seq(FeedCalls)
    /\ feed \in Feeds
    /\ Len(feed.events) <= FeedLength
    /\ screen \in [seen : Nat, shown : Seq(FeedEvents), stale : Nat]
    /\ polls \in [Polls -> FeedPolls]

\* The ring and what was read from it are of the run that is on; what is shown is of
\* this run and the earlier ones, and nothing is shown beyond the number seen.
FeedInOrder ==
    /\ OfThisRun(feed.events, run, feed.seq)
    /\ \A p \in Polls : OfThisRun(polls[p].got, run, feed.seq)
    /\ Rising(screen.shown)
    /\ \A i \in 1..Len(screen.shown) : screen.shown[i].seq <= screen.seen /\ screen.shown[i].run <= run
    /\ \A i, j \in 1..Len(screen.shown) : i < j => screen.shown[i].run <= screen.shown[j].run

\* The models of the calls whose label was kept; no event names another.
KeptModels == {calls[c].model : c \in {k \in Feed!Calls : calls[k].kept}}
NamedIn(s, models) == \A i \in 1..Len(s) : s[i].model \in models
FeedIsNamed ==
    /\ NamedIn(feed.events, KeptModels) /\ NamedIn(screen.shown, KeptModels)
    /\ \A p \in Polls : NamedIn(polls[p].got, KeptModels)

FeedIInv ==
    /\ Feed!PromptFeedAssumption
    /\ FeedTypes
    /\ IsFiniteSet(Feed!Asking) /\ Cardinality(Feed!Asking) <= MaxConcurrent
    /\ FeedInOrder
    /\ FeedIsNamed

\* Every entry of one list is an entry of the other.
OutOf(t, s) == \A k \in 1..Len(t) : \E i \in 1..Len(s) : t[k] = s[i]

\* A list comprehension keeps the order.
LEMMA AfterRises ==
    ASSUME NEW s, NEW now, NEW seq, OfThisRun(s, now, seq), NEW n
    PROVE  /\ OfThisRun(Feed!After(s, n), now, seq)
           /\ \A i \in 1..Len(Feed!After(s, n)) : Feed!After(s, n)[i].seq > n
           /\ OutOf(Feed!After(s, n), s)
<1> DEFINE T == {e \in Feed!ToSet(s) : e.seq > n}
           r == Selected(s, T)
<1>1. Feed!After(s, n) = r
  BY Zenon DEF Feed!After, Feed!Selected, Selected
<1>2. s \in Seq(FeedEvents)
  BY DEF OfThisRun
<1>3. PICK g : Selects(s, T, Len(s), r, g)
  BY <1>2, SelectedSelects
<1>4. r \in Seq(FeedEvents)
  BY <1>2, SelectedSelects
<1> HIDE DEF r, T
<1>5. g \in [1..Len(r) -> 1..Len(s)] /\ \A k \in 1..Len(r) : r[k] = s[g[k]] /\ r[k] \in T
  BY <1>3 DEF Selects
<1>6. \A k \in 1..Len(r) : g[k] \in 1..Len(s)
  BY <1>5
<1>7. \A k \in 1..Len(r) : r[k].run = now /\ r[k].seq <= seq
  BY <1>5, <1>6 DEF OfThisRun
<1>8. \A j, k \in 1..Len(r) : j < k => g[j] < g[k]
  BY <1>3 DEF Selects
<1>9. Rising(r)
  BY <1>5, <1>6, <1>8 DEF OfThisRun, Rising
<1>10. \A k \in 1..Len(r) : r[k].seq > n
  BY <1>5 DEF T
<1>11. OutOf(r, s)
  BY <1>5, <1>6 DEF OutOf
<1> QED
  BY <1>1, <1>4, <1>7, <1>9, <1>10, <1>11 DEF OfThisRun

\* recent() returns the last of the events after a number.
LEMMA RecentRises ==
    ASSUME FeedIInv, NEW n \in Nat
    PROVE  OfThisRun(Feed!Recent(n), run, feed.seq) /\ OutOf(Feed!Recent(n), feed.events)
<1> DEFINE s == Feed!After(feed.events, n)
           m == Len(s) - RecentLimit
<1>1. OfThisRun(s, run, feed.seq) /\ OutOf(s, feed.events)
  BY AfterRises DEF FeedIInv, FeedInOrder
<1>2. Feed!Recent(n) = IF Len(s) > RecentLimit THEN SubSeq(s, m + 1, Len(s)) ELSE s
  BY DEF Feed!Recent, Feed!LastOf
<1> HIDE DEF s
<1>3. s \in Seq(FeedEvents) /\ Len(s) \in Nat /\ RecentLimit \in Nat \ {0}
  BY <1>1 DEF OfThisRun, FeedIInv, Feed!PromptFeedAssumption
<1>4. CASE Len(s) > RecentLimit
  <2> DEFINE t == SubSeq(s, m + 1, Len(s))
  <2>1. t \in Seq(FeedEvents) /\ Len(t) = RecentLimit
    BY <1>3, <1>4
  <2>2. \A i \in 1..Len(t) : t[i] = s[m + i] /\ m + i \in 1..Len(s)
    BY <1>3, <1>4
  <2> HIDE DEF t
  <2>3. \A i \in 1..Len(t) : t[i].run = run /\ t[i].seq <= feed.seq
    BY <1>1, <2>2 DEF OfThisRun
  <2>4. \A i, j \in 1..Len(t) : i < j => m + i < m + j
    BY <1>3, <2>1
  <2>5. Rising(t)
    <3>1. Rising(s)
      BY <1>1 DEF OfThisRun
    <3> QED
      BY <2>2, <2>4, <3>1 DEF Rising
  <2>6. OutOf(t, feed.events)
    BY <1>1, <2>2 DEF OutOf
  <2>7. OfThisRun(t, run, feed.seq)
    BY <2>1, <2>3, <2>5 DEF OfThisRun
  <2> QED
    BY <1>2, <1>4, <2>6, <2>7 DEF t
<1>5. CASE ~(Len(s) > RecentLimit)
  BY <1>1, <1>2, <1>5
<1> QED
  BY <1>4, <1>5

\* PromptFeed.add() puts the next number behind the others.
LEMMA AddedRises ==
    ASSUME FeedIInv, NEW label \in Categories, NEW model \in AllModels
    PROVE  /\ Feed!Added(label, model) \in Feeds
           /\ Feed!Added(label, model).seq = feed.seq + 1
           /\ Len(Feed!Added(label, model).events) <= FeedLength
           /\ OfThisRun(Feed!Added(label, model).events, run, feed.seq + 1)
           /\ \A models : NamedIn(feed.events, models) /\ model \in models
                 => NamedIn(Feed!Added(label, model).events, models)
<1> DEFINE e == [run |-> run, seq |-> feed.seq + 1, label |-> label, model |-> model]
           s == Append(feed.events, e)
           t == IF Len(s) > FeedLength THEN Tail(s) ELSE s
           counts == [feed.counts EXCEPT ![label] = @ + 1]
<1>1. Feed!Added(label, model) = [events |-> t, seq |-> feed.seq + 1, counts |-> counts]
  BY DEF Feed!Added
<1>2. /\ run \in Nat /\ feed.seq \in Nat /\ e \in FeedEvents /\ FeedLength \in Nat \ {0}
      /\ feed.events \in Seq(FeedEvents) /\ feed.counts \in [Categories -> Nat]
      /\ Len(feed.events) <= FeedLength
  BY DEF FeedIInv, FeedTypes, Feeds, FeedEvents, Feed!PromptFeedAssumption
<1>3. counts \in [Categories -> Nat]
  BY <1>2
<1>4. s \in Seq(FeedEvents) /\ Len(s) = Len(feed.events) + 1
  BY <1>2
<1>5. \A i \in 1..Len(s) : s[i] = IF i <= Len(feed.events) THEN feed.events[i] ELSE e
  BY <1>2, <1>4
<1>6. OfThisRun(s, run, feed.seq + 1)
  <2>1. \A i \in 1..Len(feed.events) : feed.events[i].run = run /\ feed.events[i].seq <= feed.seq
                                       /\ feed.events[i].seq \in Nat
    <3>1. \A i \in 1..Len(feed.events) : feed.events[i] \in FeedEvents
      BY <1>2
    <3> QED
      BY <3>1 DEF FeedIInv, FeedInOrder, OfThisRun, FeedEvents
  <2>2. \A i \in 1..Len(s) : s[i].run = run /\ s[i].seq <= feed.seq + 1
    BY <1>2, <1>4, <1>5, <2>1
  <2>3. Rising(s)
    <3>1. Rising(feed.events)
      BY DEF FeedIInv, FeedInOrder, OfThisRun
    <3>2. ASSUME NEW i \in 1..Len(s), NEW j \in 1..Len(s), i < j
          PROVE  s[i].seq < s[j].seq
      <4>1. i \in 1..Len(feed.events) /\ s[i] = feed.events[i]
        BY <1>2, <1>4, <1>5, <3>2
      <4>2. CASE j \in 1..Len(feed.events)
        BY <1>2, <1>5, <3>1, <3>2, <4>1, <4>2 DEF Rising
      <4>3. CASE j \notin 1..Len(feed.events)
        <5> HIDE DEF s, e
        <5>1. s[j] = e
          BY <1>2, <1>4, <1>5, <3>2, <4>3
        <5>2. s[j].seq = feed.seq + 1
          BY <5>1 DEF e
        <5> QED
          BY <1>2, <2>1, <4>1, <5>2
      <4> QED
        BY <4>2, <4>3
    <3> QED
      BY <3>2 DEF Rising
  <2> QED
    BY <1>4, <2>2, <2>3 DEF OfThisRun
<1>9. ASSUME NEW models, NamedIn(feed.events, models), model \in models
      PROVE  NamedIn(s, models)
  BY <1>2, <1>4, <1>5, <1>9 DEF NamedIn
<1>10. \A i \in 1..Len(t) : \E k \in 1..Len(s) : t[i] = s[k]
  <2> HIDE DEF s
  <2>1. CASE Len(s) > FeedLength
    <3>1. Len(Tail(s)) = Len(s) - 1 /\ \A i \in 1..Len(Tail(s)) : Tail(s)[i] = s[i + 1]
      BY <1>2, <1>4, <2>1
    <3> QED
      BY <1>2, <1>4, <2>1, <3>1
  <2>2. CASE ~(Len(s) > FeedLength)
    BY <2>2
  <2> QED
    BY <2>1, <2>2
<1> HIDE DEF s, counts
<1>7. Len(t) <= FeedLength /\ OfThisRun(t, run, feed.seq + 1)
  <2>1. CASE Len(s) > FeedLength
    <3>1. /\ Tail(s) \in Seq(FeedEvents) /\ Len(Tail(s)) = Len(s) - 1
          /\ \A i \in 1..Len(Tail(s)) : Tail(s)[i] = s[i + 1] /\ i + 1 \in 1..Len(s)
      BY <1>2, <1>4, <2>1
    <3> DEFINE u == Tail(s)
    <3> HIDE DEF u
    <3>2. \A i \in 1..Len(u) : u[i].run = run /\ u[i].seq <= feed.seq + 1
      BY <1>6, <3>1 DEF OfThisRun, u
    <3>3. \A i, j \in 1..Len(u) : i < j => i + 1 < j + 1
      BY <1>2, <1>4, <3>1 DEF u
    <3>4. Rising(u)
      BY <1>6, <3>1, <3>3 DEF OfThisRun, Rising, u
    <3>5. OfThisRun(u, run, feed.seq + 1)
      BY <3>1, <3>2, <3>4 DEF OfThisRun, u
    <3> QED
      BY <1>2, <1>4, <2>1, <3>1, <3>5 DEF u
  <2>2. CASE ~(Len(s) > FeedLength)
    BY <1>2, <1>4, <1>6, <2>2
  <2> QED
    BY <2>1, <2>2
<1>8. t \in Seq(FeedEvents)
  BY <1>7 DEF OfThisRun
<1> HIDE DEF t, e
<1>11. ASSUME NEW models, NamedIn(feed.events, models), model \in models
       PROVE  NamedIn(t, models)
  BY <1>9, <1>10, <1>11 DEF NamedIn
<1> QED
  BY <1>1, <1>2, <1>3, <1>7, <1>8, <1>11 DEF Feeds

\* One entry of a sequence changes.
LEMMA EntryChanges ==
    ASSUME NEW A, NEW s \in Seq(A), NEW i \in 1..Len(s), NEW e \in A
    PROVE  /\ [s EXCEPT ![i] = e] \in Seq(A) /\ Len([s EXCEPT ![i] = e]) = Len(s)
           /\ \A k \in 1..Len(s) : [s EXCEPT ![i] = e][k] = IF k = i THEN e ELSE s[k]
OBVIOUS

\* What becomes of a call: it only goes on, under its model, and none that is over.
LEMMA CallGoes ==
    ASSUME FeedTypes, NEW c \in Feed!Calls, Feed!Classify(c)
    PROVE  /\ calls[c] \in FeedCalls /\ ~calls[c].kept
           /\ \E r \in FeedCalls :
                 /\ calls' = [calls EXCEPT ![c] = r]
                 /\ r.model = calls[c].model
                 /\ (\E reply \in Replies : Feed!Labelled(c, reply)) => r.kept
                 /\ r.task \in {"asking", "retrying"} =>
                       calls[c].task \in {"asking", "retrying"} \/ (Feed!Enter(c) /\ r.task = "asking")
<1>1. c \in 1..Len(calls) /\ calls \in Seq(FeedCalls)
  BY DEF FeedTypes, Feed!Calls
<1>2. calls[c] \in FeedCalls
  BY <1>1
<1>3. calls[c].task \in {"waiting", "asking", "retrying"}
  BY DEF Feed!Classify, Feed!Enter, Feed!Refused, Feed!Fails, Feed!Unlabelled,
         Feed!Labelled, Feed!Understood, Feed!Asking, Feed!Task
<1>7. ~calls[c].kept
  BY <1>2, <1>3 DEF FeedCalls
<1>4. CASE Feed!Enter(c) /\ ~\E reply \in Replies : Feed!Labelled(c, reply)
  <2> DEFINE r == [calls[c] EXCEPT !.task = "asking"]
  <2>1. calls' = [calls EXCEPT ![c] = r]
    BY <1>4 DEF Feed!Enter, Feed!Becomes
  <2>2. r \in FeedCalls /\ r.task = "asking" /\ r.model = calls[c].model
    BY <1>2, <1>7 DEF FeedCalls
  <2> HIDE DEF r
  <2> QED
    BY <1>2, <1>4, <1>7, <2>1, <2>2
<1>5. CASE Feed!Refused(c) /\ ~\E reply \in Replies : Feed!Labelled(c, reply)
  <2> DEFINE r == [calls[c] EXCEPT !.task = "retrying", !.field = FALSE]
  <2>1. calls' = [calls EXCEPT ![c].task = "retrying", ![c].field = FALSE] /\ calls[c].task = "asking"
    BY <1>5 DEF Feed!Refused, Feed!Task
  <2>2. r \in FeedCalls /\ r.model = calls[c].model
    BY <1>2, <1>7 DEF FeedCalls
  <2>3. calls' = [calls EXCEPT ![c] = r]
    BY <1>1, <1>2, <2>1 DEF FeedCalls
  <2> HIDE DEF r
  <2> QED
    BY <1>2, <1>5, <1>7, <2>1, <2>2, <2>3
<1>6. CASE Feed!Unlabelled(c) \/ Feed!Fails(c) \/ \E reply \in Replies : Feed!Labelled(c, reply)
  <2>1. PICK kept \in BOOLEAN :
            /\ calls' = [calls EXCEPT ![c] = [Feed!Ended(calls[c]) EXCEPT !.kept = kept]]
            /\ (\E reply \in Replies : Feed!Labelled(c, reply)) => kept
    BY <1>6 DEF Feed!Unlabelled, Feed!Fails, Feed!Labelled, Feed!Gone
  <2> DEFINE r == [Feed!Ended(calls[c]) EXCEPT !.kept = kept]
  <2>2. r \in FeedCalls /\ r.task = "over" /\ r.model = calls[c].model /\ r.kept = kept
    BY <1>2 DEF FeedCalls, Feed!Ended
  <2>3. calls' = [calls EXCEPT ![c] = r]
    BY <2>1
  <2> HIDE DEF r
  <2> QED
    BY <1>2, <1>7, <2>1, <2>2, <2>3
<1> QED
  BY <1>4, <1>5, <1>6 DEF Feed!Classify

\* A poll that asks keeps no answer; one that is answered has got a part of the ring;
\* what a page takes is newer than all it has shown.
LEMMA FeedTypesKept == FeedIInv /\ [Feed!Next]_Feed!vars => FeedTypes'
<1> SUFFICES ASSUME FeedIInv, [Feed!Next]_Feed!vars PROVE FeedTypes'
  OBVIOUS
<1>0. FeedTypes /\ Feed!PromptFeedAssumption
  BY DEF FeedIInv
<1>1. CASE UNCHANGED Feed!vars
  BY <1>0, <1>1 DEF Feed!vars, FeedTypes
<1>2. CASE \E named \in Models : Feed!Arrive(named)
  <2>1. PICK named \in Models : Feed!Arrive(named)
    BY <1>2
  <2> DEFINE new == [model |-> Feed!PickModel(named), task |-> "waiting", kept |-> FALSE,
                     field |-> sendField]
  <2>2. sendField \in BOOLEAN /\ Feed!PickModel(named) \in AllModels
    BY <1>0 DEF FeedTypes, Feed!PickModel, AllModels
  <2>3. new \in FeedCalls
    BY <2>2 DEF FeedCalls
  <2>4. calls' = Append(calls, new) /\ UNCHANGED <<picky, sendField, feed, screen, polls, run>>
    BY <2>1 DEF Feed!Arrive
  <2> HIDE DEF new
  <2>5. calls' \in Seq(FeedCalls)
    BY <1>0, <2>3, <2>4 DEF FeedTypes
  <2> QED
    BY <1>0, <2>4, <2>5 DEF FeedTypes
<1>3. ASSUME NEW c \in Feed!Calls, Feed!Classify(c) PROVE FeedTypes'
  <2>1. PICK r \in FeedCalls : calls' = [calls EXCEPT ![c] = r]
    BY <1>0, <1>3, CallGoes
  <2>2. /\ calls' \in Seq(FeedCalls)
        /\ sendField' \in BOOLEAN /\ UNCHANGED <<picky, screen, polls, run>>
    <3>1. c \in 1..Len(calls) /\ calls \in Seq(FeedCalls) /\ sendField \in BOOLEAN
      BY <1>0 DEF FeedTypes, Feed!Calls
    <3>2. calls' \in Seq(FeedCalls)
      BY <2>1, <3>1, EntryChanges
    <3>3. (sendField' = sendField \/ sendField' = FALSE) /\ UNCHANGED <<picky, screen, polls, run>>
      BY <1>3 DEF Feed!Classify, Feed!Enter, Feed!Unlabelled, Feed!Refused,
            Feed!Fails, Feed!Labelled
    <3> QED
      BY <3>1, <3>2, <3>3
  <2>3. /\ feed' \in Feeds
        /\ Len(feed'.events) <= FeedLength
    <3>1. CASE feed' = feed
      BY <1>0, <3>1 DEF FeedTypes
    <3>2. CASE \E reply \in Replies : Feed!Labelled(c, reply)
      <4>1. PICK reply \in Replies : feed' = Feed!Added(Feed!ParseLabel(reply), calls[c].model)
        BY <3>2 DEF Feed!Labelled
      <4>2. Feed!ParseLabel(reply) \in Categories /\ calls[c].model \in AllModels
        <5>1. calls[c] \in FeedCalls
          BY <1>0, <1>3, CallGoes
        <5> QED
          BY <1>0, <5>1 DEF FeedCalls, Feed!ParseLabel, Feed!PromptFeedAssumption
      <4> QED
        BY <4>1, <4>2, AddedRises
    <3> QED
      BY <1>3, <3>1, <3>2 DEF Feed!Classify, Feed!Enter, Feed!Unlabelled, Feed!Refused,
            Feed!Fails
  <2> QED
    BY <1>0, <2>2, <2>3 DEF FeedTypes
<1>4. ASSUME NEW p \in Polls, Feed!Poll(p) \/ Feed!Serve(p) \/ Feed!Receive(p) \/ Feed!Lose(p)
      PROVE  FeedTypes'
  <2>0. polls \in [Polls -> FeedPolls] /\ polls[p] \in FeedPolls /\ screen.seen \in Nat
    BY <1>0 DEF FeedTypes
  <2>1. UNCHANGED <<picky, calls, sendField, feed, run>>
    BY <1>4 DEF Feed!Poll, Feed!Serve, Feed!Receive, Feed!Lose
  <2>2. polls' \in [Polls -> FeedPolls]
    <3>1. PICK q \in FeedPolls : polls' = [polls EXCEPT ![p] = q]
      <4>1. CASE Feed!Poll(p)
        <5> DEFINE q == [at |-> "asked", after |-> screen.seen, got |-> <<>>]
        <5>1. q \in FeedPolls /\ polls' = [polls EXCEPT ![p] = q]
          BY <2>0, <4>1 DEF Feed!Poll, FeedPolls
        <5> HIDE DEF q
        <5> QED
          BY <5>1
      <4>2. CASE Feed!Serve(p)
        <5> DEFINE got == Feed!Recent(polls[p].after)
                   q == [polls[p] EXCEPT !.at = "answered", !.got = got]
        <5>1. got \in Seq(FeedEvents)
          BY <2>0, RecentRises DEF OfThisRun, FeedPolls
        <5>2. polls' = [polls EXCEPT ![p].at = "answered", ![p].got = got]
          BY <4>2 DEF Feed!Serve
        <5> HIDE DEF got
        <5>3. q \in FeedPolls /\ polls' = [polls EXCEPT ![p] = q]
          BY <2>0, <5>1, <5>2 DEF FeedPolls
        <5> HIDE DEF q
        <5> QED
          BY <5>3
      <4>3. CASE Feed!Receive(p) \/ Feed!Lose(p)
        <5>1. Feed!NoPoll \in FeedPolls /\ polls' = [polls EXCEPT ![p] = Feed!NoPoll]
          BY <4>3 DEF Feed!Receive, Feed!Lose, Feed!NoPoll, FeedPolls
        <5> QED
          BY <5>1
      <4> QED
        BY <1>4, <4>1, <4>2, <4>3
    <3> QED
      BY <2>0, <3>1
  <2>3. screen' \in [seen : Nat, shown : Seq(FeedEvents), stale : Nat]
    <3>1. CASE screen' = screen
      BY <1>0, <3>1 DEF FeedTypes
    <3>2. CASE Feed!Receive(p) /\ screen' # screen
      <4> DEFINE new == Feed!Fresh(p)
      <4>1. screen' = [screen EXCEPT !.seen = new[Len(new)].seq, !.shown = screen.shown \o new] /\ new # <<>>
        BY <3>2 DEF Feed!Receive, Feed!Last
      <4>2. OfThisRun(new, run, feed.seq)
        BY AfterRises DEF Feed!Fresh, FeedIInv, FeedInOrder
      <4> HIDE DEF new
      <4>3. new \in Seq(FeedEvents) /\ screen.shown \in Seq(FeedEvents)
        BY <1>0, <4>2 DEF OfThisRun, FeedTypes
      <4>4. new[Len(new)] \in FeedEvents
        BY <4>1, <4>3
      <4>5. new[Len(new)].seq \in Nat
        BY <4>4 DEF FeedEvents
      <4>6. screen.shown \o new \in Seq(FeedEvents)
        BY <4>3
      <4> QED
        BY <1>0, <4>1, <4>5, <4>6 DEF FeedTypes
    <3> QED
      BY <1>4, <3>1, <3>2 DEF Feed!Poll, Feed!Serve, Feed!Lose
  <2> QED
    BY <1>0, <2>1, <2>2, <2>3 DEF FeedTypes
<1>5. CASE Feed!Restart
  <2>1. /\ run' = run + 1 /\ run < MaxRestarts /\ sendField' = TRUE
        /\ calls' = [c \in 1..Len(calls) |-> Feed!Ended(calls[c])]
        /\ feed' = [events |-> <<>>, seq |-> 0, counts |-> [l \in Categories |-> 0]]
        /\ polls' = [p \in Polls |-> [at |-> "none", after |-> 0, got |-> <<>>]]
        /\ screen' = [screen EXCEPT !.stale = screen.seen] /\ UNCHANGED picky
    BY <1>5 DEF Feed!Restart, Feed!Calls, Feed!EmptyFeed, Feed!NoPoll
  <2>11. run' = run + 1 /\ run < MaxRestarts
    BY <2>1
  <2>12. feed' = [events |-> <<>>, seq |-> 0, counts |-> [l \in Categories |-> 0]]
    BY <2>1
  <2>13. polls' = [p \in Polls |-> [at |-> "none", after |-> 0, got |-> <<>>]]
    BY <2>1
  <2>2. calls \in Seq(FeedCalls) /\ Len(calls) \in Nat
    BY <1>0 DEF FeedTypes
  <2>3. \A c \in 1..Len(calls) : Feed!Ended(calls[c]) \in FeedCalls
    <3>1. ASSUME NEW c \in 1..Len(calls) PROVE calls[c] \in FeedCalls
      BY <2>2
    <3> QED
      BY <3>1 DEF FeedCalls, Feed!Ended
  <2>4. calls' \in [1..Len(calls) -> FeedCalls]
    BY <2>1, <2>3
  <2>5. calls' \in Seq(FeedCalls)
    BY <2>2, <2>4
  <2>6. feed' \in Feeds /\ Len(feed'.events) <= FeedLength
    <3>1. <<>> \in Seq(FeedEvents) /\ [l \in Categories |-> 0] \in [Categories -> Nat]
      OBVIOUS
    <3>2. FeedLength \in Nat \ {0}
      BY <1>0 DEF Feed!PromptFeedAssumption
    <3> QED
      BY <2>12, <3>1, <3>2 DEF Feeds
  <2>7. polls' \in [Polls -> FeedPolls]
    BY <2>13 DEF FeedPolls
  <2>8. run' \in 0..MaxRestarts
    <3>1. run \in 0..MaxRestarts /\ MaxRestarts \in Nat
      BY <1>0 DEF FeedTypes, Feed!PromptFeedAssumption
    <3> QED
      BY <2>11, <3>1
  <2>9. /\ sendField' \in BOOLEAN /\ picky' \in BOOLEAN
        /\ screen' \in [seen : Nat, shown : Seq(FeedEvents), stale : Nat]
    BY <1>0, <2>1 DEF FeedTypes
  <2> QED
    BY <1>0, <2>5, <2>6, <2>7, <2>8, <2>9 DEF FeedTypes
<1> QED
  BY <1>1, <1>2, <1>3, <1>4, <1>5 DEF Feed!Next

\* The semaphore: a call begins to ask only while fewer ask than it admits.
LEMMA AskingKept ==
    FeedIInv /\ [Feed!Next]_Feed!vars
        => IsFiniteSet(Feed!Asking') /\ Cardinality(Feed!Asking') <= MaxConcurrent
<1> SUFFICES ASSUME FeedIInv, [Feed!Next]_Feed!vars
             PROVE  IsFiniteSet(Feed!Asking') /\ Cardinality(Feed!Asking') <= MaxConcurrent
  OBVIOUS
<1>0. /\ FeedTypes /\ IsFiniteSet(Feed!Asking) /\ Cardinality(Feed!Asking) <= MaxConcurrent
      /\ MaxConcurrent \in Nat
  BY DEF FeedIInv, Feed!PromptFeedAssumption
<1> DEFINE Asks(c) == c \in 1..Len(calls) /\ calls[c].task \in {"asking", "retrying"}
<1>1. \A c : c \in Feed!Asking <=> Asks(c)
  BY DEF Feed!Asking, Feed!Calls
<1>2. \A c : c \in Feed!Asking' <=> c \in 1..Len(calls') /\ calls'[c].task \in {"asking", "retrying"}
  BY DEF Feed!Asking, Feed!Calls
<1>3. CASE Feed!Asking' \subseteq Feed!Asking
  <2>1. IsFiniteSet(Feed!Asking') /\ Cardinality(Feed!Asking') <= Cardinality(Feed!Asking)
    BY <1>0, <1>3, FS_Subset
  <2>2. Cardinality(Feed!Asking') \in Nat /\ Cardinality(Feed!Asking) \in Nat
    BY <1>0, <2>1, FS_CardinalityType
  <2> QED
    BY <1>0, <2>1, <2>2
<1>4. CASE \E c \in Feed!Calls : Feed!Classify(c)
  <2>1. PICK c \in Feed!Calls : Feed!Classify(c)
    BY <1>4
  <2>2. PICK r \in FeedCalls :
            /\ calls' = [calls EXCEPT ![c] = r]
            /\ r.task \in {"asking", "retrying"} =>
                  calls[c].task \in {"asking", "retrying"} \/ (Feed!Enter(c) /\ r.task = "asking")
    BY <1>0, <2>1, CallGoes
  <2>3. c \in 1..Len(calls) /\ calls \in Seq(FeedCalls)
    BY <1>0 DEF FeedTypes, Feed!Calls
  <2>4. Len(calls') = Len(calls) /\ \A k \in 1..Len(calls) : calls'[k] = IF k = c THEN r ELSE calls[k]
    BY <2>2, <2>3, EntryChanges
  <2>5. CASE Feed!Enter(c) /\ c \notin Feed!Asking
    <3>1. Feed!Asking' \subseteq Feed!Asking \cup {c}
      BY <1>1, <1>2, <2>4
    <3>2. Cardinality(Feed!Asking) < MaxConcurrent
      <4>1. Feed!Cardinality(Feed!Asking) = Cardinality(Feed!Asking)
        BY Zenon DEF Feed!Cardinality, Cardinality
      <4> QED
        BY <2>5, <4>1 DEF Feed!Enter, Feed!SlotIsFree
    <3>3. IsFiniteSet(Feed!Asking \cup {c}) /\ Cardinality(Feed!Asking \cup {c}) = Cardinality(Feed!Asking) + 1
      BY <1>0, <2>5, FS_AddElement
    <3>4. IsFiniteSet(Feed!Asking') /\ Cardinality(Feed!Asking') <= Cardinality(Feed!Asking \cup {c})
      BY <3>1, <3>3, FS_Subset
    <3>5. Cardinality(Feed!Asking') \in Nat /\ Cardinality(Feed!Asking) \in Nat
      BY <1>0, <3>4, FS_CardinalityType
    <3> QED
      BY <1>0, <3>2, <3>3, <3>4, <3>5
  <2>6. CASE ~(Feed!Enter(c) /\ c \notin Feed!Asking)
    <3>1. r.task \in {"asking", "retrying"} => c \in Feed!Asking
      BY <1>1, <2>2, <2>3, <2>6
    <3>2. Feed!Asking' \subseteq Feed!Asking
      BY <1>1, <1>2, <2>4, <3>1
    <3> QED
      BY <1>3, <3>2
  <2> QED
    BY <2>5, <2>6
<1>5. CASE \E named \in Models : Feed!Arrive(named)
  <2>1. PICK named \in Models : Feed!Arrive(named)
    BY <1>5
  <2> DEFINE new == [model |-> Feed!PickModel(named), task |-> "waiting", kept |-> FALSE,
                     field |-> sendField]
  <2>2. calls' = Append(calls, new) /\ new.task = "waiting"
    BY <2>1 DEF Feed!Arrive
  <2>3. calls \in Seq(FeedCalls)
    BY <1>0 DEF FeedTypes
  <2> HIDE DEF new
  <2>4. /\ \A k \in 1..Len(calls) : calls'[k] = calls[k]
        /\ Len(calls') = Len(calls) + 1 /\ Len(calls) \in Nat /\ calls'[Len(calls) + 1] = new
    BY <2>2, <2>3
  <2>5. \A k \in 1..Len(calls') : k \in 1..Len(calls) \/ k = Len(calls) + 1
    BY <2>4
  <2>6. Feed!Asking' \subseteq Feed!Asking
    BY <1>1, <1>2, <2>2, <2>4, <2>5
  <2> QED
    BY <1>3, <2>6
<1>6. CASE Feed!Restart
  <2>1. calls' = [c \in 1..Len(calls) |-> Feed!Ended(calls[c])]
    BY <1>6 DEF Feed!Restart, Feed!Calls
  <2>2. calls \in Seq(FeedCalls) /\ Len(calls) \in Nat
    BY <1>0 DEF FeedTypes
  <2>3. \A c \in 1..Len(calls) : calls'[c].task = "over"
    <3>1. ASSUME NEW c \in 1..Len(calls)
          PROVE  calls'[c].task = "over"
      <4>1. calls[c] \in FeedCalls
        BY <2>2
      <4>2. calls'[c] = Feed!Ended(calls[c])
        BY <2>1
      <4> QED
        BY <4>1, <4>2 DEF FeedCalls, Feed!Ended
    <3> QED
      BY <3>1
  <2>4. DOMAIN calls' = 1..Len(calls)
    BY <2>1
  <2>5. Len(calls') = Len(calls)
    BY <2>2, <2>4
  <2>6. Feed!Asking' \subseteq Feed!Asking
    BY <1>2, <2>3, <2>5
  <2> QED
    BY <1>3, <2>6
<1>7. CASE UNCHANGED calls
  BY <1>1, <1>2, <1>3, <1>7
<1> QED
  BY <1>4, <1>5, <1>6, <1>7 DEF Feed!Next, Feed!vars, Feed!Poll, Feed!Serve, Feed!Receive, Feed!Lose

\* Events of this run are still so when there is one more.
LEMMA OneMoreEvent ==
    ASSUME NEW s, NEW now \in Nat, NEW seq \in Nat, OfThisRun(s, now, seq)
    PROVE  OfThisRun(s, now, seq + 1)
<1>1. \A i \in 1..Len(s) : s[i] \in FeedEvents
  BY DEF OfThisRun
<1> QED
  BY <1>1 DEF OfThisRun, FeedEvents

\* loadFeed(): what is put behind the others is newer than any of them.
LEMMA ShownRises ==
    ASSUME FeedIInv, NEW p \in Polls, Feed!Receive(p), screen' # screen
    PROVE  /\ Rising(screen'.shown)
           /\ \A i \in 1..Len(screen'.shown) :
                 screen'.shown[i].seq <= screen'.seen /\ screen'.shown[i].run <= run
           /\ \A i, j \in 1..Len(screen'.shown) : i < j => screen'.shown[i].run <= screen'.shown[j].run
<1> DEFINE new == Feed!Fresh(p)
           old == screen.shown
           all == old \o new
           m == Len(old)
<1>1. screen' = [screen EXCEPT !.seen = new[Len(new)].seq, !.shown = all] /\ new # <<>>
  BY DEF Feed!Receive, Feed!Last
<1>2. OfThisRun(new, run, feed.seq) /\ \A i \in 1..Len(new) : new[i].seq > screen.seen
  <2>1. OfThisRun(polls[p].got, run, feed.seq)
    BY DEF FeedIInv, FeedInOrder
  <2> QED
    BY <2>1, AfterRises DEF Feed!Fresh
<1> HIDE DEF new
<1>3. new \in Seq(FeedEvents) /\ old \in Seq(FeedEvents) /\ run \in Nat /\ screen.seen \in Nat
  BY <1>2 DEF OfThisRun, FeedIInv, FeedTypes, Feed!PromptFeedAssumption
<1>4. /\ m \in Nat /\ Len(new) \in Nat /\ Len(all) = m + Len(new)
      /\ \A i \in 1..m : all[i] = old[i]
      /\ \A i \in 1..Len(all) : i \notin 1..m => i - m \in 1..Len(new) /\ all[i] = new[i - m]
  BY <1>3
<1>5. /\ \A i \in 1..m : old[i].seq <= screen.seen /\ old[i].run <= run
      /\ Rising(old) /\ \A i, j \in 1..m : i < j => old[i].run <= old[j].run
  BY DEF FeedIInv, FeedInOrder
<1>6. \A i \in 1..Len(new) : new[i].run = run /\ new[i].seq > screen.seen /\ new[i].seq \in Nat
  <2>1. \A i \in 1..Len(new) : new[i] \in FeedEvents
    BY <1>3
  <2> QED
    BY <1>2, <2>1 DEF OfThisRun, FeedEvents
<1>7. \A i \in 1..m : old[i].seq \in Nat /\ old[i].run \in Nat
  <2>1. \A i \in 1..m : old[i] \in FeedEvents
    BY <1>3
  <2> QED
    BY <2>1 DEF FeedEvents
<1>8. Rising(new)
  BY <1>2 DEF OfThisRun
<1>9. Len(new) > 0
  BY <1>1, <1>3
<1>10. \A i \in 1..Len(new) : new[i].seq <= new[Len(new)].seq
  BY <1>6, <1>8, <1>9, <1>4 DEF Rising
<1> DEFINE seen == new[Len(new)].seq
<1>11. seen \in Nat /\ seen > screen.seen
  BY <1>4, <1>6, <1>9
<1> HIDE DEF all, seen
<1>12. screen'.shown = all /\ screen'.seen = seen
  BY <1>1 DEF seen, FeedIInv, FeedTypes
<1>13. \A i \in 1..Len(all) : all[i].seq <= seen /\ all[i].run <= run
  <2>1. ASSUME NEW i \in 1..Len(all) PROVE all[i].seq <= seen /\ all[i].run <= run
    <3>1. CASE i \in 1..m
      BY <1>3, <1>4, <1>5, <1>7, <1>11, <3>1
    <3>2. CASE i \notin 1..m
      <4> DEFINE k == i - m
      <4>1. k \in 1..Len(new) /\ all[i] = new[k]
        BY <1>4, <3>2
      <4> HIDE DEF k
      <4>2. new[k].run = run /\ new[k].seq <= seen
        BY <1>6, <1>10, <4>1 DEF seen
      <4> QED
        BY <1>3, <4>1, <4>2
    <3> QED
      BY <3>1, <3>2
  <2> QED
    BY <2>1
<1>14. ASSUME NEW i \in 1..Len(all), NEW j \in 1..Len(all), i < j
       PROVE  all[i].seq < all[j].seq /\ all[i].run <= all[j].run
  <2>1. CASE j \in 1..m
    <3>1. i \in 1..m
      BY <1>4, <1>14, <2>1
    <3> QED
      BY <1>4, <1>5, <1>14, <2>1, <3>1 DEF Rising
  <2>2. CASE j \notin 1..m /\ i \in 1..m
    <3> DEFINE k == j - m
    <3>1. all[j] = new[k] /\ k \in 1..Len(new) /\ all[i] = old[i]
      BY <1>4, <2>2
    <3> HIDE DEF k
    <3>2. new[k].run = run /\ new[k].seq > screen.seen /\ new[k].seq \in Nat
      BY <1>6, <3>1
    <3>3. old[i].seq <= screen.seen /\ old[i].run <= run /\ old[i].seq \in Nat
      BY <1>5, <1>7, <2>2
    <3> QED
      BY <1>3, <3>1, <3>2, <3>3
  <2>3. CASE j \notin 1..m /\ i \notin 1..m
    <3> DEFINE k == j - m
               h == i - m
    <3>1. /\ all[j] = new[k] /\ k \in 1..Len(new)
          /\ all[i] = new[h] /\ h \in 1..Len(new)
      BY <1>4, <2>3
    <3>2. h < k
      BY <1>4, <1>14
    <3> HIDE DEF k, h
    <3>3. new[h].run = run /\ new[k].run = run /\ new[h].seq < new[k].seq
      BY <1>6, <1>8, <3>1, <3>2 DEF Rising
    <3> QED
      BY <1>3, <3>1, <3>3
  <2> QED
    BY <2>1, <2>2, <2>3
<1> QED
  BY <1>12, <1>13, <1>14 DEF Rising

LEMMA FeedOrderKept == FeedIInv /\ [Feed!Next]_Feed!vars => FeedInOrder'
<1> SUFFICES ASSUME FeedIInv, [Feed!Next]_Feed!vars PROVE FeedInOrder'
  OBVIOUS
<1>0. /\ FeedInOrder /\ run \in Nat /\ feed.seq \in Nat
      /\ polls \in [Polls -> FeedPolls]
  BY DEF FeedIInv, FeedTypes, Feeds, Feed!PromptFeedAssumption
<1>1. CASE UNCHANGED <<feed, polls, screen, run>>
  BY <1>0, <1>1 DEF FeedInOrder
<1>2. CASE \E c \in Feed!Calls, reply \in Replies : Feed!Labelled(c, reply)
  <2>1. PICK c \in Feed!Calls, reply \in Replies :
            Feed!Labelled(c, reply) /\ feed' = Feed!Added(Feed!ParseLabel(reply), calls[c].model)
    BY <1>2 DEF Feed!Labelled
  <2>2. Feed!ParseLabel(reply) \in Categories /\ calls[c].model \in AllModels
    <3>1. FeedTypes /\ Feed!Classify(c)
      BY <2>1 DEF FeedIInv, Feed!Classify
    <3>2. calls[c] \in FeedCalls
      BY <3>1, CallGoes
    <3> QED
      BY <3>2 DEF FeedCalls, Feed!ParseLabel, FeedIInv, Feed!PromptFeedAssumption
  <2>3. OfThisRun(feed'.events, run, feed.seq + 1) /\ feed'.seq = feed.seq + 1
    BY <2>1, <2>2, AddedRises
  <2>4. UNCHANGED <<screen, polls, run>>
    BY <1>2 DEF Feed!Labelled
  <2>5. \A p \in Polls : OfThisRun(polls[p].got, run, feed.seq + 1)
    <3>1. ASSUME NEW p \in Polls PROVE OfThisRun(polls[p].got, run, feed.seq)
      BY <1>0 DEF FeedInOrder
    <3> QED
      BY <1>0, <3>1, OneMoreEvent
  <2> QED
    BY <1>0, <2>3, <2>4, <2>5 DEF FeedInOrder
<1>3. ASSUME NEW p \in Polls, Feed!Poll(p) \/ Feed!Serve(p) \/ Feed!Receive(p) \/ Feed!Lose(p)
      PROVE  FeedInOrder'
  <2>1. UNCHANGED <<feed, run>>
    BY <1>3 DEF Feed!Poll, Feed!Serve, Feed!Receive, Feed!Lose
  <2>2. \A q \in Polls : OfThisRun(polls'[q].got, run, feed.seq)
    <3>0. polls[p] \in FeedPolls /\ \A q \in Polls : OfThisRun(polls[q].got, run, feed.seq)
      BY <1>0 DEF FeedInOrder
    <3>1. OfThisRun(<<>>, run, feed.seq)
      <4>1. <<>> \in Seq(FeedEvents) /\ Len(<<>>) = 0
        OBVIOUS
      <4> QED
        BY <4>1 DEF OfThisRun, Rising
    <3>2. /\ polls'[p].got = <<>> \/ OfThisRun(polls'[p].got, run, feed.seq)
          /\ \A q \in Polls \ {p} : polls'[q] = polls[q]
      <4>1. CASE Feed!Serve(p)
        <5> DEFINE got == Feed!Recent(polls[p].after)
        <5>1. OfThisRun(got, run, feed.seq)
          BY <3>0, RecentRises DEF FeedPolls
        <5>2. polls' = [polls EXCEPT ![p].at = "answered", ![p].got = got]
          BY <4>1 DEF Feed!Serve
        <5> HIDE DEF got
        <5>3. polls'[p].got = got /\ \A q \in Polls \ {p} : polls'[q] = polls[q]
          BY <1>0, <3>0, <5>2 DEF FeedPolls
        <5> QED
          BY <5>1, <5>3
      <4>2. CASE ~Feed!Serve(p)
        BY <1>0, <1>3, <4>2 DEF Feed!Poll, Feed!Receive, Feed!Lose, Feed!NoPoll
      <4> QED
        BY <4>1, <4>2
    <3> QED
      BY <3>0, <3>1, <3>2
  <2>3. CASE screen' = screen
    BY <1>0, <2>1, <2>2, <2>3 DEF FeedInOrder
  <2>4. CASE screen' # screen
    <3>1. Feed!Receive(p)
      BY <1>3, <2>4 DEF Feed!Poll, Feed!Serve, Feed!Lose
    <3> QED
      BY <1>0, <2>1, <2>2, <2>4, <3>1, ShownRises DEF FeedInOrder
  <2> QED
    BY <2>3, <2>4
<1>4. CASE Feed!Restart
  <2>1. /\ run' = run + 1 /\ feed'.events = <<>> /\ \A p \in Polls : polls'[p].got = <<>>
        /\ screen'.shown = screen.shown /\ screen'.seen = screen.seen
    BY <1>4 DEF Feed!Restart, Feed!EmptyFeed, Feed!NoPoll, FeedIInv, FeedTypes
  <2>2. OfThisRun(<<>>, run', feed'.seq)
    <3>1. <<>> \in Seq(FeedEvents) /\ Len(<<>>) = 0
      OBVIOUS
    <3> QED
      BY <3>1 DEF OfThisRun, Rising
  <2>3. \A i \in 1..Len(screen.shown) : screen.shown[i].run \in Nat
    <3>1. \A i \in 1..Len(screen.shown) : screen.shown[i] \in FeedEvents
      BY DEF FeedIInv, FeedTypes
    <3> QED
      BY <3>1 DEF FeedEvents
  <2> QED
    BY <1>0, <2>1, <2>2, <2>3 DEF FeedInOrder
<1> QED
  BY <1>1, <1>2, <1>3, <1>4
     DEF Feed!Next, Feed!vars, Feed!Arrive, Feed!Classify, Feed!Enter, Feed!Refused,
         Feed!Fails, Feed!Unlabelled

\* A label that was kept stays so, under its model.
LEMMA KeptStays == FeedIInv /\ [Feed!Next]_Feed!vars => KeptModels \subseteq KeptModels'
<1> SUFFICES ASSUME FeedIInv, [Feed!Next]_Feed!vars, NEW m \in KeptModels PROVE m \in KeptModels'
  OBVIOUS
<1>1. PICK k \in 1..Len(calls) : calls[k].kept /\ calls[k].model = m
  BY DEF KeptModels, Feed!Calls
<1>2. FeedTypes /\ calls \in Seq(FeedCalls) /\ Len(calls) \in Nat
  BY DEF FeedIInv, FeedTypes
<1>3. SUFFICES k \in 1..Len(calls') /\ calls'[k].kept /\ calls'[k].model = m
  BY DEF KeptModels, Feed!Calls
<1>4. ASSUME NEW c \in Feed!Calls, Feed!Classify(c)
      PROVE  k \in 1..Len(calls') /\ calls'[k] = calls[k]
  <2>1. PICK r \in FeedCalls : calls' = [calls EXCEPT ![c] = r]
    BY <1>2, <1>4, CallGoes
  <2>2. c \in 1..Len(calls) /\ k # c
    BY <1>1, <1>2, <1>4, CallGoes DEF Feed!Calls
  <2> QED
    BY <1>2, <2>1, <2>2, EntryChanges
<1>5. CASE \E named \in Models : Feed!Arrive(named)
  <2>1. PICK new : calls' = Append(calls, new)
    BY <1>5 DEF Feed!Arrive
  <2>2. Len(calls') = Len(calls) + 1 /\ calls'[k] = calls[k]
    BY <1>2, <2>1
  <2> QED
    BY <1>1, <1>2, <2>2
<1>6. CASE Feed!Restart
  <2>1. calls' = [c \in 1..Len(calls) |-> Feed!Ended(calls[c])]
    BY <1>6 DEF Feed!Restart, Feed!Calls
  <2>2. DOMAIN calls' = 1..Len(calls)
    BY <2>1
  <2>3. Len(calls') = Len(calls)
    BY <1>2, <2>2
  <2>4. calls'[k] = Feed!Ended(calls[k]) /\ calls[k] \in FeedCalls
    BY <1>2, <2>1
  <2> QED
    BY <1>1, <2>3, <2>4 DEF FeedCalls, Feed!Ended
<1>7. CASE UNCHANGED calls
  BY <1>1, <1>7
<1> QED
  BY <1>1, <1>4, <1>5, <1>6, <1>7 DEF Feed!Next, Feed!vars, Feed!Poll, Feed!Serve, Feed!Receive, Feed!Lose

\* What is read from a list, or put behind another, names no other model.
LEMMA NamesStay ==
    ASSUME NEW s, NEW t, NEW models, NEW more, NamedIn(s, models), models \subseteq more, OutOf(t, s)
    PROVE  NamedIn(t, more)
BY DEF NamedIn, OutOf

LEMMA ItselfOutOf == \A s : OutOf(s, s)
BY DEF OutOf

\* An event gets the model of the call whose label it is.
LEMMA FeedNamesKept == FeedIInv /\ [Feed!Next]_Feed!vars => FeedIsNamed'
<1> SUFFICES ASSUME FeedIInv, [Feed!Next]_Feed!vars PROVE FeedIsNamed'
  OBVIOUS
<1> DEFINE now == KeptModels
           next == KeptModels'
<1>0. /\ FeedTypes /\ FeedIsNamed /\ FeedInOrder /\ now \subseteq next
      /\ polls \in [Polls -> FeedPolls] /\ screen \in [seen : Nat, shown : Seq(FeedEvents), stale : Nat]
  BY KeptStays DEF FeedIInv, FeedTypes
<1> HIDE DEF now, next
<1>1. /\ NamedIn(feed.events, next) /\ NamedIn(screen.shown, next)
      /\ \A p \in Polls : NamedIn(polls[p].got, next)
  <2>1. /\ NamedIn(feed.events, now) /\ NamedIn(screen.shown, now)
        /\ \A p \in Polls : NamedIn(polls[p].got, now)
    BY <1>0 DEF FeedIsNamed, now
  <2> QED
    BY <1>0, <2>1, NamesStay, ItselfOutOf
<1>2. SUFFICES /\ NamedIn(feed'.events, next) /\ NamedIn(screen'.shown, next)
               /\ \A p \in Polls : NamedIn(polls'[p].got, next)
  BY DEF FeedIsNamed, next
<1>3. CASE UNCHANGED <<feed, polls, screen>>
  BY <1>1, <1>3
<1>4. CASE \E c \in Feed!Calls, reply \in Replies : Feed!Labelled(c, reply)
  <2>1. PICK c \in Feed!Calls, reply \in Replies : Feed!Labelled(c, reply)
    BY <1>4
  <2>2. feed' = Feed!Added(Feed!ParseLabel(reply), calls[c].model) /\ UNCHANGED <<screen, polls>>
    BY <2>1 DEF Feed!Labelled
  <2>3. Feed!Classify(c)
    BY <2>1 DEF Feed!Classify
  <2>4. PICK r \in FeedCalls : calls' = [calls EXCEPT ![c] = r] /\ r.model = calls[c].model /\ r.kept
    BY <1>0, <2>1, <2>3, CallGoes
  <2>5. calls[c].model \in next
    <3>1. c \in 1..Len(calls) /\ calls \in Seq(FeedCalls)
      BY <1>0 DEF FeedTypes, Feed!Calls
    <3>2. Len(calls') = Len(calls) /\ calls'[c] = r
      BY <2>4, <3>1, EntryChanges
    <3> QED
      BY <2>4, <3>1, <3>2 DEF KeptModels, Feed!Calls, next
  <2>6. Feed!ParseLabel(reply) \in Categories /\ calls[c].model \in AllModels
    BY <1>0, <2>3, CallGoes DEF FeedCalls, Feed!ParseLabel, FeedIInv, Feed!PromptFeedAssumption
  <2>7. NamedIn(feed'.events, next)
    BY <1>1, <2>2, <2>5, <2>6, AddedRises
  <2> QED
    BY <1>1, <2>2, <2>7
<1>5. ASSUME NEW p \in Polls, Feed!Serve(p)
      PROVE  /\ NamedIn(feed'.events, next) /\ NamedIn(screen'.shown, next)
             /\ \A q \in Polls : NamedIn(polls'[q].got, next)
  <2> DEFINE got == Feed!Recent(polls[p].after)
  <2>1. polls[p] \in FeedPolls
    BY <1>0
  <2>2. OutOf(got, feed.events)
    BY <2>1, RecentRises DEF FeedPolls
  <2>3. polls' = [polls EXCEPT ![p].at = "answered", ![p].got = got] /\ UNCHANGED <<feed, screen>>
    BY <1>5 DEF Feed!Serve
  <2> HIDE DEF got
  <2>4. polls'[p].got = got /\ \A q \in Polls \ {p} : polls'[q] = polls[q]
    BY <1>0, <2>1, <2>3 DEF FeedPolls
  <2>5. NamedIn(got, next)
    BY <1>1, <2>2, NamesStay
  <2> QED
    BY <1>1, <2>3, <2>4, <2>5
<1>6. ASSUME NEW p \in Polls, Feed!Poll(p) \/ Feed!Receive(p) \/ Feed!Lose(p)
      PROVE  /\ NamedIn(feed'.events, next) /\ NamedIn(screen'.shown, next)
             /\ \A q \in Polls : NamedIn(polls'[q].got, next)
  <2>1. /\ feed' = feed /\ polls'[p].got = <<>>
        /\ \A q \in Polls \ {p} : polls'[q] = polls[q]
    BY <1>0, <1>6 DEF Feed!Poll, Feed!Receive, Feed!Lose, Feed!NoPoll
  <2>2. NamedIn(<<>>, next)
    BY DEF NamedIn
  <2>3. NamedIn(screen'.shown, next)
    <3>1. CASE screen' = screen
      BY <1>1, <3>1
    <3>2. CASE screen' # screen
      <4> DEFINE new == Feed!Fresh(p)
                 old == screen.shown
      <4>1. screen' = [screen EXCEPT !.seen = new[Len(new)].seq, !.shown = old \o new]
        BY <1>6, <3>2 DEF Feed!Poll, Feed!Lose, Feed!Receive, Feed!Last
      <4>2. OfThisRun(new, run, feed.seq) /\ OutOf(new, polls[p].got)
        BY <1>0, AfterRises DEF Feed!Fresh, FeedInOrder
      <4> HIDE DEF new
      <4>3. new \in Seq(FeedEvents) /\ old \in Seq(FeedEvents) /\ screen'.shown = old \o new
        BY <1>0, <4>1, <4>2 DEF OfThisRun
      <4>4. NamedIn(new, next) /\ NamedIn(old, next)
        BY <1>1, <4>2, NamesStay
      <4> HIDE DEF old
      <4>5. NamedIn(old \o new, next)
        BY <4>3, <4>4 DEF NamedIn
      <4> QED
        BY <4>3, <4>5
    <3> QED
      BY <3>1, <3>2
  <2> QED
    BY <1>1, <2>1, <2>2, <2>3
<1>7. CASE Feed!Restart
  <2>1. /\ feed'.events = <<>> /\ \A p \in Polls : polls'[p].got = <<>>
        /\ screen'.shown = screen.shown
    BY <1>0, <1>7 DEF Feed!Restart, Feed!EmptyFeed, Feed!NoPoll
  <2>2. NamedIn(<<>>, next)
    BY DEF NamedIn
  <2> QED
    BY <1>1, <2>1, <2>2
<1> QED
  BY <1>3, <1>4, <1>5, <1>6, <1>7
     DEF Feed!Next, Feed!vars, Feed!Arrive, Feed!Classify, Feed!Enter, Feed!Refused,
         Feed!Fails, Feed!Unlabelled

LEMMA FeedStarts == Feed!PromptFeedAssumption /\ Feed!Init => FeedIInv
<1> SUFFICES ASSUME Feed!PromptFeedAssumption, Feed!Init PROVE FeedIInv
  OBVIOUS
<1>1. <<>> \in Seq(FeedEvents) /\ Len(<<>>) = 0 /\ <<>> \in Seq(FeedCalls)
  OBVIOUS
<1>2. /\ picky \in BOOLEAN /\ sendField = TRUE /\ run = 0 /\ calls = <<>>
      /\ feed = [events |-> <<>>, seq |-> 0, counts |-> [l \in Categories |-> 0]]
      /\ screen = [seen |-> 0, shown |-> <<>>, stale |-> 0]
      /\ polls = [p \in Polls |-> [at |-> "none", after |-> 0, got |-> <<>>]]
  BY DEF Feed!Init, Feed!EmptyFeed, Feed!NoPoll
<1>3. FeedTypes
  <2>1. feed \in Feeds /\ Len(feed.events) <= FeedLength
    BY <1>1, <1>2 DEF Feeds, Feed!PromptFeedAssumption
  <2>2. polls \in [Polls -> FeedPolls]
    BY <1>1, <1>2 DEF FeedPolls
  <2>3. screen \in [seen : Nat, shown : Seq(FeedEvents), stale : Nat]
    BY <1>1, <1>2
  <2>4. run \in 0..MaxRestarts /\ sendField \in BOOLEAN /\ picky \in BOOLEAN /\ calls \in Seq(FeedCalls)
    BY <1>1, <1>2 DEF Feed!PromptFeedAssumption
  <2> QED
    BY <2>1, <2>2, <2>3, <2>4 DEF FeedTypes
<1>4. Feed!Asking = {}
  BY <1>1, <1>2 DEF Feed!Asking, Feed!Calls
<1>5. IsFiniteSet(Feed!Asking) /\ Cardinality(Feed!Asking) <= MaxConcurrent
  BY <1>4, FS_EmptySet DEF Feed!PromptFeedAssumption
<1>6. OfThisRun(<<>>, run, feed.seq) /\ Rising(<<>>)
  BY <1>1 DEF OfThisRun, Rising
<1>7. feed.events = <<>> /\ screen.shown = <<>> /\ \A p \in Polls : polls[p].got = <<>>
  BY <1>2
<1> HIDE DEF Feed!PromptFeedAssumption
<1>8. FeedInOrder
  BY <1>1, <1>6, <1>7 DEF FeedInOrder
<1>9. FeedIsNamed
  BY <1>1, <1>7 DEF FeedIsNamed, NamedIn
<1> QED
  BY <1>3, <1>5, <1>8, <1>9 DEF FeedIInv

LEMMA FeedGoes == FeedIInv /\ [Feed!Next]_Feed!vars => FeedIInv'
BY FeedTypesKept, AskingKept, FeedOrderKept, FeedNamesKept DEF FeedIInv

\* The prompt feed keeps its invariant, whichever part is looked at.
THEOREM FeedInvariance == AllSpec => []FeedIInv
<1>1. AllInit => FeedIInv
  BY PartsAssumption, FeedStarts DEF PartsAssumption, AllInit
<1>2. FeedIInv /\ [AllNext]_AllVars => FeedIInv'
  <2> SUFFICES ASSUME FeedIInv, [AllNext]_AllVars PROVE FeedIInv'
    OBVIOUS
  <2>1. [Feed!Next]_Feed!vars
    BY DEF AllNext, AllVars, InFeed, InLive, InPick, FeedVars, Feed!vars
  <2> QED
    BY <2>1, FeedGoes
<1> QED
  BY <1>1, <1>2, PTL DEF AllSpec

LEMMA FeedWithin == FeedIInv => FeedStaysWithin
<1> SUFFICES ASSUME FeedIInv PROVE FeedStaysWithin
  OBVIOUS
<1>1. FeedTypes /\ Cardinality(Feed!Asking) <= MaxConcurrent
  BY DEF FeedIInv
<1>2. Feed!Cardinality(Feed!Asking) = Cardinality(Feed!Asking)
  BY Zenon DEF Feed!Cardinality, Cardinality
<1>3. \A c \in Feed!Calls : calls[c] \in FeedCalls
  BY <1>1 DEF FeedTypes, Feed!Calls
<1>4. \A p \in Polls : polls[p] \in FeedPolls
  BY <1>1 DEF FeedTypes
<1>5. Feed!TypeOK
  <2>1. \A c \in Feed!Calls :
            /\ calls[c].task \in {"waiting", "asking", "retrying", "over"}
            /\ calls[c].field \in BOOLEAN /\ calls[c].kept \in BOOLEAN
    BY <1>3 DEF FeedCalls
  <2>2. \A p \in Polls : polls[p].at \in {"none", "asked", "answered"}
    BY <1>4 DEF FeedPolls
  <2>3. feed.seq \in Nat /\ feed.counts \in [Categories -> Nat] /\ Len(feed.events) <= FeedLength
    BY <1>1 DEF FeedTypes, Feeds
  <2> QED
    BY <1>1, <1>2, <2>1, <2>2, <2>3 DEF Feed!TypeOK, FeedTypes
<1>6. ASSUME NEW s \in Seq(FeedEvents), NamedIn(s, KeptModels), NEW e \in Feed!ToSet(s)
      PROVE  e.label \in Categories /\ \E c \in Feed!Calls : calls[c].kept /\ calls[c].model = e.model
  <2>1. PICK i \in 1..Len(s) : e = s[i]
    BY <1>6 DEF Feed!ToSet
  <2>2. s[i] \in FeedEvents
    BY <2>1
  <2>3. e.model \in KeptModels
    BY <1>6, <2>1 DEF NamedIn
  <2> QED
    BY <2>1, <2>2, <2>3 DEF FeedEvents, KeptModels
<1>7. Feed!OnlyWhatIsNamed
  <2>1. feed.events \in Seq(FeedEvents) /\ screen.shown \in Seq(FeedEvents)
    BY <1>1 DEF FeedTypes, Feeds
  <2>2. \A p \in Polls : polls[p].got \in Seq(FeedEvents)
    BY <1>4 DEF FeedPolls
  <2>3. FeedIsNamed
    BY DEF FeedIInv
  <2> QED
    BY <1>6, <2>1, <2>2, <2>3 DEF Feed!OnlyWhatIsNamed, Feed!Events, FeedIsNamed
<1> QED
  BY <1>5, <1>7 DEF FeedStaysWithin

\* _classify() and _parse_label(): the classifier is never asked for more prompts at once
\* than its ceiling, and whatever it says, an event that leaves the proxy holds a category,
\* and the model of a request whose label was kept.
THEOREM FeedIsWithin == AllSpec => []FeedStaysWithin
BY FeedInvariance, FeedWithin, PTL

\* A feed in its invariant is shown in order.
LEMMA FeedOrdered == FeedIInv => ShownInOrder
<1> SUFFICES ASSUME FeedIInv, NEW i \in 1..Len(screen.shown), NEW j \in 1..Len(screen.shown), i < j
             PROVE  Feed!Before(screen.shown[i], screen.shown[j])
  BY DEF ShownInOrder, Feed!ShownInOrder
<1>1. screen.shown[i].seq < screen.shown[j].seq /\ screen.shown[i].run <= screen.shown[j].run
  BY DEF FeedIInv, FeedInOrder, Rising
<1>2. screen.shown[i] \in FeedEvents /\ screen.shown[j] \in FeedEvents
  BY DEF FeedIInv, FeedTypes
<1> QED
  BY <1>1, <1>2 DEF Feed!Before, FeedEvents

\* loadFeed(): overlapping polls, answered in any order and over restarts of the service,
\* never show an event twice or behind a later one.
THEOREM LabelsStayInOrder == AllSpec => []ShownInOrder
BY FeedInvariance, FeedOrdered, PTL

-----------------------------------------------------------------------------
(* The choice of prompts *)

\* How many of the first r places of a round are within the share.
Within(r) == IF rate = 0 THEN 0 ELSE IF r < rate THEN r ELSE rate - 1

\* q rounds of the counter are over, and r places of the next one.
Rounds(q, r) ==
    /\ q \in Nat /\ r \in 0..Period - 1
    /\ sampled.of = Period * q + r
    /\ sampled.taken = rate * q + (IF rate = Period THEN r ELSE Within(r))
    /\ rate < Period => rr = r

PickTypes ==
    /\ rate \in 0..Period /\ rr \in 0..Period - 1
    /\ sampled \in [of : Nat, taken : Nat]
    /\ skipped \in Nat /\ skipped = sampled.of - sampled.taken

PickIInv == PickTypes /\ (\E q, r : Rounds(q, r)) /\ Pick!OnlyTheUserIsRead

\* The constants of the choice are numbers.
LEMMA PickNumbers ==
    Period \in Nat \ {0} /\ Rates \subseteq 0..Period /\ MaxTurns \in Nat /\ MaxPrompts \in Nat
BY PartsAssumption DEF PartsAssumption, Pick!PromptSamplingAssumption

\* A number of whole rounds and a rest is divided into them.
LEMMA RoundsAreQuotients ==
    ASSUME NEW p \in Nat \ {0}, NEW q \in Nat, NEW r \in 0..p - 1
    PROVE  (p * q + r) % p = r /\ (p * q + r) \div p = q
<1> DEFINE n == p * q + r
           d == n \div p
           m == n % p
<1>1. n \in Nat /\ d \in Nat /\ m \in 0..p - 1 /\ n = p * d + m
  OBVIOUS
<1> HIDE DEF d, m
<1>2. p * d + m = p * q + r
  BY <1>1
<1>3. d <= q
  <2>1. CASE d >= q + 1
    <3>1. p * d >= p * (q + 1) /\ p * (q + 1) = p * q + p
      BY <1>1, <2>1
    <3> QED
      BY <1>1, <1>2, <3>1
  <2> QED
    BY <1>1, <2>1
<1>4. q <= d
  <2>1. CASE q >= d + 1
    <3>1. p * q >= p * (d + 1) /\ p * (d + 1) = p * d + p
      BY <1>1, <2>1
    <3> QED
      BY <1>1, <1>2, <3>1
  <2> QED
    BY <1>1, <2>1
<1>5. d = q
  BY <1>1, <1>3, <1>4
<1> QED
  BY <1>1, <1>2, <1>5 DEF d, m

\* One more prompt: the counter goes on, or round.
LEMMA CounterGoesOn ==
    ASSUME PickTypes, NEW taken \in {0, 1}, Pick!Counted(taken), Pick!Taken <=> taken = 1,
           \E q, r : Rounds(q, r)
    PROVE  /\ \E q, r : Rounds(q, r)'
           /\ rr' \in 0..Period - 1 /\ rate' = rate
           /\ sampled' = [of |-> sampled.of + 1, taken |-> sampled.taken + taken]
<1> USE PickNumbers
<1>1. PICK q, r : Rounds(q, r)
  OBVIOUS
<1>2. /\ sampled' = [of |-> sampled.of + 1, taken |-> sampled.taken + taken]
      /\ rr' = IF rate < Period THEN (rr + 1) % Period ELSE rr
      /\ rate' = rate
  BY DEF Pick!Counted
<1>3. rate \in 0..Period /\ rr \in 0..Period - 1 /\ sampled.of \in Nat /\ sampled.taken \in Nat
  BY DEF PickTypes
<1>4. rr' \in 0..Period - 1
  BY <1>2, <1>3
<1>5. sampled'.of = sampled.of + 1 /\ sampled'.taken = sampled.taken + taken
  BY <1>2
<1>6. /\ q \in Nat /\ r \in 0..Period - 1
      /\ sampled.of = Period * q + r
      /\ sampled.taken = rate * q + (IF rate = Period THEN r ELSE Within(r))
      /\ rate < Period => rr = r
  BY <1>1 DEF Rounds
<1>7. taken = IF rate = Period \/ (rr + 1) % Period < rate THEN 1 ELSE 0
  BY DEF Pick!Taken, Pick!InShare
<1>8. CASE r + 1 < Period
  <2>1. (r + 1) % Period = r + 1
    BY <1>6, <1>8
  <2>2. rate < Period => rr' = r + 1
    BY <1>2, <1>6, <2>1
  <2>3. taken = IF rate = Period \/ r + 1 < rate THEN 1 ELSE 0
    <3>1. CASE rate = Period
      BY <1>7, <3>1
    <3>2. CASE rate # Period
      <4>1. rr = r
        BY <1>3, <1>6, <3>2
      <4> QED
        BY <1>7, <2>1, <4>1
    <3> QED
      BY <3>1, <3>2
  <2>4. (IF rate = Period THEN r ELSE Within(r)) + taken = IF rate = Period THEN r + 1 ELSE Within(r + 1)
    BY <1>3, <1>6, <2>3 DEF Within
  <2>5. rate * q \in Nat /\ Period * q \in Nat
    BY <1>3, <1>6
  <2>6. Within(r) \in Nat /\ Within(r + 1) \in Nat
    BY <1>3, <1>6 DEF Within
  <2>7. sampled'.of = Period * q + (r + 1)
    BY <1>5, <1>6, <2>5
  <2>8. sampled'.taken = rate * q + (IF rate = Period THEN r + 1 ELSE Within(r + 1))
    BY <1>5, <1>6, <2>4, <2>5, <2>6
  <2>9. Within(r + 1)' = Within(r + 1)
    BY <1>2 DEF Within
  <2>10. q \in Nat /\ r + 1 \in 0..Period - 1
    BY <1>6, <1>8
  <2>11. Rounds(q, r + 1)'
    BY <1>2, <2>2, <2>7, <2>8, <2>9, <2>10 DEF Rounds
  <2> QED
    BY <1>2, <1>4, <2>11
<1>9. CASE r + 1 = Period
  <2>1. (r + 1) % Period = 0
    BY <1>6, <1>9
  <2>2. rate < Period => rr' = 0
    BY <1>2, <1>6, <2>1
  <2>3. taken = IF rate = Period \/ 0 < rate THEN 1 ELSE 0
    <3>1. CASE rate = Period
      BY <1>7, <3>1
    <3>2. CASE rate # Period
      <4>1. rr = r
        BY <1>3, <1>6, <3>2
      <4> QED
        BY <1>7, <2>1, <4>1
    <3> QED
      BY <3>1, <3>2
  <2>4. (IF rate = Period THEN r ELSE Within(r)) + taken = rate
    BY <1>3, <1>6, <1>9, <2>3 DEF Within
  <2>5. rate * (q + 1) = rate * q + rate /\ Period * (q + 1) = Period * q + Period
    BY <1>3, <1>6
  <2>6. rate * q \in Nat /\ Period * q \in Nat /\ Within(r) \in Nat
    BY <1>3, <1>6 DEF Within
  <2>7. sampled'.of = Period * (q + 1)
    BY <1>5, <1>6, <1>9, <2>5, <2>6
  <2>8. sampled'.taken = rate * (q + 1)
    BY <1>5, <1>6, <2>4, <2>5, <2>6
  <2>9. Within(0)' = 0
    BY <1>2, <1>3 DEF Within
  <2>10. q + 1 \in Nat /\ 0 \in 0..Period - 1 /\ rate * (q + 1) \in Nat /\ Period * (q + 1) \in Nat
    BY <1>3, <1>6
  <2>11. sampled'.of = Period * (q + 1) + 0 /\ sampled'.taken = rate * (q + 1) + 0
    BY <2>7, <2>8, <2>10
  <2>12. Rounds(q + 1, 0)'
    BY <1>2, <2>2, <2>9, <2>10, <2>11 DEF Rounds
  <2> QED
    BY <1>2, <1>4, <2>12
<1> QED
  BY <1>6, <1>8, <1>9

\* A set of places that is not empty has a last one.
LEMMA LastPlace ==
    ASSUME NEW n \in Nat, NEW S \in SUBSET (1..n), S # {}
    PROVE  Pick!Max(S) \in S /\ \A y \in S : Pick!Max(S) >= y
<1> DEFINE T == {m \in Nat : \E y \in S : m = n - y}
<1>1. T \in SUBSET Nat /\ T # {}
  <2>1. PICK y \in S : TRUE
    OBVIOUS
  <2>2. n - y \in Nat
    BY <2>1
  <2> QED
    BY <2>1, <2>2
<1>2. PICK m \in T : \A k \in T : m <= k
  <2> HIDE DEF T
  <2> QED
    BY <1>1, NaturalsHaveALeast
<1>3. PICK x \in S : m = n - x
  BY <1>2
<1>4. \A y \in S : x >= y
  <2> TAKE y \in S
  <2>1. n - y \in T
    OBVIOUS
  <2>2. m <= n - y
    BY <1>2, <2>1
  <2> QED
    BY <1>3, <2>2
<1> QED
  BY <1>4, Zenon DEF Pick!Max

\* What the classifier is shown is of the last turn of the user that has text.
LEMMA ShownIsTheLast ==
    ASSUME NEW body \in Pick!Bodies, NEW shown \in {0, Pick!ExtractPrompt(body).turn},
           request' = [body |-> body, shown |-> shown],
           shown # 0 => Pick!HasPrompt(body)
    PROVE  Pick!OnlyTheUserIsRead'
<1> USE PickNumbers
<1> SUFFICES ASSUME body.turns # <<>>, shown # 0
             PROVE  /\ body.turns[shown].role = "user"
                    /\ \A i \in shown + 1..Len(body.turns) :
                          body.turns[i].role = "user" => body.turns[i].form = "pictures"
  <2>1. request'.body = body /\ request'.shown = shown
    OBVIOUS
  <2> QED
    BY <2>1 DEF Pick!OnlyTheUserIsRead
<1> DEFINE turns == body.turns
           S == Pick!Asking(turns)
<1>1. PICK n \in 1..MaxTurns : turns \in [1..n -> Pick!Turn]
  BY DEF Pick!Bodies
<1>2. n \in Nat /\ Len(turns) = n /\ DOMAIN turns = 1..n
  BY <1>1
<1>3. S \in SUBSET (1..n)
  BY <1>2 DEF Pick!Asking
<1>4. S # {} /\ shown = Pick!Max(S)
  <2>1. CASE S = {}
    <3>1. Pick!ExtractPrompt(body) = Pick!Nothing
      BY <2>1 DEF Pick!ExtractPrompt
    <3> QED
      BY <3>1 DEF Pick!HasPrompt, Pick!Nothing
  <2>2. CASE S # {}
    <3>1. Pick!ExtractPrompt(body) = [turn |-> Pick!Max(S), form |-> turns[Pick!Max(S)].form]
      BY <2>2, Zenon DEF Pick!ExtractPrompt
    <3> QED
      BY <2>2, <3>1
  <2> QED
    BY <2>1, <2>2
<1>5. shown \in S /\ \A y \in S : shown >= y
  BY <1>2, <1>3, <1>4, LastPlace
<1>6. turns[shown].role = "user" /\ shown \in 1..n
  BY <1>3, <1>5 DEF Pick!Asking
<1>7. ASSUME NEW i \in shown + 1..Len(turns), turns[i].role = "user"
      PROVE  turns[i].form = "pictures"
  <2>1. i \in 1..n /\ i > shown
    BY <1>2, <1>6
  <2>2. i \notin S
    BY <1>5, <1>6, <2>1
  <2>3. turns[i] \in Pick!Turn
    BY <1>1, <2>1
  <2> QED
    BY <1>2, <1>7, <2>1, <2>2, <2>3 DEF Pick!Asking, Pick!Turn, Pick!Forms
<1> QED
  BY <1>6, <1>7

\* A step that leaves the counter alone.
LEMMA StaysChosen ==
    ASSUME PickTypes, \E q, r : Rounds(q, r), UNCHANGED <<rate, rr, sampled, skipped>>
    PROVE  PickTypes' /\ \E q, r : Rounds(q, r)'
<1>1. PickTypes'
  BY DEF PickTypes
<1>2. PICK q, r : Rounds(q, r)
  OBVIOUS
<1>3. Within(r)' = Within(r)
  BY DEF Within
<1>4. Rounds(q, r)'
  BY <1>2, <1>3 DEF Rounds
<1> QED
  BY <1>1, <1>4

\* A request leaves the counter's invariant.
LEMMA PickGoes == PickIInv /\ [Pick!Next]_Pick!vars => PickIInv'
<1> SUFFICES ASSUME PickIInv, [Pick!Next]_Pick!vars PROVE PickIInv'
  OBVIOUS
<1> USE PickNumbers
<1>1. PickTypes /\ (\E q, r : Rounds(q, r)) /\ Pick!OnlyTheUserIsRead
  BY DEF PickIInv
<1>2. ASSUME NEW taken \in {0, 1}, Pick!Counted(taken), Pick!Taken <=> taken = 1,
             skipped' = skipped + 1 - taken
      PROVE  PickTypes' /\ \E q, r : Rounds(q, r)'
  <2>1. /\ \E q, r : Rounds(q, r)'
        /\ rr' \in 0..Period - 1 /\ rate' = rate
        /\ sampled' = [of |-> sampled.of + 1, taken |-> sampled.taken + taken]
    BY <1>1, <1>2, CounterGoesOn
  <2>2. sampled.of \in Nat /\ sampled.taken \in Nat /\ skipped \in Nat /\ skipped = sampled.of - sampled.taken
    BY <1>1 DEF PickTypes
  <2>3. sampled' \in [of : Nat, taken : Nat] /\ sampled'.of = sampled.of + 1 /\ sampled'.taken = sampled.taken + taken
    BY <2>1, <2>2
  <2>4. skipped' \in Nat /\ skipped' = sampled'.of - sampled'.taken
    BY <1>2, <2>2, <2>3
  <2>5. rate' \in 0..Period
    BY <1>1, <2>1 DEF PickTypes
  <2> QED
    BY <2>1, <2>3, <2>4, <2>5 DEF PickTypes
<1>3. ASSUME NEW body \in Pick!Bodies, Pick!Ignored(body)
      PROVE  PickIInv'
  <2>1. UNCHANGED <<rate, rr, sampled, skipped>>
    BY <1>3 DEF Pick!Ignored
  <2>2. PickTypes' /\ \E q, r : Rounds(q, r)'
    BY <1>1, <2>1, StaysChosen
  <2>3. Pick!OnlyTheUserIsRead'
    <3>1. request' = [body |-> body, shown |-> 0]
      BY <1>3 DEF Pick!Ignored
    <3> QED
      BY <3>1, ShownIsTheLast
  <2> QED
    BY <2>2, <2>3 DEF PickIInv
<1>4. ASSUME NEW body \in Pick!Bodies, Pick!Skipped(body)
      PROVE  PickIInv'
  <2>1. skipped \in Nat
    BY <1>1 DEF PickTypes
  <2>2. skipped' = skipped + 1 - 0 /\ Pick!Counted(0) /\ ~Pick!Taken
    BY <1>4, <2>1 DEF Pick!Skipped
  <2>3. PickTypes' /\ \E q, r : Rounds(q, r)'
    BY <1>2, <2>2
  <2>4. Pick!OnlyTheUserIsRead'
    <3>1. request' = [body |-> body, shown |-> 0]
      BY <1>4 DEF Pick!Skipped
    <3> QED
      BY <3>1, ShownIsTheLast
  <2> QED
    BY <2>3, <2>4 DEF PickIInv
<1>5. ASSUME NEW body \in Pick!Bodies, Pick!Classified(body)
      PROVE  PickIInv'
  <2>1. skipped \in Nat
    BY <1>1 DEF PickTypes
  <2>2. skipped' = skipped + 1 - 1 /\ Pick!Counted(1) /\ Pick!Taken
    BY <1>5, <2>1 DEF Pick!Classified
  <2>3. PickTypes' /\ \E q, r : Rounds(q, r)'
    BY <1>2, <2>2
  <2>4. Pick!OnlyTheUserIsRead'
    <3> DEFINE shown == IF Pick!HasModel(body) /\ Pick!ExtractPrompt(body).form # "spaces"
                        THEN Pick!ExtractPrompt(body).turn ELSE 0
    <3>1. request' = [body |-> body, shown |-> shown] /\ Pick!HasPrompt(body)
      BY <1>5 DEF Pick!Classified
    <3>2. shown \in {0, Pick!ExtractPrompt(body).turn}
      OBVIOUS
    <3> HIDE DEF shown
    <3> QED
      BY <3>1, <3>2, ShownIsTheLast
  <2> QED
    BY <2>3, <2>4 DEF PickIInv
<1>6. CASE UNCHANGED Pick!vars
  <2>1. UNCHANGED <<rate, rr, sampled, skipped>> /\ request' = request
    BY <1>6 DEF Pick!vars
  <2>2. PickTypes' /\ \E q, r : Rounds(q, r)'
    BY <1>1, <2>1, StaysChosen
  <2>3. Pick!OnlyTheUserIsRead'
    BY <1>1, <2>1 DEF Pick!OnlyTheUserIsRead
  <2> QED
    BY <2>2, <2>3 DEF PickIInv
<1> QED
  BY <1>3, <1>4, <1>5, <1>6 DEF Pick!Next

\* The counter starts in its invariant.
LEMMA PickStarts == Pick!Init => PickIInv
<1> SUFFICES ASSUME Pick!Init PROVE PickIInv
  OBVIOUS
<1> USE PickNumbers
<1>1. /\ rate \in 0..Period /\ rr = 0 /\ sampled = [of |-> 0, taken |-> 0] /\ skipped = 0
      /\ request.body.turns = <<>>
  BY DEF Pick!Init
<1>2. PickTypes
  BY <1>1 DEF PickTypes
<1>3. Rounds(0, 0)
  BY <1>1 DEF Rounds, Within
<1>4. Pick!OnlyTheUserIsRead
  BY <1>1 DEF Pick!OnlyTheUserIsRead
<1> QED
  BY <1>2, <1>3, <1>4 DEF PickIInv

\* The counter that chooses prompts keeps its invariant.
THEOREM PickInvariance == AllSpec => [](part = "prompts" => PickIInv)
<1>1. AllInit => (part = "prompts" => PickIInv)
  BY PickStarts DEF AllInit
<1>2. (part = "prompts" => PickIInv) /\ [AllNext]_AllVars => (part = "prompts" => PickIInv)'
  <2> SUFFICES ASSUME part = "prompts" => PickIInv, [AllNext]_AllVars, part' = "prompts" PROVE PickIInv'
    OBVIOUS
  <2>1. part = "prompts" /\ [Pick!Next]_Pick!vars
    BY DEF AllNext, AllVars, InFeed, InLive, InPick, PickVars, Pick!vars
  <2> QED
    BY <2>1, PickGoes
<1> QED
  BY <1>1, <1>2, PTL DEF AllSpec

\* A counter in its invariant has taken the share.
LEMMA PickedWithin == PickIInv => Pick!ShareIsKept
<1> SUFFICES ASSUME PickIInv PROVE Pick!ShareIsKept
  OBVIOUS
<1> USE PickNumbers
<1>1. PickTypes
  BY DEF PickIInv
<1>2. PICK q, r : Rounds(q, r)
  BY DEF PickIInv
<1>3. /\ q \in Nat /\ r \in 0..Period - 1
      /\ sampled.of = Period * q + r
      /\ sampled.taken = rate * q + (IF rate = Period THEN r ELSE Within(r))
  BY <1>2 DEF Rounds
<1>4. rate \in 0..Period
  BY <1>1 DEF PickTypes
<1>5. sampled.of % Period = r /\ sampled.of \div Period = q
  BY <1>3, RoundsAreQuotients
<1>6. rate * q \in Nat /\ Period * q \in Nat /\ rate * (q + 1) = rate * q + rate
  BY <1>3, <1>4
<1>7. (IF rate = Period THEN r ELSE Within(r)) <= rate /\ Within(0) = 0
  BY <1>3, <1>4 DEF Within
<1>8. Within(r) \in Nat
  BY <1>3, <1>4 DEF Within
<1>9. sampled.taken <= rate * (sampled.of \div Period + 1)
  BY <1>3, <1>4, <1>5, <1>6, <1>7, <1>8
<1>10. ASSUME r = 0
       PROVE  sampled.taken * Period = rate * sampled.of
  <2>1. sampled.taken = rate * q /\ sampled.of = Period * q
    BY <1>3, <1>6, <1>7, <1>10
  <2>2. (rate * q) * Period = rate * (Period * q)
    BY <1>3, <1>4
  <2> QED
    BY <2>1, <2>2
<1> QED
  BY <1>1, <1>5, <1>9, <1>10 DEF Pick!ShareIsKept, PickTypes

\* _extract_prompt(), _maybe_classify(): the classifier is shown no turn but the user's
\* last, and of each round of the counter exactly the share that was asked for.
THEOREM PromptsAreChosen == AllSpec => []ShareIsKept
<1>1. (part = "prompts" => PickIInv) => ShareIsKept
  BY PickedWithin DEF PickIInv, ShareIsKept
<1> QED
  BY <1>1, PickInvariance, PTL

\* The classifier is given no more than it is meant to be, whether one looks at how many
\* prompts it is asked about or at which; of a request its category and its model leave.
THEOREM ClassifierStaysWithin == AllSpec => []ClassifierKeepsWithin
BY FeedIsWithin, PromptsAreChosen, PTL DEF ClassifierKeepsWithin
===============================================================================
