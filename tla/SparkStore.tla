------------------------------ MODULE SparkStore ------------------------------
(***************************************************************************)
(* sparkboard/app/store.py, driven by the sampler loop, the start-up of    *)
(* sparkboard/app/server.py, and restarts: a raw tier with every sample    *)
(* and a one-minute tier re-aggregated from it.                            *)
(*                                                                         *)
(* A sample is its timestamp in whole seconds, and a row of the minute     *)
(* tier is the set of samples its AVG() was taken over ({} is no row), so  *)
(* an average that left samples out is told from one that did not.  The    *)
(* gpu and container tables go through the same statements with the same   *)
(* cut-offs; the host table stands for them.                               *)
(*                                                                         *)
(* The inventory of containers, a row of it and the collectors are         *)
(* instances beside the store: a behaviour of AllSpec follows one of the   *)
(* four, and the variables of the others stay as they are.                 *)
(***************************************************************************)
EXTENDS Integers, FiniteSets

CONSTANTS
    MinuteLen,      \* 60
    Window,         \* ROLLUP_WINDOW
    RawRetention,   \* RAW_RETENTION
    RollRetention,  \* ROLL_RETENTION
    MaintEvery,     \* 60: a pass is due when the last is longer ago than this
    MaxLoop,        \* one turn of the sampler loop takes at most this long
    Day,            \* 24 h: the longest range answered from the raw tier
    Ranges,         \* the ranges the API offers
    Horizon         \* bound: the clock stops here

\* The order the defaults have: a pass comes round well within the window, the
\* raw tier outlives a day, the minute tier outlives the raw one by more than
\* a minute.
ASSUME TimesAssumption ==
    /\ {MinuteLen, MaintEvery, MaxLoop} \subseteq Nat \ {0}
    /\ {Window, RawRetention, RollRetention, Day, Horizon} \subseteq Nat
    /\ Ranges \subseteq Nat
    /\ MaintEvery + 2 * MaxLoop < Window
    /\ Day <= RawRetention /\ Window + MaxLoop < RawRetention
    /\ RawRetention + MinuteLen <= RollRetention

VARIABLES
    now,        \* time.time(), whole seconds
    raw,        \* table host
    rolled,     \* table host_1m: minute -> the samples averaged
    phase,      \* where the sampler loop is, "down" between processes
    t0,         \* t0 of this turn of the loop
    lastMaint,  \* last_maint
    taken,      \* history: every sample ever inserted
    passAt,     \* history: the time of the last pass or backfill that worked
    logged      \* history: the log has told of a failed pass or backfill

vars == <<now, raw, rolled, phase, t0, lastMaint, taken, passAt, logged>>

Times == 0..Horizon
Never == -MaintEvery - 1    \* last_maint = 0.0: a pass is due at once
MinuteOf(t) == t \div MinuteLen
Minutes == 0..MinuteOf(Horizon)
HasRow(m) == rolled[m] # {}
Largest(S) == CHOOSE x \in S : \A y \in S : y <= x
Smallest(S) == CHOOSE x \in S : \A y \in S : x <= y

Init ==
    /\ now = 0
    /\ raw = {}
    /\ rolled = [m \in Minutes |-> {}]
    /\ phase = "down"
    /\ t0 = 0
    /\ lastMaint = Never
    /\ taken = {}
    /\ passAt = -1
    /\ logged = FALSE

-----------------------------------------------------------------------------
(* The statements of store.py *)

\* Two plausible bugs: INSERT OR IGNORE, which keeps a minute's first row,
\* and grouping by the nearest minute.
RolledOnce(since) ==
    [m \in Minutes |->
        IF HasRow(m) THEN rolled[m] ELSE {t \in raw : t >= since /\ MinuteOf(t) = m}]

RolledByNearest(since) ==
    [m \in Minutes |->
        LET fresh == {t \in raw : t >= since /\ (t + 1) \div MinuteLen = m}
        IN IF fresh = {} THEN rolled[m] ELSE fresh]

\* _rollup_since: INSERT OR REPLACE ... WHERE ts >= since GROUP BY ts/60.  A
\* minute without such samples keeps the row it has.
RolledSince(since) ==
    [m \in Minutes |->
        LET fresh == {t \in raw : t >= since /\ MinuteOf(t) = m}
        IN IF fresh = {} THEN rolled[m] ELSE fresh]

\* A plausible bug: a tier that has rows is taken to be complete.
BackfilledIfEmpty ==
    IF raw = {} \/ \E m \in Minutes : HasRow(m) THEN rolled ELSE RolledSince(Smallest(raw))

\* backfill: since the last row or the oldest raw sample, whichever is older.
Backfilled ==
    LET rows == {m \in Minutes : HasRow(m)}
        oldest == Smallest(raw)
        lastRolled == MinuteLen * Largest(rows)
    IN IF raw = {} THEN rolled
       ELSE RolledSince(IF rows = {} \/ oldest < lastRolled THEN oldest ELSE lastRolled)

\* insert(): INSERT OR REPLACE by the second.
Inserted == raw \cup {t0}

KeptRaw == {t \in raw : t >= now - RawRetention}
KeptRows ==
    [m \in Minutes |-> IF MinuteLen * m < now - RollRetention THEN {} ELSE rolled[m]]

-----------------------------------------------------------------------------
(* The process: lifespan() and sampler() *)

\* Time passes between any two steps; a turn of the loop is not longer than
\* MaxLoop (no suspended host, no collector that hangs for minutes).
Tick ==
    /\ now < Horizon
    /\ phase # "down" => now < t0 + MaxLoop
    /\ now' = now + 1
    /\ UNCHANGED <<raw, rolled, phase, t0, lastMaint, taken, passAt, logged>>

\* lifespan(): backfill, then the sampler thread with last_maint = 0.
Start ==
    /\ phase = "down"
    /\ phase' = "sampling"
    /\ t0' = now
    /\ \/ rolled' = Backfilled /\ passAt' = now /\ UNCHANGED logged
       \/ logged' = TRUE /\ UNCHANGED <<rolled, passAt>>
    /\ UNCHANGED <<now, raw, lastMaint, taken>>

\* The process is stopped or killed at any point; only the database stays.
Stop ==
    /\ phase # "down"
    /\ phase' = "down"
    /\ t0' = 0
    /\ lastMaint' = Never
    /\ UNCHANGED <<now, raw, rolled, taken, passAt, logged>>

\* collect() and insert(); the sample is put at the turn's start.  collect() stamps it when
\* its readings are done (collector.py:598), which a turn that takes time makes later.
\* A failure is counted and the loop goes on.
Sample ==
    /\ phase = "sampling"
    /\ \/ raw' = Inserted /\ taken' = taken \cup {t0}
       \/ UNCHANGED <<raw, taken>>
    /\ phase' = IF now - lastMaint > MaintEvery THEN "rollup" ELSE "sleeping"
    /\ lastMaint' = IF now - lastMaint > MaintEvery THEN now ELSE lastMaint
    /\ UNCHANGED <<now, rolled, t0, passAt, logged>>

\* rollup(); when it raises, prune() is skipped and the failure is logged.
Rollup ==
    /\ phase = "rollup"
    /\ \/ /\ rolled' = RolledSince(now - Window)
          /\ passAt' = now
          /\ phase' = "prune"
          /\ UNCHANGED logged
       \/ /\ logged' = TRUE
          /\ phase' = "sleeping"
          /\ UNCHANGED <<rolled, passAt>>
    /\ UNCHANGED <<now, raw, t0, lastMaint, taken>>

\* prune(); the statements commit together or, on an error, not at all.
Prune ==
    /\ phase = "prune"
    /\ \/ raw' = KeptRaw /\ rolled' = KeptRows
       \/ UNCHANGED <<raw, rolled>>
    /\ phase' = "sleeping"
    /\ UNCHANGED <<now, t0, lastMaint, taken, passAt, logged>>

\* stop.wait() returns and the next turn begins.
Wake ==
    /\ phase = "sleeping"
    /\ now > t0
    /\ phase' = "sampling"
    /\ t0' = now
    /\ UNCHANGED <<now, raw, rolled, lastMaint, taken, passAt, logged>>

Next == Tick \/ Start \/ Stop \/ Sample \/ Rollup \/ Prune \/ Wake

Spec == Init /\ [][Next]_vars

-----------------------------------------------------------------------------
(* history(): what the charts are drawn from *)

\* A plausible bug: the raw tier for any range the database covers.
SourceByAge(range) == IF range <= RollRetention THEN "raw" ELSE "1m"
Source(range) == IF range <= Day THEN "raw" ELSE "1m"       \* plan()
RawAnswer(range) == {t \in raw : t >= now - range}
MinuteAnswer(range) == {m \in Minutes : HasRow(m) /\ MinuteLen * m >= now - range}

-----------------------------------------------------------------------------
(* Properties *)

TypeOK ==
    /\ now \in Times /\ t0 \in Times
    /\ raw \subseteq taken /\ taken \subseteq Times
    /\ DOMAIN rolled = Minutes
    /\ \A m \in Minutes : rolled[m] \subseteq {t \in taken : MinuteOf(t) = m}
    /\ phase \in {"down", "sampling", "rollup", "prune", "sleeping"}
    /\ lastMaint \in Times \cup {Never}
    /\ passAt \in -1..Horizon
    /\ logged \in BOOLEAN

\* store.py:10-11: no restart leaves a hole.  A sample leaves the raw tier only
\* when its minute has a row, unless that row is past its own retention, or
\* the log told of a failure.
HolesAreLogged ==
    \A t \in taken :
        \/ t \in raw
        \/ HasRow(MinuteOf(t))
        \/ MinuteLen * MinuteOf(t) < now - RollRetention
        \/ logged

\* Whatever range is asked for, while the process is up and before any failure:
\* a range answered from the raw tier has every sample in it, and a longer one
\* has the minute of every sample that was there at the last pass and whose row is
\* within its retention.
HistoryIsWhole ==
    phase # "down" /\ ~logged => \A range \in Ranges :
        IF Source(range) = "raw"
        THEN RawAnswer(range) = {t \in taken : t >= now - range}
        ELSE {MinuteOf(t) : t \in {x \in taken : x < passAt}}
                 \cap {m \in Minutes : MinuteLen * m >= now - range /\ MinuteLen * m >= now - RollRetention}
               \subseteq MinuteAnswer(range)

\* "self-healing": the minutes that lie wholly inside the window of the last
\* pass are averaged over every sample they have.
RecentMinutesWhole ==
    \A m \in Minutes :
        MinuteLen * m >= passAt - Window /\ MinuteLen * (m + 1) <= passAt
        => rolled[m] = {t \in taken : MinuteOf(t) = m} \/ logged

\* store.py:9-10: "re-aggregates the last few minutes on every pass with INSERT
\* OR REPLACE.  That's idempotent": a pass never takes samples out of a row.
PassesKeepSamples ==
    [][\A m \in Minutes : rolled'[m] = {} \/ rolled[m] \subseteq rolled'[m]]_vars

-----------------------------------------------------------------------------
(* What the sampler threads keep and collect *)

CONSTANTS
    Parts, \* the parts that are looked at
    Names, Unit, MaxEvents,                             \* Inventory
    Gpus, Procs, HostTotal, Limit, MaxGpus, MaxProcs, MaxBytes, \* Collectors
    Cpus, Memory, Ports, MaxTime                        \* ContainerStats

VARIABLES
    part,
    cli, daemon, total, moved, events, client, pass, prev, shown, \* Inventory
    counter, last, seen, sample,                                  \* Collectors, and moved
    sys, cpu, pre, row                                            \* ContainerStats

Docker == INSTANCE Inventory
Read == INSTANCE Collectors WITH raw <- seen
Stats == INSTANCE ContainerStats

\* Instances get the assumptions of their modules here.
ASSUME PartsAssumption ==
    /\ Docker!InventoryAssumption
    /\ Read!CollectorsAssumption
    /\ Stats!ContainerStatsAssumption

-----------------------------------------------------------------------------
DockerVars == <<cli, daemon, total, events, client, pass, prev, shown>>
ReadVars == <<counter, last, seen, sample>>
StatsVars == <<sys, cpu, pre, row>>
AllVars == <<part, vars, DockerVars, moved, ReadVars, StatsVars>>
InStore(A) == part = "store" /\ A /\ UNCHANGED <<part, DockerVars, moved, ReadVars, StatsVars>>
InDocker(A) == part = "docker" /\ A /\ UNCHANGED <<part, vars, ReadVars, StatsVars>>
InRead(A) == part = "read" /\ A /\ UNCHANGED <<part, vars, DockerVars, StatsVars>>
InStats(A) == part = "stats" /\ A /\ UNCHANGED <<part, vars, DockerVars, moved, ReadVars>>

Off == 0
AllInit ==
    /\ part \in Parts
    /\ Init
    /\ part \in {"store", "stats"} => moved = Off
    /\ IF part = "stats" THEN Stats!Init ELSE sys = Off /\ cpu = Off /\ pre = Off /\ row = Off
    /\ IF part = "docker" THEN Docker!Init
       ELSE cli = Off /\ daemon = Off /\ total = Off /\ events = Off /\ client = Off /\ pass = Off
            /\ prev = Off /\ shown = Off
    /\ IF part = "read" THEN Read!Init ELSE counter = Off /\ last = Off /\ seen = Off /\ sample = Off

AllNext == InStore(Next) \/ InDocker(Docker!Next) \/ InRead(Read!Next) \/ InStats(Stats!Next)

AllSpec == AllInit /\ [][AllNext]_AllVars

-----------------------------------------------------------------------------
(* Properties *)

\* Inventory: a rate counts no bytes that were not moved.
RatesTellTruly == part = "docker" => Docker!RatesTellTruly
\* Collectors: the memory of cards and the rates are those of the host.
CollectorsTellTruly == part = "read" => Read!CollectorsTellTruly
\* ContainerStats: a row shows the work, the memory and the ports of its container.
RowTellsTruly == part = "stats" => Stats!RowTellsTruly
\* Both: the inventory shows nothing that a container does not have or has not done.
InventoryTellsTruly == RatesTellTruly /\ RowTellsTruly
=================================================================================
