---------------------------- MODULE ContainerStats ----------------------------
(***************************************************************************)
(* sparkboard/app/services.py: what one row of the inventory says of a      *)
(* container's processor, memory and ports.  The daemon gives two readings  *)
(* of the processor's counters, the earlier of which may be missing; the    *)
(* command line gives the ports as text, neighbours in one range.           *)
(***************************************************************************)
EXTENDS Integers, Sequences, FiniteSets, FiniteSetsExt

CONSTANTS
    Cpus,     \* processors
    Memory,   \* sizes that memory, its cache and its limit may have
    Ports,    \* entries a container may have: [public, private, family]
    MaxTime   \* bound: the clock

ContainerStatsAssumption ==
    /\ Cpus \in Nat \ {0} /\ MaxTime \in Nat
    /\ Memory \subseteq Nat /\ \A p \in Ports : p.private \in Nat

VARIABLES
    sys,  \* system_cpu_usage: time of all processors since the host started
    cpu,  \* total_usage: time of the container since it started
    pre,  \* precpu_stats: the earlier reading, and what was used since; {} at first
    row   \* what is shown

vars == <<sys, cpu, pre, row>>

None == -1
NoRow == [cpu |-> None, of |-> 0, used |-> None, usage |-> None, full |-> None,
          api |-> {}, cli |-> {}, listed |-> {}]

Init == sys = 0 /\ cpu = 0 /\ pre = {} /\ row = NoRow

\* Some processors work for the container, all of them count.
Work(n) ==
    /\ sys < MaxTime * Cpus
    /\ sys' = sys + Cpus /\ cpu' = cpu + n
    /\ pre' = {[p EXCEPT !.since = @ + n] : p \in pre}
    /\ UNCHANGED row

\* Its counter starts again, the daemon's earlier reading may be of the time before.
StartsAgain == cpu' = 0 /\ UNCHANGED <<sys, pre, row>>

FirstReading == pre' = {[cpu |-> cpu, sys |-> sys, since |-> 0]} /\ UNCHANGED <<sys, cpu, row>>

\* A plausible bug: a counter that went backwards is taken for what it says.
AnyDelta(delta) == delta # 0
Advanced(delta) == delta > 0

\* _api_cpu_percent(), in hundredths: without an earlier reading, since the start.
CpuPercent ==
    LET earlier == IF pre = {} THEN [cpu |-> 0, sys |-> 0] ELSE CHOOSE p \in pre : TRUE
        used == cpu - earlier.cpu
        elapsed == sys - earlier.sys
    IN IF Advanced(used) /\ elapsed > 0 THEN (used * Cpus * 100) \div elapsed ELSE None

\* _api_memory(): under cgroup v1 the cache has another name; a v2 name counts first.
UsedMemory(usage, v2, v1) ==
    LET cache == IF v2 # None THEN v2 ELSE IF v1 # None THEN v1 ELSE 0
    IN IF usage = None THEN None ELSE Max({0, usage - cache})
Percent(used, limit) == IF used = None \/ limit \in {None, 0} THEN None ELSE (used * 100) \div limit

\* api_ports(): a mapping once, whatever family it is listed for.
ApiPorts(entries) == {[host |-> e.public, container |-> e.private] : e \in entries}

\* docker ps puts neighbours that are published to neighbours into one range.
Follows(d, e) ==
    /\ e.private = d.private + 1 /\ d.family = e.family
    /\ e.public = IF d.public = None THEN None ELSE d.public + 1
InRange(entries, e) == \E d \in entries : Follows(d, e) \/ Follows(e, d)
\* parse_ports() knows no ranges.
CliPorts(entries) == ApiPorts({e \in entries : ~InRange(entries, e)})

\* collect_docker_api() and the other way, of a container with these ports and memory.
Read(usage, v2, v1, limit, entries) ==
    LET used == UsedMemory(usage, v2, v1)
    IN row' = [cpu |-> CpuPercent, of |-> IF pre = {} THEN cpu ELSE (CHOOSE p \in pre : TRUE).since,
               used |-> used, usage |-> usage, full |-> Percent(used, limit),
               api |-> ApiPorts(entries), cli |-> CliPorts(entries), listed |-> entries]
       /\ UNCHANGED <<sys, cpu, pre>>

\* Ports and memory are looked at apart: they have nothing to do with each other.
ReadAny ==
    \/ \E usage \in Memory \cup {None}, v2, v1, limit \in Memory \cup {None} :
          Read(usage, v2, v1, limit, {})
    \/ \E entries \in SUBSET Ports : Read(0, None, None, None, entries)

Next == (\E n \in 0..Cpus : Work(n)) \/ StartsAgain \/ FirstReading \/ ReadAny

-----------------------------------------------------------------------------
(* Properties *)

\* "The same arithmetic docker stats does": a container never shows more than all
\* processors, nor work that it did not do, started again or not; it has no more memory
\* than the kernel counts; and each port it shows is one it has, listed once for each
\* mapping however many families there are, the same either way where no ranges are.
RowTellsTruly ==
    /\ row.cpu \in {None} \cup 0..100 * Cpus
    /\ row.of = 0 => row.cpu = None
    /\ row.usage # None => row.used \in 0..row.usage
    /\ row.usage = None => row.used = None /\ row.full = None
    /\ row.cli \subseteq row.api
    /\ (\A e \in row.listed : ~InRange(row.listed, e)) => row.cli = row.api
    /\ \A p \in row.api : \E e \in row.listed : e.public = p.host /\ e.private = p.container
===============================================================================
