------------------------------- MODULE Collectors -------------------------------
(***************************************************************************)
(* sparkboard/app/collector.py: what a pass makes of the raw readings of    *)
(* the host.  nvidia-smi gives [N/A] (None) for what a part does not        *)
(* report; the memory of a GPU that reports none is added up from the       *)
(* processes that hold it.                                                  *)
(***************************************************************************)
EXTENDS Integers, Sequences, FiniteSets

CONSTANTS
    Gpus,      \* GPUs a host may have, as they report: [uuid, total, used, free]
    Procs,     \* processes: the GPU they are on (its place), what they hold there, and
               \* whether nvidia-smi names that GPU and tells what they hold
    HostTotal, \* memory of the host
    Limit,     \* collect_processes(): no more of them are listed
    MaxGpus,   \* bounds: the GPUs and the processes of a host,
    MaxProcs,
    MaxBytes   \* and the bytes that it moves

None == -1

CollectorsAssumption ==
    /\ HostTotal \in Nat \ {0} /\ Limit \in Nat /\ {MaxGpus, MaxProcs, MaxBytes} \subseteq Nat
    /\ \A p \in Procs : p.holds \in Nat
    /\ \A g \in Gpus : {g.total, g.used, g.free} \subseteq Nat \cup {None}

VARIABLES
    counter, \* of the host, that stands for its four; it starts again with its device
    moved,   \* history: bytes ever moved
    last,    \* HostCollector._last, and what had been moved by then
    raw,     \* the GPUs and the processes on them
    sample   \* what the pass makes of them

vars == <<counter, moved, last, raw, sample>>

NoLast == [bytes |-> None, true |-> 0, primed |-> FALSE]
NoSample == [gpus |-> <<>>, rate |-> None, of |-> 0]
Lists(S, most) == UNION {[1..n -> S] : n \in 0..most}

\* What nvidia-smi says that a process holds.
Mem(p) == IF p.told THEN p.holds ELSE None
\* No two GPUs have the same UUID, a process is on one of them, and the list is sorted:
\* those that hold most, or are told to, come first.
Hosts ==
    {h \in [gpus : Lists(Gpus, MaxGpus), procs : Lists(Procs, MaxProcs)] :
        /\ \A i, j \in DOMAIN h.gpus : i # j /\ h.gpus[i].uuid # None => h.gpus[i].uuid # h.gpus[j].uuid
        /\ \A i \in DOMAIN h.procs : h.procs[i].on \in DOMAIN h.gpus
        /\ \A i, j \in DOMAIN h.procs :
              i < j /\ Mem(h.procs[j]) > 0 => Mem(h.procs[i]) >= Mem(h.procs[j])}

Init ==
    /\ counter = 0 /\ moved = 0 /\ last = NoLast /\ sample = NoSample
    /\ raw \in Hosts

-----------------------------------------------------------------------------
(* reconcile_memory() *)

\* collect_processes(): the places of those that are listed; the GPU one of them names.
ListedProcs == {i \in DOMAIN raw.procs : i <= Limit}
Named(p) == IF p.named THEN raw.gpus[p.on].uuid ELSE None

\* A plausible bug: every process counts on every GPU.
AllOfThem(gpu) == ListedProcs
\* The places of the processes on a GPU, by UUID if there are any; all of them only if
\* it is alone.
OnIt(gpu) ==
    IF raw.gpus[gpu].uuid # None /\ \E i \in ListedProcs : Named(raw.procs[i]) # None
    THEN {i \in ListedProcs : Named(raw.procs[i]) = raw.gpus[gpu].uuid}
    ELSE IF Len(raw.gpus) = 1 THEN ListedProcs ELSE {}

\* sum() of a list, place by place.
AddedUp(numbers) ==
    LET upTo[i \in 0..Len(numbers)] == IF i = 0 THEN 0 ELSE upTo[i - 1] + numbers[i]
    IN upTo[Len(numbers)]
\* The memory of those that tell it.
Mems(places) ==
    [i \in 1..Len(raw.procs) |-> IF i \in places /\ raw.procs[i].told THEN raw.procs[i].holds ELSE 0]

\* A GPU without a total has the memory of the host.
Reconciled(gpu) ==
    LET g == raw.gpus[gpu]
        total == IF g.total = None THEN HostTotal ELSE g.total
        used == IF g.used = None /\ OnIt(gpu) # {} THEN AddedUp(Mems(OnIt(gpu))) ELSE g.used
    IN [total |-> total, used |-> used,
        free |-> IF g.free # None \/ used = None THEN g.free ELSE IF used > total THEN 0 ELSE total - used]

\* A plausible bug: a counter that started again goes backwards.
AnyDelta(a, b) == IF a = None \/ b = None THEN None ELSE b - a
\* HostCollector: a rate over the last pass that could be read.
Delta(a, b) == IF a = None \/ b = None \/ b < a THEN None ELSE b - a

-----------------------------------------------------------------------------
\* The pass; a counter may be missing.
Collect ==
    /\ \E bytes \in {None, counter} :
          /\ last' = [bytes |-> bytes, true |-> moved, primed |-> TRUE]
          /\ sample' = [gpus |-> [i \in DOMAIN raw.gpus |-> Reconciled(i)],
                        rate |-> IF last.primed THEN Delta(last.bytes, bytes) ELSE None,
                        of |-> moved - last.true]
    /\ UNCHANGED <<counter, moved, raw>>
\* The counters raise: the last reading stays.
CountersRaise ==
    /\ sample' = [gpus |-> [i \in DOMAIN raw.gpus |-> Reconciled(i)], rate |-> None, of |-> 0]
    /\ UNCHANGED <<counter, moved, last, raw>>

Moves == moved < MaxBytes /\ moved' = moved + 1 /\ counter' = counter + 1 /\ UNCHANGED <<last, raw, sample>>
StartsAgain == counter # 0 /\ counter' = 0 /\ UNCHANGED <<moved, last, raw, sample>>

Next == Collect \/ CountersRaise \/ Moves \/ StartsAgain

-----------------------------------------------------------------------------
(* Properties *)

\* What the processes on a GPU really hold.
Held(gpu) ==
    AddedUp([i \in 1..Len(raw.procs) |-> IF raw.procs[i].on = gpu THEN raw.procs[i].holds ELSE 0])
ProcsOf(gpu) == {i \in DOMAIN raw.procs : raw.procs[i].on = gpu}
\* All that its processes hold can be told: they are listed, say how much it is, and which
\* GPU they are on unless there is but one and none of them says.
AllIsTold(gpu) ==
    /\ ProcsOf(gpu) \subseteq ListedProcs /\ \A i \in ProcsOf(gpu) : raw.procs[i].told
    /\ \/ raw.gpus[gpu].uuid # None /\ \A i \in ProcsOf(gpu) : raw.procs[i].named
       \/ Len(raw.gpus) = 1 /\ \A i \in DOMAIN raw.procs : Named(raw.procs[i]) = None

\* "allocation is reconstructed by summing it": a GPU that reports no memory in use is
\* never shown with more than its processes hold, whatever GPUs there are beside it and
\* whatever is not told, and with exactly that when all of it is told; and no rate counts
\* bytes that were not moved.  Of processes that all say [N/A] the sum is 0
\* (collector.py:302) and is shown, though "a missing sensor never masquerades as a real
\* reading of 0" (12-14).
CollectorsTellTruly ==
    /\ \A gpu \in DOMAIN sample.gpus : raw.gpus[gpu].used = None =>
          /\ sample.gpus[gpu].used <= Held(gpu)
          /\ AllIsTold(gpu) /\ ProcsOf(gpu) # {} => sample.gpus[gpu].used = Held(gpu)
    /\ sample.rate <= sample.of
=================================================================================
