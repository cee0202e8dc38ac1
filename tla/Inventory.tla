------------------------------- MODULE Inventory -------------------------------
(***************************************************************************)
(* sparkboard/app/services.py and the thread of server.py that calls it:    *)
(* the inventory of containers, from Docker's socket or its command line,   *)
(* and the rates made of two passes' counters.  One counter stands for the  *)
(* four that Docker gives.                                                  *)
(***************************************************************************)
EXTENDS Integers, FiniteSets

CONSTANTS
    Names,    \* of containers
    Unit,     \* the command line rounds counters to this
    MaxEvents \* bound: changes of the containers and of the daemon

InventoryAssumption == Unit \in Nat \ {0} /\ MaxEvents \in Nat

VARIABLES
    cli,      \* _DOCKER: whether the command line is installed
    daemon,   \* whether its socket is there, whether it answers
    total,    \* container -> bytes since it started; Gone
    moved,    \* history: container -> bytes of all that had its name
    events,   \* history: changes so far
    client,   \* _api_client and _api_failed: "none", "built" or "failed"
    pass,     \* where collect() is, what it has
    prev,     \* _prev: name -> its last reading
    shown     \* STATE.services

vars == <<cli, daemon, total, moved, events, client, pass, prev, shown>>

Gone == -1
None == -1
World == <<cli, daemon, total, moved, events>>
Between == [at |-> "between"]
Live == {n \in Names : total[n] # Gone}
NothingShown == [available |-> FALSE, by |-> "none", rates |-> <<>>]

Init ==
    /\ cli \in BOOLEAN
    /\ daemon \in [socket : BOOLEAN, answers : BOOLEAN]
    /\ daemon.answers => daemon.socket
    /\ total \in [Names -> {Gone, 0}]
    /\ moved = [n \in Names |-> 0] /\ events = 0
    /\ client = "none" /\ pass = Between /\ prev = <<>>
    /\ shown = NothingShown

-----------------------------------------------------------------------------
(* Docker *)

Happens == events < MaxEvents /\ events' = events + 1 /\ UNCHANGED <<cli, client, pass, prev, shown>>
Traffic(n) ==
    /\ Happens /\ n \in Live
    /\ total' = [total EXCEPT ![n] = @ + 1] /\ moved' = [moved EXCEPT ![n] = @ + 1]
    /\ UNCHANGED daemon
\* It is started, again or for the first time under this name; or removed.
Turn(n, bytes) ==
    /\ Happens /\ total' = [total EXCEPT ![n] = bytes] /\ UNCHANGED <<daemon, moved>>
DaemonTurns ==
    /\ Happens
    /\ daemon' \in {[socket |-> TRUE, answers |-> TRUE], [daemon EXCEPT !.answers = FALSE]}
    /\ daemon' # daemon
    /\ UNCHANGED <<total, moved>>

-----------------------------------------------------------------------------
(* collect_docker() *)

\* Whether a counter was read as it is, beside what had been moved, is history.
Reading(n) == [bytes |-> None, true |-> moved[n], exact |-> TRUE]
Listed(by) == [at |-> "reading", by |-> by, left |-> Live, read |-> [n \in Live |-> Reading(n)]]

\* _docker_api(): the client is built once; a socket that is missing then is not looked
\* for again.
Client == IF client # "none" THEN client ELSE IF daemon.socket THEN "built" ELSE "failed"
Unavailable == [at |-> "rates", by |-> "none", left |-> {}, read |-> <<>>]

\* docker ps
ListedByCli == Listed("cli")

\* The list, from the API or, when that fails in this pass, from the command line; the next
\* pass asks the API again.  Either may run out of time though the daemon answers.
List ==
    /\ pass = Between
    /\ client' = Client
    /\ \/ Client = "built" /\ daemon.answers /\ pass' = Listed("api")
       \/ cli /\ daemon.answers /\ pass' = ListedByCli
       \/ pass' = Unavailable
    /\ UNCHANGED <<World, prev, shown>>

\* _size() of what docker prints: the nearest of the values it can.
Printed(bytes) == ((2 * bytes + Unit) \div (2 * Unit)) * Unit
Counter(n) == IF n \in Live THEN total[n] ELSE None

\* What fails, or comes for a container that is gone, leaves nothing.
Take(some, Bytes(_)) ==
    /\ pass' = [pass EXCEPT !.left = @ \ some,
           !.read = [n \in DOMAIN @ |->
               IF n \in some THEN [bytes |-> Bytes(n), true |-> moved[n], exact |-> pass.by = "api"]
               ELSE @[n]]]
    /\ UNCHANGED <<World, client, prev, shown>>
Nothing(n) == None

\* Every container's stats in a thread of its own.
ReadStats ==
    /\ pass.at = "reading" /\ pass.by = "api"
    /\ \E n \in pass.left : Take({n}, Counter) \/ Take({n}, Nothing)

\* docker stats: all of them at once.
ReadCliStats ==
    /\ pass.at = "reading" /\ pass.by = "cli" /\ pass.left # {}
    /\ \/ Take(pass.left, LAMBDA n : IF n \in Live THEN Printed(total[n]) ELSE None)
       \/ Take(pass.left, Nothing)

-----------------------------------------------------------------------------
(* ServiceCollector.collect() *)

\* A plausible bug: the counters of a container that was started again go backwards.
AnyDelta(a, b) == IF a = None \/ b = None THEN None ELSE b - a
\* A container that was started again has counted from nothing: no rate.
Delta(a, b) == IF a = None \/ b = None \/ b < a THEN None ELSE b - a

\* _rates(); nothing when the clock has not moved on.
Rate(n, forward) ==
    IF n \notin DOMAIN prev \/ ~forward THEN [bytes |-> None, of |-> 0, exact |-> TRUE]
    ELSE [bytes |-> Delta(prev[n].bytes, pass.read[n].bytes),
          of |-> pass.read[n].true - prev[n].true, exact |-> prev[n].exact /\ pass.read[n].exact]

\* Of containers that are gone nothing is kept.
Rates ==
    /\ pass.at \in {"reading", "rates"} /\ pass.left = {}
    /\ \E forward \in BOOLEAN :
          pass' = [at |-> "rated",
                   made |-> [available |-> pass.by # "none", by |-> pass.by,
                             rates |-> [n \in DOMAIN pass.read |-> Rate(n, forward)]]]
    /\ prev' = pass.read
    /\ UNCHANGED <<World, client, shown>>

\* services_sampler(): the snapshot is shown, unless the listing of sockets raises.
Publish ==
    /\ pass.at = "rated" /\ pass' = Between
    /\ shown' = pass.made \/ UNCHANGED shown
    /\ UNCHANGED <<World, client, prev>>

Next ==
    \/ List \/ ReadStats \/ ReadCliStats \/ Rates \/ Publish \/ DaemonTurns
    \/ \E n \in Names : Traffic(n) \/ Turn(n, 0) \/ (n \in Live /\ Turn(n, Gone))

Spec == Init /\ [][Next]_vars

-----------------------------------------------------------------------------
(* Properties *)

\* _rates(): no rate is negative, and none counts more bytes than containers of that
\* name moved between the two readings, whatever was started again, removed or not read in
\* between; where the command line made one of the two, or both, it is off by less than
\* what that rounds to.
RatesTellTruly ==
    /\ \A n \in DOMAIN shown.rates :
          LET rate == shown.rates[n]
          IN rate.bytes # None => rate.bytes \in 0..(rate.of + IF rate.exact THEN 0 ELSE Unit - 1)
    /\ pass.at = "rated" => DOMAIN prev = DOMAIN pass.made.rates
=================================================================================
