---------------------------------- MODULE Home ----------------------------------
(***************************************************************************)
(* avatar/home/home.py and the controls panel of avatar.html.  Each request *)
(* has a thread of the server; every call to Home Assistant may fail, and   *)
(* the house changes by other hands meanwhile.  The panel polls the devices *)
(* and puts the device of each answered control into its table.             *)
(***************************************************************************)
EXTENDS Integers, FiniteSets

CONSTANTS
    Devices, Domain, \* what there is: a "light" or a "lock"
    Full,            \* 100 %
    Asked,           \* values a request may ask for, also out of range
    Requests,        \* threads of the server; "poll" serves the panel's poll
    Keep, Slow,      \* the map of rooms is kept for a minute; the longest call for one
    MaxNow, MaxChanges \* bounds: the clock, changes of the house

HomeAssumption ==
    /\ Full \in Nat \ {0} /\ Asked \subseteq Int
    /\ "poll" \in Requests /\ "nobody" \notin Requests \cup Devices
    /\ Keep \in Nat /\ Slow \in Nat /\ MaxNow \in Nat /\ MaxChanges \in Nat

VARIABLES
    now,
    house,    \* device -> its state: a level, 0 for off; of a lock, 0 for locked, 1 for open
    hand,     \* history: who changed a device last
    changes,  \* history: changes so far
    requests, \* thread -> the request it serves
    areas,    \* _areas: when the map was read, when it was true; whether the last call failed
    lock,     \* _areas_lock
    panel     \* devs: device -> its state as the panel has it

vars == <<now, house, hand, changes, requests, areas, lock, panel>>

Nobody == "nobody"
Idle == [at |-> "idle"]
Locked == 0
Unlocked == 1
States(d) == IF Domain[d] = "lock" THEN {Locked, Unlocked} ELSE 0..Full

Init ==
    /\ now = 0
    /\ house = [d \in Devices |-> 0]
    /\ hand = [d \in Devices |-> "wall"] /\ changes = 0
    /\ requests = [r \in Requests |-> Idle]
    /\ areas = [at |-> -Keep - 1, true |-> 0, failed |-> FALSE]
    /\ lock = Nobody
    /\ panel = house

Put(d, value, who) ==
    /\ changes < MaxChanges /\ changes' = changes + 1
    /\ house' = [house EXCEPT ![d] = value] /\ hand' = [hand EXCEPT ![d] = who]
At(r, place) == requests[r].at = place
Goes(r, request) == requests' = [requests EXCEPT ![r] = request]
Move(r, place) == Goes(r, [requests[r] EXCEPT !.at = place])
House == <<house, hand, changes>>

-----------------------------------------------------------------------------
(* areas(): one thread at a time *)

Fresh == now - areas.at <= Keep
Areas(r) ==
    /\ At(r, "rooms") /\ lock = Nobody
    /\ IF Fresh THEN Move(r, "reply") /\ UNCHANGED lock ELSE Move(r, "asking") /\ lock' = r
    /\ UNCHANGED <<now, House, areas, panel>>

\* Home Assistant renders the template.
Renders(r) ==
    /\ At(r, "asking")
    /\ Goes(r, [requests[r] EXCEPT !.at = "rendered", !.asOf = now])
    /\ UNCHANGED <<now, House, areas, lock, panel>>

\* Its answer, or none: then the old map counts as read just now.
Refreshed(r) ==
    /\ \/ /\ At(r, "rendered")
          /\ areas' = [at |-> now, true |-> requests[r].asOf, failed |-> FALSE]
       \/ /\ At(r, "asking") \/ At(r, "rendered")
          /\ areas' = [areas EXCEPT !.at = now, !.failed = TRUE]
    /\ lock' = Nobody
    /\ Goes(r, [requests[r] EXCEPT !.at = "reply", !.asOf = 0])
    /\ UNCHANGED <<now, House, panel>>

-----------------------------------------------------------------------------
(* The requests *)

\* allowed(): the others get 403, and nothing starts.
Allowed(p) == p \in {"lan", "owner"}

\* int(v) within 1..100: a light that is dimmed stays on.
Clip(value) == IF value < 1 THEN 1 ELSE IF value > Full THEN Full ELSE value

\* A plausible bug: a lock can be opened too.
EveryAction(domain) == IF domain = "lock" THEN {Locked, Unlocked} ELSE {0, Full} \cup {Clip(v) : v \in Asked}
\* ACTIONS: what each comes to.
Actions(domain) == IF domain = "lock" THEN {Locked} ELSE {0, Full} \cup {Clip(v) : v \in Asked}

Unread == [d \in Devices |-> 0]
New(place, d, value, quick) ==
    [at |-> place, device |-> d, value |-> value, quick |-> quick, asOf |-> 0, states |-> Unread]
Devs == New("states", Nobody, 0, FALSE)

\* GET /devices, POST /command and POST /set
Request(r, p) ==
    /\ At(r, "idle") /\ r # "poll" /\ Allowed(p)
    /\ \/ Goes(r, Devs)
       \/ Goes(r, New("command", Nobody, 0, FALSE))
       \/ \E d \in Devices : \E value \in Actions(Domain[d]), quick \in BOOLEAN : Goes(r, New("set", d, value, quick))
    /\ UNCHANGED <<now, House, areas, lock, panel>>

\* Four seconds after the last answer, whatever it was.
Poll ==
    /\ At("poll", "idle") /\ Goes("poll", Devs)
    /\ UNCHANGED <<now, House, areas, lock, panel>>

\* Assist does what it takes the words for, maybe nothing; after an error the names of
\* the devices are read as well.
Command(r) ==
    /\ At(r, "command")
    /\ UNCHANGED House \/ \E d \in Devices : \E value \in States(d) : Put(d, value, "assist")
    /\ Goes(r, Idle)
    /\ UNCHANGED <<now, areas, lock, panel>>

\* The service is called; a quick one is answered at once, without the device.
Set(r) ==
    /\ At(r, "set")
    /\ Put(requests[r].device, requests[r].value, "panel")
    /\ Goes(r, IF requests[r].quick THEN Idle ELSE New("states", requests[r].device, 0, FALSE))
    /\ UNCHANGED <<now, areas, lock, panel>>

\* The states of all, or of the one that was set.
ReadStates(r) ==
    /\ At(r, "states")
    /\ Goes(r, [requests[r] EXCEPT !.at = "rooms", !.states = house])
    /\ UNCHANGED <<now, House, areas, lock, panel>>

\* A plausible bug: a poll that fails is the last one.
NeverAgain(r) == [requests[r] EXCEPT !.at = "gone"]
AfterError(r) == Idle

\* A call raises, or the request was not even sent: 502, which the poll ignores.
Fails(r) ==
    /\ At(r, "command") \/ At(r, "set") \/ At(r, "states")
    /\ Goes(r, AfterError(r))
    /\ UNCHANGED <<now, House, areas, lock, panel>>

\* The page takes what it gets in the order the answers come.
Reply(r) ==
    /\ At(r, "reply")
    /\ panel' = [d \in Devices |->
           IF requests[r].device \in {Nobody, d} THEN requests[r].states[d] ELSE panel[d]]
    /\ Goes(r, Idle)
    /\ UNCHANGED <<now, House, areas, lock>>

-----------------------------------------------------------------------------
\* A wall switch, another app.
ByHand ==
    /\ \E d \in Devices : \E value \in States(d) : value # house[d] /\ Put(d, value, "wall")
    /\ UNCHANGED <<now, requests, areas, lock, panel>>

\* A call for the rooms ends within its time limit.
Tick ==
    /\ now < MaxNow /\ now' = now + 1
    /\ \A r \in Requests : At(r, "rendered") => now - requests[r].asOf < Slow
    /\ UNCHANGED <<House, requests, areas, lock, panel>>

Thread(r) ==
    Areas(r) \/ Renders(r) \/ Refreshed(r) \/ Command(r) \/ Set(r) \/ ReadStates(r) \/ Fails(r) \/ Reply(r)
Next ==
    \/ ByHand \/ Tick \/ Poll
    \/ \E r \in Requests : Thread(r) \/ \E p \in {"lan", "owner", "other"} : Request(r, p)

Spec == Init /\ [][Next]_vars

-----------------------------------------------------------------------------
(* Properties *)

TypeOK ==
    /\ \A d \in Devices : house[d] \in States(d) /\ panel[d] \in States(d)
    /\ \A r \in Requests : (At(r, "asking") \/ At(r, "rendered")) <=> lock = r

\* home.py: "locks can be locked but never unlocked from here", and the rooms the panel
\* groups by were true at most a minute and one call ago, unless the last call for them
\* failed.
HomeKeepsItsWord ==
    /\ TypeOK
    /\ \A d \in Devices : Domain[d] = "lock" /\ hand[d] = "panel" => house[d] = Locked
    /\ Fresh => areas.failed \/ now - areas.true <= Keep + Slow

\* Once the house is left alone, the panel shows it as it is, whichever answers were
\* late and however many polls failed before.
Agrees == panel = house
PanelCatchesUp == <>[]Agrees
=================================================================================
