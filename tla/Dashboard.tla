------------------------------- MODULE Dashboard -------------------------------
(***************************************************************************)
(* Sparkboard's dashboard.  sparkboard/app/server.py: the sampler thread    *)
(* publishes samples in STATE, which the event loop reads without a lock,   *)
(* for /api/now and for the stream of server-sent events of /api/stream;    *)
(* and static/app.js, at the other end of both.                             *)
(*                                                                          *)
(* The interpreter may switch threads between any two statements, so each   *)
(* read or write of STATE is a step.  A sample is its number in order of    *)
(* collection, with the number of the sample whose process table it         *)
(* carries; a point of the ring is the number of its sample.  What the      *)
(* store does with a sample is in SparkStore; the chart is left out.        *)
(*                                                                          *)
(* The prompt feed and the choice of prompts are instances beside it: a     *)
(* behaviour of AllSpec follows one of the three.                           *)
(***************************************************************************)
EXTENDS Integers, Sequences, FiniteSets

CONSTANTS
    Every,      \* HOST_PROC_EVERY: ticks between two readings of the process table
    RingLength, \* maxlen of STATE.ring
    Buffer,     \* messages the connection holds before the generator waits
    MaxTicks,   \* bound: turns of the sampler, restarts included
    MaxDrops,   \* bound: connections lost
    MaxRestarts \* bound: restarts of the server

\* Every is max(1, round(10 / INTERVAL)).
ASSUME LiveStreamAssumption ==
    /\ Every \in Nat \ {0}
    /\ RingLength \in Nat \ {0} /\ Buffer \in Nat \ {0}
    /\ MaxTicks \in Nat /\ MaxDrops \in Nat /\ MaxRestarts \in Nat

VARIABLES
    sampler, \* the thread: where it is, its sample, ticks and failures in this run
    state,   \* STATE: ring, latest, seq, procs (the sample host_procs is from)
    stream,  \* gen() of the page's connection: where it is, last, what it has read
    wire,    \* messages on their way to the page
    page,    \* the page: how far boot() is, paused, the sample it shows;
             \* history: the last sample it passed over while paused
    clock,   \* history: samples ever asked for
    drops, restarts

vars == <<sampler, state, stream, wire, page, clock, drops, restarts>>

None == [n |-> 0, procs |-> 0]
NoState == [ring |-> <<>>, latest |-> None, seq |-> 0, procs |-> 0]
NoThread == [at |-> "waiting", sample |-> None, tick |-> 0, errors |-> 0]
Closed == [at |-> "closed", last |-> -1, sample |-> None, point |-> 0, sent |-> 0]

Init ==
    /\ sampler = NoThread
    /\ state = NoState
    /\ stream = Closed
    /\ wire = <<>>
    /\ page = [at |-> "asking", now |-> None, paused |-> FALSE, shown |-> None, passed |-> 0]
    /\ clock = 0 /\ drops = 0 /\ restarts = 0

-----------------------------------------------------------------------------
(* sampler(), a thread *)

\* A plausible bug: the table is due at the end of each period.
DueLast(tick) == tick % Every = 0
WantProcs(tick) == tick % Every = 1

\* A tick that collects, or fails; a table that is due with a tick that fails is
\* not read before the next period.
Collect ==
    /\ sampler.at = "waiting" /\ clock < MaxTicks
    /\ clock' = clock + 1
    /\ LET tick == sampler.tick + 1
           procs == IF WantProcs(tick) THEN clock + 1 ELSE state.procs
       IN \/ /\ sampler' = [sampler EXCEPT !.at = "collected", !.tick = tick,
                                           !.sample = [n |-> clock + 1, procs |-> procs]]
             /\ state' = [state EXCEPT !.procs = procs]
          \/ /\ sampler' = [sampler EXCEPT !.tick = tick, !.errors = @ + 1]
             /\ UNCHANGED state
    /\ UNCHANGED <<stream, wire, page, drops, restarts>>

Writes(from, to) ==
    /\ sampler.at = from
    /\ sampler' = [sampler EXCEPT !.at = to]
    /\ UNCHANGED <<stream, wire, page, clock, drops, restarts>>

AppendPoint ==
    /\ Writes("collected", "appended")
    /\ LET ring == Append(state.ring, sampler.sample.n)
       IN state' = [state EXCEPT !.ring = IF Len(ring) > RingLength THEN Tail(ring) ELSE ring]

PublishLatest ==
    /\ Writes("appended", "published")
    /\ state' = [state EXCEPT !.latest = sampler.sample]

CountSample ==
    /\ Writes("published", "waiting")
    /\ state' = [state EXCEPT !.seq = @ + 1]

-----------------------------------------------------------------------------
(* gen() of api_stream(), on the event loop *)

Reads(from, to) ==
    /\ stream.at = from
    /\ stream' = to
    /\ UNCHANGED <<sampler, state, page, clock, drops, restarts>>

\* A plausible bug: the number is compared with the one after the last.
IsLater == state.seq > stream.last + 1
IsNew == state.seq # stream.last

Notice ==
    /\ IsNew /\ state.latest # None
    /\ Reads("idle", [stream EXCEPT !.at = "noticed"])
    /\ UNCHANGED wire

Mark ==
    /\ Reads("noticed", [stream EXCEPT !.at = "marked", !.last = state.seq])
    /\ UNCHANGED wire

ReadSample ==
    /\ Reads("marked", [stream EXCEPT !.at = "sampled", !.sample = state.latest])
    /\ UNCHANGED wire

\* A plausible bug: the wrong end of the ring.
OldestPoint == state.ring[1]
NewestPoint == state.ring[Len(state.ring)]

ReadPoint ==
    /\ Reads("sampled", [stream EXCEPT !.at = "read", !.point = NewestPoint])
    /\ UNCHANGED wire

\* A plausible bug: the generator does not wait for the connection.
AlwaysRoom == TRUE
HasRoom == Len(wire) < Buffer

\* A plausible bug: the number is noted when the message has been sent.
NotedAtLast(last) == state.seq
NotedAtFirst(last) == last

Send ==
    /\ HasRoom
    /\ Reads("read", [stream EXCEPT !.at = "idle", !.last = NotedAtFirst(@),
                                    !.sent = stream.sample.n])
    /\ wire' = Append(wire, stream.sample)

-----------------------------------------------------------------------------
(* The dashboard *)

\* /api/now, asked by boot(); 503 while there is no sample.
Answer ==
    /\ page.at = "asking"
    /\ page' = [page EXCEPT !.at = "answered", !.now = state.latest]
    /\ UNCHANGED <<sampler, state, stream, wire, clock, drops, restarts>>

\* The rest of boot(), up to openStream().
Boot ==
    /\ page.at = "answered"
    /\ page' = [page EXCEPT !.at = "open", !.now = None,
                            !.shown = IF page.now = None THEN @ ELSE page.now]
    /\ UNCHANGED <<sampler, state, stream, wire, clock, drops, restarts>>

Pause ==
    /\ page' = [page EXCEPT !.paused = ~@]
    /\ UNCHANGED <<sampler, state, stream, wire, clock, drops, restarts>>

\* A plausible bug: the stream is opened while /api/now is still awaited.
OpenedFirst == page.at \in {"answered", "open"}
BootIsOver == page.at = "open"

\* openStream(), and the browser's own reconnection.
Open ==
    /\ BootIsOver /\ stream.at = "closed"
    /\ stream' = [Closed EXCEPT !.at = "idle"]
    /\ UNCHANGED <<sampler, state, wire, page, clock, drops, restarts>>

\* onmessage; a paused page drops the message.
Message ==
    /\ wire # <<>>
    /\ wire' = Tail(wire)
    /\ page' = IF page.paused THEN [page EXCEPT !.passed = Head(wire).n]
               ELSE [page EXCEPT !.shown = Head(wire)]
    /\ UNCHANGED <<sampler, state, stream, clock, drops, restarts>>

\* The connection is lost, with what is on its way.
Drop ==
    /\ drops < MaxDrops /\ stream.at # "closed"
    /\ drops' = drops + 1
    /\ stream' = Closed
    /\ wire' = <<>>
    /\ UNCHANGED <<sampler, state, page, clock, restarts>>

\* The server is restarted under a page that has booted.
Restart ==
    /\ restarts < MaxRestarts /\ page.at = "open"
    /\ restarts' = restarts + 1
    /\ sampler' = NoThread /\ state' = NoState
    /\ stream' = Closed /\ wire' = <<>>
    /\ UNCHANGED <<page, clock, drops>>

Sampler == Collect \/ AppendPoint \/ PublishLatest \/ CountSample
Generator == Notice \/ Mark \/ ReadSample \/ ReadPoint \/ Send
Page == Answer \/ Boot \/ Open \/ Message

Next == Sampler \/ Generator \/ Page \/ Pause \/ Drop \/ Restart

\* The thread and the event loop run, /api/now is answered, messages arrive and
\* EventSource reconnects; nobody has to press Pause.
Fairness ==
    /\ WF_vars(Sampler) /\ WF_vars(Generator)
    /\ WF_vars(Answer) /\ WF_vars(Boot) /\ WF_vars(Open) /\ WF_vars(Message)

Spec == Init /\ [][Next]_vars /\ Fairness

-----------------------------------------------------------------------------
(* Properties *)

Samples == [n : Nat, procs : Nat]

\* Types and places, with a connection that never holds more than its buffer.
TypeOK ==
    /\ sampler.at \in {"waiting", "collected", "appended", "published"}
    /\ sampler.sample \in Samples /\ sampler.tick \in Nat /\ sampler.errors \in 0..sampler.tick
    /\ state.ring \in Seq(Nat \ {0}) /\ Len(state.ring) <= RingLength
    /\ state.latest \in Samples /\ state.seq \in Nat /\ state.procs \in Nat
    /\ stream.at \in {"closed", "idle", "noticed", "marked", "sampled", "read"}
    /\ stream.last \in Nat \cup {-1} /\ stream.sample \in Samples
    /\ stream.point \in Nat /\ stream.sent \in Nat
    /\ wire \in Seq(Samples) /\ Len(wire) <= Buffer
    /\ page.at \in {"asking", "answered", "open"} /\ page.paused \in BOOLEAN
    /\ page.now \in Samples /\ page.shown \in Samples /\ page.passed \in Nat
    /\ clock \in 0..MaxTicks

\* The sample and the point of one message are read at different moments, while
\* the thread writes: there always is a point to read, and it may be of a later
\* sample than the readouts beside it but never of an earlier one.
PointNotOlder == stream.at = "read" => stream.point >= stream.sample.n

\* "One message per new sample": whatever the thread does between the
\* generator's reads, a generator that waits for a new number has sent the
\* sample of the last one.
NothingMissed ==
    stream.at = "idle" /\ stream.last = state.seq /\ sampler.at = "waiting"
        => stream.sent = state.latest.n

\* "Carry the last table forward on the ticks that skip it, so the panel holds its
\* contents" (server.py:119-121): while collecting works, every sample that was published
\* has a table, and none as old as a period.  False where the period is 1, for an interval
\* over 6.6 s: tick % 1 is never 1, and no table is ever read.
TableIsHeld ==
    sampler.errors = 0 /\ state.latest # None
        => /\ state.latest.procs > 0
           /\ state.latest.n - state.latest.procs < Every

\* What a message says agrees with what was collected, and nothing is left out; that the
\* table is held takes a period of more than one tick.
SamplesAreWhole == TypeOK /\ PointNotOlder /\ NothingMissed /\ (Every >= 2 => TableIsHeld)

\* Over booting, pauses, lost connections and restarts the readouts never go back in
\* time.
NeverGoesBack == [][page'.shown.n >= page.shown.n]_vars

\* A dashboard shows every sample or a later one at last, unless it passed it over
\* while paused or the server restarted.
CatchesUp ==
    \A n \in 1..MaxTicks :
        (state.latest.n >= n)
            ~> (page.shown.n >= n \/ page.passed >= n \/ state.latest.n < n)

-----------------------------------------------------------------------------
(* The parts of the dashboard *)

CONSTANTS
    Parts, \* the parts that are looked at
    Categories, Other, Replies, ClassifyModel, Models, MaxConcurrent, FeedLength,
    RecentLimit, Polls, MaxRequests, \* PromptFeed
    Period, Rates, ModelSet, MaxTurns, MaxPrompts \* PromptSampling

VARIABLES
    part,
    picky, calls, sendField, feed, screen, polls, run, \* PromptFeed
    rate, rr, sampled, request, skipped \* PromptSampling

Feed == INSTANCE PromptFeed WITH RingLength <- FeedLength, page <- screen
Pick == INSTANCE PromptSampling

\* Instances get the assumptions of their modules here.
ASSUME PartsAssumption ==
    /\ Feed!PromptFeedAssumption
    /\ Pick!PromptSamplingAssumption

-----------------------------------------------------------------------------
FeedVars == <<picky, calls, sendField, feed, screen, polls, run>>
PickVars == <<rate, rr, sampled, request, skipped>>
AllVars == <<part, vars, FeedVars, PickVars>>
InFeed(A) == part = "feed" /\ A /\ UNCHANGED <<part, vars, PickVars>>
InLive(A) == part = "live" /\ A /\ UNCHANGED <<part, FeedVars, PickVars>>
InPick(A) == part = "prompts" /\ A /\ UNCHANGED <<part, vars, FeedVars>>

Off == 0
AllInit ==
    /\ part \in Parts
    /\ Init
    /\ Feed!Init /\ (part # "feed" => picky)
    /\ IF part = "prompts" THEN Pick!Init
       ELSE rate = Off /\ rr = Off /\ sampled = Off /\ request = Off /\ skipped = Off

AllNext == InFeed(Feed!Next) \/ InLive(Next) \/ InPick(Pick!Next)

\* The fairness of the live stream and of PromptFeed.
AllSpec ==
    /\ AllInit /\ [][AllNext]_AllVars
    /\ WF_AllVars(InLive(Sampler)) /\ WF_AllVars(InLive(Generator))
    /\ WF_AllVars(InLive(Answer)) /\ WF_AllVars(InLive(Boot))
    /\ WF_AllVars(InLive(Open)) /\ WF_AllVars(InLive(Message))
    /\ \A p \in Polls :
          /\ WF_AllVars(InFeed(Feed!Poll(p)))
          /\ SF_AllVars(InFeed(Feed!Serve(p))) /\ SF_AllVars(InFeed(Feed!Receive(p)))

-----------------------------------------------------------------------------
(* Properties *)

\* PromptFeed: the classifier is never asked more than its ceiling allows, and nothing
\* of a request leaves the proxy but its category and the model it was labelled with.
FeedStaysWithin == Feed!TypeOK /\ Feed!OnlyWhatIsNamed
\* PromptSampling: the classifier is shown nothing but the turn that asks, for no more
\* than the share of prompts it is given.
ShareIsKept == part = "prompts" => Pick!OnlyTheUserIsRead /\ Pick!ShareIsKept
\* Both: of what people ask, the classifier is given what it may be given and no more.
ClassifierKeepsWithin == FeedStaysWithin /\ ShareIsKept
\* PromptFeed: each label is shown once, and in order.
ShownInOrder == Feed!ShownInOrder
\* PromptFeed: the dashboard comes to the last label that is new to its numbers.
FeedCatchesUp == Feed!FeedCatchesUp
==================================================================================
