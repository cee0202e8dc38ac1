----------------------------- MODULE PromptFeed -----------------------------
(***************************************************************************)
(* sparkboard/app/proxy.py and the activity feed of static/app.js: requests *)
(* to the language model pass through a proxy, which asks a classifier for  *)
(* a label of each prompt on the side and keeps the last labels in a ring   *)
(* that dashboards poll.                                                    *)
(*                                                                          *)
(* The proxy is one event loop; an action is what runs between two awaits.  *)
(* The model servers and the network are the environment.  Of forward(),    *)
(* which keeps nothing, only the start of a task is modelled; requests that *)
(* are not sampled start none.  Tokens, times and the colours of labels are *)
(* left out.                                                                *)
(***************************************************************************)
EXTENDS Integers, Sequences, FiniteSets, SequencesExt, Selection

CONSTANTS
    Categories,    \* CATEGORIES
    Other,         \* the category "other"
    Replies,       \* what the classifier may say: a category, or text of its own
    ClassifyModel, \* classify_model; "" when it is not set
    Models,        \* what clients may put in their requests as the model; "" for none
    MaxConcurrent, \* max_concurrent: the semaphore's size
    RingLength,    \* maxlen of the ring
    RecentLimit,   \* limit of recent()
    Polls,         \* loadFeed() calls that may be under way at once
    MaxRequests,   \* bound: requests of clients
    MaxRestarts    \* bound: restarts of the service

PromptFeedAssumption ==
    /\ Other \in Categories
    /\ MaxConcurrent \in Nat \ {0}
    /\ RingLength \in Nat \ {0} /\ RecentLimit \in Nat \ {0}
    /\ MaxRequests \in Nat /\ MaxRestarts \in Nat

VARIABLES
    picky,      \* the classifier's server refuses the field chat_template_kwargs
    calls,      \* tasks so far: where each is, its model, whether its label was kept
    sendField,  \* _send_template_kwargs
    feed,       \* PromptFeed: events (the ring), seq, counts
    page,       \* feedState: seen, and every label ever put in pending; history: the
                \* number seen when the service was last restarted
    polls,      \* the page's requests for /api/prompts/feed
    run         \* history: restarts so far

vars == <<picky, calls, sendField, feed, page, polls, run>>

Calls == 1..Len(calls)
Task(c, place) == c \in Calls /\ calls[c].task = place
Asking == {c \in Calls : calls[c].task \in {"asking", "retrying"}}

EmptyFeed == [events |-> <<>>, seq |-> 0, counts |-> [l \in Categories |-> 0]]
NoPoll == [at |-> "none", after |-> 0, got |-> <<>>]

Init ==
    /\ picky \in BOOLEAN
    /\ calls = <<>>
    /\ sendField = TRUE
    /\ feed = EmptyFeed
    /\ page = [seen |-> 0, shown |-> <<>>, stale |-> 0]
    /\ polls = [p \in Polls |-> NoPoll]
    /\ run = 0

-----------------------------------------------------------------------------
(* Requests of clients *)

\* _pick_model()
PickModel(named) == IF ClassifyModel # "" THEN ClassifyModel ELSE named

\* forward(): the body is read and _maybe_classify() starts a task, which makes
\* its payload and comes to the semaphore with no other await; without a model it ends
\* at once.
Arrive(named) ==
    /\ Len(calls) < MaxRequests
    /\ PickModel(named) # ""
    /\ calls' = Append(calls, [model |-> PickModel(named), task |-> "waiting",
                               kept |-> FALSE, field |-> sendField])
    /\ UNCHANGED <<picky, sendField, feed, page, polls, run>>

-----------------------------------------------------------------------------
(* _classify(), in a task of its own *)

Becomes(c, task) == calls' = [calls EXCEPT ![c].task = task]

\* A plausible bug: the semaphore lets one more in.
OneMoreSlot == Cardinality(Asking) <= MaxConcurrent
SlotIsFree == Cardinality(Asking) < MaxConcurrent

Enter(c) ==
    /\ Task(c, "waiting")
    /\ SlotIsFree
    /\ Becomes(c, "asking")
    /\ UNCHANGED <<picky, sendField, feed, page, polls, run>>

\* A 400, for the field or for anything else: the field is dropped for good and
\* the call repeated, still inside the semaphore.  Only the call that finds the
\* field still in use does so.
Refused(c) ==
    /\ Task(c, "asking")
    /\ sendField
    /\ sendField' = FALSE
    /\ calls' = [calls EXCEPT ![c].task = "retrying", ![c].field = FALSE]
    /\ UNCHANGED <<picky, feed, page, polls, run>>

\* The task is over, and its payload with it.
Ended(call) == [call EXCEPT !.task = "over", !.field = FALSE]
Gone(c, kept) == calls' = [calls EXCEPT ![c] = [Ended(@) EXCEPT !.kept = kept]]

\* Any other status, a timeout, or an answer that cannot be read; a 400 for the field, too,
\* to a call that was made with it and finds it dropped already.
Fails(c) ==
    /\ c \in Asking
    /\ Gone(c, FALSE)
    /\ UNCHANGED <<picky, sendField, feed, page, polls, run>>

Understood(c) == c \in Asking /\ ~(picky /\ calls[c].field)

\* The answer holds no text.
Unlabelled(c) ==
    /\ Understood(c)
    /\ Gone(c, FALSE)
    /\ UNCHANGED <<picky, sendField, feed, page, polls, run>>

\* A plausible bug: what the model said is kept as it is.
AsSaid(reply) == reply
\* _parse_label(): the category said, or else "other".
ParseLabel(reply) == IF reply \in Categories THEN reply ELSE Other

\* PromptFeed.add(); the ring keeps the last RingLength events, the counts all.
Added(label, model) ==
    LET events == Append(feed.events,
                         [run |-> run, seq |-> feed.seq + 1, label |-> label, model |-> model])
    IN [events |-> IF Len(events) > RingLength THEN Tail(events) ELSE events,
        seq |-> feed.seq + 1,
        counts |-> [feed.counts EXCEPT ![label] = @ + 1]]

Labelled(c, reply) ==
    /\ Understood(c)
    /\ feed' = Added(ParseLabel(reply), calls[c].model)
    /\ Gone(c, TRUE)
    /\ UNCHANGED <<picky, sendField, page, polls, run>>

-----------------------------------------------------------------------------
(* The dashboard: loadFeed() every two seconds, finished or not *)

LastOf(s, n) == IF Len(s) > n THEN SubSeq(s, Len(s) - n + 1, Len(s)) ELSE s

After(s, seq) == Selected(s, {e \in ToSet(s) : e.seq > seq})

\* A plausible bug: the number asked for is taken for that of the next event.
MissesTheNext(after) == LastOf(After(feed.events, after + 1), RecentLimit)

\* PromptFeed.recent()
Recent(after) == LastOf(After(feed.events, after), RecentLimit)

Poll(p) ==
    /\ polls[p].at = "none"
    /\ polls' = [polls EXCEPT ![p] = [at |-> "asked", after |-> page.seen, got |-> <<>>]]
    /\ UNCHANGED <<picky, calls, sendField, feed, page, run>>

Serve(p) ==
    /\ polls[p].at = "asked"
    /\ polls' = [polls EXCEPT ![p].at = "answered", ![p].got = Recent(polls[p].after)]
    /\ UNCHANGED <<picky, calls, sendField, feed, page, run>>

\* A plausible bug: an answer is taken as it is.
AllOf(p) == polls[p].got
Fresh(p) == After(polls[p].got, page.seen)

Receive(p) ==
    /\ polls[p].at = "answered"
    /\ page' = IF Fresh(p) = <<>> THEN page
               ELSE [page EXCEPT !.seen = Last(Fresh(p)).seq, !.shown = @ \o Fresh(p)]
    /\ polls' = [polls EXCEPT ![p] = NoPoll]
    /\ UNCHANGED <<picky, calls, sendField, feed, run>>

\* The request or its answer is lost.
Lose(p) ==
    /\ polls[p].at # "none"
    /\ polls' = [polls EXCEPT ![p] = NoPoll]
    /\ UNCHANGED <<picky, calls, sendField, feed, page, run>>

\* The service is restarted and counts from 0; the dashboard stays open and goes on with
\* the number that it has seen.
Restart ==
    /\ run < MaxRestarts
    /\ run' = run + 1
    /\ calls' = [c \in Calls |-> Ended(calls[c])]
    /\ sendField' = TRUE
    /\ feed' = EmptyFeed
    /\ polls' = [p \in Polls |-> NoPoll]
    /\ page' = [page EXCEPT !.stale = page.seen]
    /\ UNCHANGED picky

Classify(c) ==
    \/ Enter(c) \/ Refused(c) \/ Fails(c) \/ Unlabelled(c)
    \/ \E reply \in Replies : Labelled(c, reply)

Next ==
    \/ \E named \in Models : Arrive(named)
    \/ \E c \in Calls : Classify(c)
    \/ \E p \in Polls : Poll(p) \/ Serve(p) \/ Receive(p) \/ Lose(p)
    \/ Restart

\* The page's timer runs; a poll that is always sent again gets through at last.
\* Nothing is assumed of the classifier.
Fairness == \A p \in Polls : WF_vars(Poll(p)) /\ SF_vars(Serve(p)) /\ SF_vars(Receive(p))

Spec == Init /\ [][Next]_vars /\ Fairness

-----------------------------------------------------------------------------
(* Properties *)

\* With it, the "hard ceiling on concurrent classification calls".
TypeOK ==
    /\ Cardinality(Asking) <= MaxConcurrent
    /\ picky \in BOOLEAN /\ sendField \in BOOLEAN /\ run \in 0..MaxRestarts
    /\ \A c \in Calls :
          /\ calls[c].task \in {"waiting", "asking", "retrying", "over"}
          /\ calls[c].field \in BOOLEAN /\ calls[c].kept \in BOOLEAN
    /\ Len(feed.events) <= RingLength
    /\ feed.seq \in Nat /\ feed.counts \in [Categories -> Nat]
    /\ page.seen \in Nat /\ page.stale \in Nat
    /\ \A p \in Polls : polls[p].at \in {"none", "asked", "answered"}

\* Of the ring, of the answers to polls and of the page.
Events ==
    ToSet(feed.events) \cup ToSet(page.shown) \cup UNION {ToSet(polls[p].got) : p \in Polls}

\* Whatever the classifier says and however its answers, polls and restarts fall, an event
\* that leaves the proxy holds a category, and the model of a request that was labelled.
\* "What leaves this module is a category label and a token count" (proxy.py:17) says
\* less: where classify_model is not set, that model is what the client put in its request,
\* whatever it is (proxy.py:139, 214-218, 303).
OnlyWhatIsNamed ==
    \A e \in Events :
        e.label \in Categories /\ \E c \in Calls : calls[c].kept /\ calls[c].model = e.model

Before(d, e) == d.run < e.run \/ (d.run = e.run /\ d.seq < e.seq)

\* Overlapping polls, answered in any order, over a restart: the dashboard shows
\* each event at most once and in the order the labels were given.
ShownInOrder ==
    \A i, j \in 1..Len(page.shown) : i < j => Before(page.shown[i], page.shown[j])

\* While the service runs, the dashboard comes to every label, or to a later one of the
\* same run where the ring or the answer had no room for it.  Left out are, after a
\* restart, the labels that are numbered up to what the page had seen by then: they are
\* never sent to it (server.py:350, app.js:1078, 1090).
FeedCatchesUp ==
    \A n \in 1..MaxRequests :
        (feed.seq >= n /\ n > page.stale)
            ~> (feed.seq < n \/ \E e \in ToSet(page.shown) : e.run = run /\ e.seq >= n)
=============================================================================
