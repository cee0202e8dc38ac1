------------------------------ MODULE SongCache ------------------------------
(***************************************************************************)
(* avatar/music/music.py: songs downloaded into a cache of limited size,   *)
(* one download per song however many requests ask for it, two at a time.  *)
(*                                                                         *)
(* The event loop runs the requests (yt_file, _fetch_one and the tasks'    *)
(* callbacks); each download, yt_fetch() and its prune(), has a thread of  *)
(* the pool.  YouTube, yt-dlp and ffmpeg are abstracted to whether a song  *)
(* arrives; which player it came from and what INFO remembers are left     *)
(* out, as are the visualizer's levels, which go with their song.          *)
(*                                                                         *)
(* The home service is an instance beside the downloads: a behaviour of    *)
(* AllSpec uses one of the two.                                            *)
(***************************************************************************)
EXTENDS Integers, Sequences, FiniteSets, SequencesExt, Selection

CONSTANTS
    Songs,      \* YouTube ids: eleven characters each
    Size,       \* song -> size of its file
    CacheBytes, \* CACHE_BYTES
    Slots,      \* DOWNLOADS: how many songs download at once
    MaxTasks,   \* bound: downloads ever asked for
    MaxRestarts \* bound: restarts of the service

ASSUME SongCacheAssumption ==
    /\ IsFiniteSet(Songs)
    /\ Size \in [Songs -> Nat \ {0}]
    /\ CacheBytes \in Nat /\ Slots \in Nat \ {0}
    /\ MaxTasks \in Nat /\ MaxRestarts \in Nat

VARIABLES
    cache,      \* the .m4a files, by their modification times, newest first
    tasks,      \* every _fetch_one task: its song, where it is, prune()'s files and total
    fetching,   \* FETCHING: song -> task, 0 for none
    restarts,   \* history: restarts so far
    unpruned    \* history: tasks whose song no prune() that listed it has finished

vars == <<cache, tasks, fetching, restarts, unpruned>>

Tasks == 1..Len(tasks)
Cached == ToSet(cache)

\* Places of a thread, in order; "asked" waits for the semaphore and "ended" has
\* given it back, with FETCHING's callback still to run.
Downloading == {"downloading", "arrived"}
Pruning == {"listing", "sorting", "dropping"}
Working == {"looking", "touching"} \cup Downloading \cup Pruning

SizeOf(files) ==
    LET sum[rest \in SUBSET files] ==
            IF rest = {} THEN 0
            ELSE LET v == CHOOSE v \in rest : TRUE IN sum[rest \ {v}] + Size[v]
    IN sum[files]

\* The volume may hold what an earlier run left.
Init ==
    /\ cache \in {c \in SetToAllKPermutations(Songs) : SizeOf(ToSet(c)) <= CacheBytes}
    /\ tasks = <<>>
    /\ fetching = [v \in Songs |-> 0]
    /\ restarts = 0
    /\ unpruned = {}

At(t, place) == t \in Tasks /\ tasks[t].at = place
Move(t, place) == tasks' = [tasks EXCEPT ![t].at = place]
TaskOf(v, place) == [song |-> v, at |-> place, files |-> <<>>, total |-> 0, listed |-> {}]
End(t) == tasks' = [tasks EXCEPT ![t] = TaskOf(@.song, "ended")]

-----------------------------------------------------------------------------
(* The event loop *)

\* A plausible bug: every request starts a download of its own.
NeverFetching(v) == FALSE
Fetching(v) == fetching[v] # 0

\* yt_file(), for /stream, /prefetch, /search and listen(): a request for a
\* song that is being fetched waits for that task instead.
Ask(v) ==
    /\ Len(tasks) < MaxTasks
    /\ ~Fetching(v)
    /\ tasks' = Append(tasks, TaskOf(v, "asked"))
    /\ fetching' = [fetching EXCEPT ![v] = Len(tasks) + 1]
    /\ UNCHANGED <<cache, restarts, unpruned>>

\* Two plausible bugs: one slot too many, and a slot that is never given back.
OneSlotMore(t) == Cardinality({u \in Tasks : tasks[u].at \in Working}) <= Slots
NeverGivenBack(t) == Cardinality({u \in Tasks : tasks[u].at # "asked"}) < Slots
SlotIsFree(t) == Cardinality({u \in Tasks : tasks[u].at \in Working}) < Slots

Enter(t) ==
    /\ At(t, "asked")
    /\ SlotIsFree(t)
    /\ Move(t, "looking")
    /\ UNCHANGED <<cache, fetching, restarts, unpruned>>

\* The done callback: FETCHING.pop(vid).
Forget(t) ==
    /\ At(t, "ended")
    /\ Move(t, "over")
    /\ fetching' = [fetching EXCEPT ![tasks[t].song] = 0]
    /\ UNCHANGED <<cache, restarts, unpruned>>

-----------------------------------------------------------------------------
(* yt_fetch(), in a thread *)

Look(t) ==
    /\ At(t, "looking")
    /\ Move(t, IF tasks[t].song \in Cached THEN "touching" ELSE "downloading")
    /\ UNCHANGED <<cache, fetching, restarts, unpruned>>

\* The file with a new time is the newest.
Renewed(v) == <<v>> \o Selected(cache, Cached \ {v})

\* os.utime(); it raises if a prune() has dropped the song since.
Touch(t) ==
    /\ At(t, "touching")
    /\ cache' = IF tasks[t].song \in Cached THEN Renewed(tasks[t].song) ELSE cache
    /\ End(t)
    /\ UNCHANGED <<fetching, restarts, unpruned>>

\* Into the song's work folder, with a second try inside; or nothing comes.
Download(t) ==
    /\ At(t, "downloading")
    /\ Move(t, "arrived") \/ End(t)
    /\ UNCHANGED <<cache, fetching, restarts, unpruned>>

Publish(t) ==
    /\ At(t, "arrived")
    /\ cache' = Renewed(tasks[t].song)
    /\ unpruned' = unpruned \cup {t}
    /\ Move(t, "listing")
    /\ UNCHANGED <<fetching, restarts>>

-----------------------------------------------------------------------------
(* prune(), in the same thread; another thread may be in its own *)

\* CACHE.glob()
List(t) ==
    /\ At(t, "listing")
    /\ tasks' = [tasks EXCEPT ![t].at = "sorting", ![t].files = cache,
                                ![t].listed = unpruned]
    /\ UNCHANGED <<cache, fetching, restarts, unpruned>>

NewestFirst(files) == Selected(cache, files)

\* stat() of each: one that is gone raises, and the fetch fails.
Sort(t) ==
    /\ At(t, "sorting")
    /\ LET files == ToSet(tasks[t].files)
       IN IF files \subseteq Cached
          THEN tasks' = [tasks EXCEPT ![t].at = "dropping", ![t].files = NewestFirst(files)]
          ELSE End(t)
    /\ UNCHANGED <<cache, fetching, restarts, unpruned>>

\* A plausible bug: the file that goes over the limit is kept.
OverAlready(t) == tasks[t].total > CacheBytes
IsOver(t) == tasks[t].total + Size[Head(tasks[t].files)] > CacheBytes

\* The next file of the loop: stat() again, and unlink() past the limit.
Drop(t) ==
    /\ At(t, "dropping")
    /\ tasks[t].files # <<>>
    /\ LET v == Head(tasks[t].files)
       IN IF v \in Cached
          THEN /\ tasks' = [tasks EXCEPT ![t].files = Tail(@), ![t].total = @ + Size[v]]
               /\ cache' = IF IsOver(t) THEN Selected(cache, Cached \ {v}) ELSE cache
          ELSE End(t) /\ UNCHANGED cache
    /\ UNCHANGED <<fetching, restarts, unpruned>>

PruneEnds(t) ==
    /\ At(t, "dropping")
    /\ tasks[t].files = <<>>
    /\ End(t)
    /\ unpruned' = unpruned \ tasks[t].listed
    /\ UNCHANGED <<cache, fetching, restarts>>

\* The service is restarted: the cached files stay.
Restart ==
    /\ restarts < MaxRestarts
    /\ restarts' = restarts + 1
    /\ tasks' = [t \in Tasks |-> TaskOf(tasks[t].song, "over")]
    /\ fetching' = [v \in Songs |-> 0]
    /\ UNCHANGED <<cache, unpruned>>

Step(t) ==
    \/ Enter(t) \/ Look(t) \/ Touch(t) \/ Download(t) \/ Publish(t)
    \/ List(t) \/ Sort(t) \/ Drop(t) \/ PruneEnds(t) \/ Forget(t)

Next == (\E v \in Songs : Ask(v)) \/ (\E t \in Tasks : Step(t)) \/ Restart

\* Downloads time out, threads and the event loop run.
Spec == Init /\ [][Next]_vars /\ \A t \in 1..MaxTasks : WF_vars(Step(t))

-----------------------------------------------------------------------------
(* Properties *)

Busy == {t \in Tasks : tasks[t].at \in Working}

\* README.md:498: "At most two songs download at once".
AtMostSlots == Cardinality(Busy) <= Slots

TypeOK ==
    /\ AtMostSlots
    /\ cache \in Seq(Songs) /\ IsInjective(cache)
    /\ \A t \in Tasks :
          /\ tasks[t].song \in Songs
          /\ tasks[t].at \in {"asked", "ended", "over"} \cup Working
          /\ tasks[t].files \in Seq(Songs) /\ tasks[t].total \in Nat
          /\ tasks[t].listed \subseteq Tasks
    /\ fetching \in [Songs -> 0..Len(tasks)]
    /\ restarts \in 0..MaxRestarts
    /\ unpruned \subseteq Tasks

\* "One download per song, however many requests ask for it at once": two
\* threads never share a song's work folder, and a song that is not in FETCHING
\* has no task left that could still touch its files.
OneDownloadPerSong ==
    \A t \in Tasks : tasks[t].at # "over" => fetching[tasks[t].song] = t

\* avatar/README.md:493: "The cache is capped at CACHE_GB", even with two
\* threads dropping songs from lists made at different times: only a song whose
\* prune() is still running, or raised, can be over the limit.
CacheCapped == SizeOf(Cached \ {tasks[t].song : t \in unpruned}) <= CacheBytes

\* Every task ends, and its song can be asked for again.
FetchesEnd ==
    \A t \in 1..MaxTasks : (t \in Tasks) ~> (t \in Tasks /\ tasks[t].at = "over")

-----------------------------------------------------------------------------
(* The downloads and the home service *)

CONSTANTS
    Parts, \* the parts that are looked at
    Devices, Domain, Full, Asked, Requests, Keep, Slow, MaxNow, MaxChanges \* Home

VARIABLES
    part,
    now, house, hand, changes, requests, areas, lock, panel \* Home

House == INSTANCE Home

\* Instances get the assumptions of their modules here.
ASSUME PartsAssumption == House!HomeAssumption

-----------------------------------------------------------------------------
HouseVars == <<now, house, hand, changes, requests, areas, lock, panel>>
AllVars == <<part, vars, HouseVars>>
InSongs(A) == part = "songs" /\ A /\ UNCHANGED <<part, HouseVars>>
InHouse(A) == part = "house" /\ A /\ UNCHANGED <<part, vars>>

Off == 0
AllInit ==
    /\ part \in Parts
    /\ IF part = "songs" THEN Init
       ELSE cache = <<>> /\ tasks = <<>> /\ fetching = [v \in Songs |-> 0] /\ restarts = 0 /\ unpruned = {}
    /\ IF part = "house" THEN House!Init
       ELSE now = Off /\ house = Off /\ hand = Off /\ changes = Off /\ requests = Off /\ areas = Off
            /\ lock = Off /\ panel = Off

AllNext == InSongs(Next) \/ InHouse(House!Next)

\* Downloads end; Home Assistant answers or fails, and the poll goes on and is answered
\* again and again.
AllSpec ==
    /\ AllInit /\ [][AllNext]_AllVars
    /\ \A t \in 1..MaxTasks : WF_AllVars(InSongs(Step(t)))
    /\ \A r \in Requests : WF_AllVars(InHouse(House!Thread(r)))
    /\ WF_AllVars(InHouse(House!Poll)) /\ SF_AllVars(InHouse(House!ReadStates("poll")))

-----------------------------------------------------------------------------
(* Properties *)

\* Home: locks, and the age of the rooms.
HomeKeepsItsWord == part = "house" => House!HomeKeepsItsWord
\* Home: the panel shows the house in the end.
PanelCatchesUp == part = "house" => <>[](part = "house" /\ House!Agrees)
==================================================================================
