---------------------------- MODULE ServicesProofs ----------------------------
(***************************************************************************)
(* Proofs about the song downloads, for any songs, sizes, limit, slots and *)
(* number of tasks, and about the home service, for any devices, threads   *)
(* and times.                                                              *)
(***************************************************************************)
EXTENDS SongCache, SelectionProofs, FiniteSetTheorems, TLAPS

Places == {"asked", "ended", "over"} \cup Working

\* A task, whatever its prune() has listed and added up.
TaskWith(F) == [song : Songs, at : Places, files : F, total : F, listed : F]

TasksInv == \E F : tasks \in Seq(TaskWith(F))

IInv ==
    /\ TasksInv
    /\ fetching \in [Songs -> Nat]
    /\ OneDownloadPerSong
    /\ AtMostSlots

TaskFrom(x, place, files, total, listed) ==
    [song |-> x.song, at |-> place, files |-> files, total |-> total, listed |-> listed]

\* Task t moves to a place, with its song and with any files, total and list.
Moves(t, place) ==
    \E files, total, listed :
        tasks' = [tasks EXCEPT ![t] = TaskFrom(tasks[t], place, files, total, listed)]

-----------------------------------------------------------------------------
(* What a move changes *)

\* A sequence is one of any set that holds its elements.
LEMMA SeqOfElements ==
    ASSUME NEW S, NEW T, NEW s \in Seq(S), \A i \in 1..Len(s) : s[i] \in T
    PROVE  s \in Seq(T)
<1>1. s \in [1..Len(s) -> T] /\ Len(s) \in Nat
  OBVIOUS
<1> QED
  BY <1>1

\* A move leaves tasks a sequence of tasks, of the same length and songs, and
\* every other task as it is.
LEMMA MoveKeeps ==
    ASSUME TasksInv, NEW t \in Tasks, NEW place \in Places, Moves(t, place)
    PROVE  /\ TasksInv'
           /\ Tasks' = Tasks
           /\ tasks'[t].at = place
           /\ \A u \in Tasks : u # t => tasks'[u] = tasks[u]
           /\ \A u \in Tasks : tasks'[u].song = tasks[u].song /\ tasks[u].song \in Songs
<1>1. PICK F : tasks \in Seq(TaskWith(F))
  BY DEF TasksInv
<1>2. PICK files, total, listed :
        tasks' = [tasks EXCEPT ![t] = TaskFrom(tasks[t], place, files, total, listed)]
  BY DEF Moves
<1> DEFINE G == F \cup {files, total, listed}
           r == TaskFrom(tasks[t], place, files, total, listed)
<1>3. \A u \in Tasks : tasks[u] \in TaskWith(F)
  BY <1>1 DEF Tasks
<1>4. r \in TaskWith(G)
  <2>1. tasks[t].song \in Songs
    BY <1>3 DEF TaskWith
  <2> QED
    BY <2>1 DEF TaskWith, TaskFrom
<1>5. tasks \in Seq(TaskWith(G))
  <2>1. \A u \in Tasks : tasks[u] \in TaskWith(G)
    BY <1>3 DEF TaskWith
  <2> QED
    BY <1>1, <2>1, SeqOfElements DEF Tasks
<1> HIDE DEF G, r
<1>6. tasks' \in Seq(TaskWith(G)) /\ Len(tasks') = Len(tasks)
  BY <1>2, <1>4, <1>5 DEF Tasks, r
<1>7. tasks'[t] = r /\ \A u \in Tasks : u # t => tasks'[u] = tasks[u]
  BY <1>1, <1>2 DEF Tasks, r
<1>8. tasks'[t].at = place /\ tasks'[t].song = tasks[t].song
  BY <1>7 DEF r, TaskFrom
<1>9. \A u \in Tasks : tasks[u].song \in Songs
  BY <1>3 DEF TaskWith
<1> QED
  BY <1>6, <1>7, <1>8, <1>9 DEF TasksInv, Tasks

\* Changing a task's place, its files, total and list, or some of them, is a move:
\* a record of several changes is the record with one change after another.
LEMMA ChangeIsAMove ==
    ASSUME TasksInv, NEW t \in Tasks, NEW p, NEW f, NEW n, NEW l
    PROVE  /\ tasks' = [tasks EXCEPT ![t].at = p] => Moves(t, p)
           /\ tasks' = [tasks EXCEPT ![t].at = p, ![t].files = f] => Moves(t, p)
           /\ tasks' = [tasks EXCEPT ![t].at = p, ![t].files = f, ![t].listed = l]
                => Moves(t, p)
           /\ tasks' = [tasks EXCEPT ![t].files = f, ![t].total = n]
                => Moves(t, tasks[t].at)
<1> DEFINE x == tasks[t]
           From(place, files, total, listed) == TaskFrom(x, place, files, total, listed)
<1>1. PICK F : tasks \in Seq(TaskWith(F))
  BY DEF TasksInv
<1>2. x \in TaskWith(F)
  BY <1>1 DEF Tasks
<1>3. [x EXCEPT !.at = p] = From(p, x.files, x.total, x.listed)
  BY <1>2 DEF TaskWith, TaskFrom
<1>4. [x EXCEPT !.at = p, !.files = f] = From(p, f, x.total, x.listed)
  <2>1. [From(p, x.files, x.total, x.listed) EXCEPT !.files = f] = From(p, f, x.total, x.listed)
    BY DEF TaskFrom
  <2>2. [x EXCEPT !.at = p, !.files = f] = [[x EXCEPT !.at = p] EXCEPT !.files = f]
    OBVIOUS
  <2> QED
    BY <1>3, <2>1, <2>2, Zenon
<1>5. [x EXCEPT !.at = p, !.files = f, !.listed = l] = From(p, f, x.total, l)
  <2>1. [From(p, f, x.total, x.listed) EXCEPT !.listed = l] = From(p, f, x.total, l)
    BY DEF TaskFrom
  <2>2. [x EXCEPT !.at = p, !.files = f, !.listed = l]
          = [[x EXCEPT !.at = p, !.files = f] EXCEPT !.listed = l]
    OBVIOUS
  <2> QED
    BY <1>4, <2>1, <2>2, Zenon
<1>6. [x EXCEPT !.files = f, !.total = n] = From(x.at, f, n, x.listed)
  <2>1. [x EXCEPT !.files = f] = From(x.at, f, x.total, x.listed)
    BY <1>2 DEF TaskWith, TaskFrom
  <2>2. [From(x.at, f, x.total, x.listed) EXCEPT !.total = n] = From(x.at, f, n, x.listed)
    BY DEF TaskFrom
  <2>3. [x EXCEPT !.files = f, !.total = n] = [[x EXCEPT !.files = f] EXCEPT !.total = n]
    OBVIOUS
  <2> QED
    BY <2>1, <2>2, <2>3, Zenon
<1>7. ASSUME tasks' = [tasks EXCEPT ![t].at = p]
      PROVE  Moves(t, p)
  <2>1. tasks' = [tasks EXCEPT ![t] = [x EXCEPT !.at = p]]
    BY <1>1, <1>7 DEF Tasks
  <2> QED
    BY <1>3, <2>1 DEF Moves
<1>8. ASSUME tasks' = [tasks EXCEPT ![t].at = p, ![t].files = f]
      PROVE  Moves(t, p)
  <2>1. tasks' = [tasks EXCEPT ![t] = [x EXCEPT !.at = p, !.files = f]]
    BY <1>1, <1>8 DEF Tasks
  <2> QED
    BY <1>4, <2>1 DEF Moves
<1>9. ASSUME tasks' = [tasks EXCEPT ![t].at = p, ![t].files = f, ![t].listed = l]
      PROVE  Moves(t, p)
  <2>1. tasks' = [tasks EXCEPT ![t] = [x EXCEPT !.at = p, !.files = f, !.listed = l]]
    BY <1>1, <1>9 DEF Tasks
  <2> QED
    BY <1>5, <2>1 DEF Moves
<1>10. ASSUME tasks' = [tasks EXCEPT ![t].files = f, ![t].total = n]
      PROVE  Moves(t, x.at)
  <2>1. tasks' = [tasks EXCEPT ![t] = [x EXCEPT !.files = f, !.total = n]]
    BY <1>1, <1>10 DEF Tasks
  <2> QED
    BY <1>6, <2>1 DEF Moves
<1> QED
  BY <1>7, <1>8, <1>9, <1>10

\* The tasks that hold a slot are finitely many.
LEMMA BusyIsFinite ==
    ASSUME TasksInv
    PROVE  IsFiniteSet(Busy) /\ Cardinality(Busy) \in Nat
<1>1. Len(tasks) \in Nat
  BY DEF TasksInv
<1>2. IsFiniteSet(Tasks)
  BY <1>1, FS_Interval DEF Tasks
<1> QED
  BY <1>2, FS_Subset, FS_CardinalityType DEF Busy

\* A move that takes no slot keeps the number of slots within its limit.
LEMMA MoveKeepsSlots ==
    ASSUME TasksInv, AtMostSlots, NEW t \in Tasks, NEW place \in Places, Moves(t, place),
           place \in Working => tasks[t].at \in Working
    PROVE  AtMostSlots'
<1>1. Busy' \subseteq Busy
  BY MoveKeeps DEF Busy
<1>2. Cardinality(Busy') <= Cardinality(Busy) /\ Cardinality(Busy') \in Nat
  BY <1>1, BusyIsFinite, FS_Subset, FS_CardinalityType
<1> QED
  BY <1>2, BusyIsFinite, SongCacheAssumption DEF AtMostSlots, SongCacheAssumption

\* A move of a task that is not over, with FETCHING as it is, keeps single flight.
LEMMA MoveKeepsSong ==
    ASSUME TasksInv, OneDownloadPerSong, NEW t \in Tasks, NEW place \in Places,
           Moves(t, place), tasks[t].at # "over", UNCHANGED fetching
    PROVE  OneDownloadPerSong'
BY MoveKeeps DEF OneDownloadPerSong

\* The same for the whole invariant: the thread's steps but Enter.
LEMMA ThreadKeeps ==
    ASSUME IInv, NEW t \in Tasks, NEW place \in Places \ {"over"}, Moves(t, place),
           tasks[t].at \in Working, UNCHANGED fetching
    PROVE  IInv'
<1>1. tasks[t].at # "over"
  BY DEF Working, Downloading, Pruning
<1> QED
  BY <1>1, MoveKeeps, MoveKeepsSlots, MoveKeepsSong DEF IInv

-----------------------------------------------------------------------------
(* The event loop *)

LEMMA InitHolds == Init => IInv
<1> SUFFICES ASSUME Init PROVE IInv
  OBVIOUS
<1>1. tasks \in Seq(TaskWith({})) /\ Len(tasks) = 0
  BY DEF Init
<1>2. Tasks = {} /\ Busy = {}
  BY <1>1 DEF Tasks, Busy
<1>3. AtMostSlots
  BY <1>2, FS_EmptySet, SongCacheAssumption DEF AtMostSlots, SongCacheAssumption
<1> QED
  BY <1>1, <1>2, <1>3 DEF IInv, TasksInv, OneDownloadPerSong, Init

LEMMA AskKeeps == ASSUME IInv, NEW v \in Songs, Ask(v) PROVE IInv'
<1> DEFINE new == TaskOf(v, "asked")
           last == Len(tasks) + 1
<1>1. PICK F : tasks \in Seq(TaskWith(F))
  BY DEF IInv, TasksInv
<1> DEFINE G == F \cup {<<>>, 0, {}}
<1>2. new \in TaskWith(G) /\ new.at = "asked" /\ new.song = v
  BY DEF TaskOf, TaskWith, Places
<1>3. tasks \in Seq(TaskWith(G))
  <2>1. \A u \in 1..Len(tasks) : tasks[u] \in TaskWith(G)
    <3>1. \A u \in 1..Len(tasks) : tasks[u] \in TaskWith(F)
      BY <1>1
    <3> QED
      BY <3>1 DEF TaskWith
  <2> QED
    BY <1>1, <2>1, SeqOfElements
<1> HIDE DEF new, G
<1>4. tasks' = Append(tasks, new) /\ fetching' = [fetching EXCEPT ![v] = last] /\ fetching[v] = 0
  BY DEF Ask, new, Fetching
<1>5. TasksInv' /\ Len(tasks') = last /\ Len(tasks) \in Nat
  BY <1>2, <1>3, <1>4 DEF TasksInv
<1>6. /\ tasks'[last] = new
      /\ \A u \in Tasks : tasks'[u] = tasks[u] /\ u # last /\ u # 0
      /\ Tasks' = Tasks \cup {last}
  BY <1>3, <1>4, <1>5 DEF Tasks
<1>7. fetching' \in [Songs -> Nat]
  BY <1>4, <1>5 DEF IInv
<1>8. OneDownloadPerSong'
  <2> SUFFICES ASSUME NEW u \in Tasks', tasks'[u].at # "over"
               PROVE  fetching'[tasks'[u].song] = u
    BY DEF OneDownloadPerSong
  <2>1. CASE u = last
    BY <2>1, <1>2, <1>4, <1>6 DEF IInv
  <2>2. CASE u \in Tasks
    <3>1. fetching[tasks[u].song] = u /\ tasks[u].song # v
      BY <2>2, <1>4, <1>6 DEF IInv, OneDownloadPerSong
    <3>2. tasks[u].song \in Songs
      <4>1. tasks[u] \in TaskWith(F)
        BY <1>1, <2>2 DEF Tasks
      <4> QED
        BY <4>1 DEF TaskWith
    <3> QED
      BY <3>1, <3>2, <2>2, <1>4, <1>6 DEF IInv
  <2> QED
    BY <2>1, <2>2, <1>6
<1>9. Busy' = Busy
  <2>1. new.at \notin Working
    BY <1>2 DEF Working, Downloading, Pruning
  <2> QED
    BY <2>1, <1>6 DEF Busy
<1> QED
  BY <1>5, <1>7, <1>8, <1>9 DEF IInv, AtMostSlots

LEMMA EnterKeeps == ASSUME IInv, NEW t, Enter(t) PROVE IInv'
<1>1. t \in Tasks /\ tasks[t].at = "asked" /\ SlotIsFree(t) /\ UNCHANGED fetching
  BY DEF Enter, At
<1>2. "looking" \in Places /\ "looking" \in Working
  BY DEF Places, Working
<1>3. Moves(t, "looking")
  BY <1>1, ChangeIsAMove DEF Enter, Move, IInv
<1>4. AtMostSlots'
  <2>1. Busy' \subseteq Busy \cup {t}
    BY <1>1, <1>2, <1>3, MoveKeeps DEF Busy, IInv
  <2>2. Cardinality(Busy) < Slots
    BY <1>1 DEF SlotIsFree, Busy
  <2>3. /\ IsFiniteSet(Busy \cup {t})
        /\ Cardinality(Busy \cup {t}) <= Cardinality(Busy) + 1
        /\ Cardinality(Busy \cup {t}) \in Nat
    BY BusyIsFinite, FS_AddElement, FS_CardinalityType DEF IInv
  <2>4. Cardinality(Busy') <= Cardinality(Busy \cup {t}) /\ Cardinality(Busy') \in Nat
    BY <2>1, <2>3, FS_Subset, FS_CardinalityType
  <2> QED
    BY <2>2, <2>3, <2>4, BusyIsFinite, SongCacheAssumption
    DEF AtMostSlots, SongCacheAssumption, IInv
<1> QED
  BY <1>1, <1>2, <1>3, <1>4, MoveKeeps, MoveKeepsSong DEF IInv

\* FETCHING's callback: the task is over and its song free.
LEMMA ForgetKeeps == ASSUME IInv, NEW t, Forget(t) PROVE IInv'
<1>1. t \in Tasks /\ tasks[t].at = "ended"
  BY DEF Forget, At
<1>2. Moves(t, "over") /\ "over" \in Places /\ "over" \notin Working
  BY <1>1, ChangeIsAMove DEF Move, Forget, IInv, Places, Working, Downloading, Pruning
<1>3. TasksInv' /\ AtMostSlots'
  BY <1>1, <1>2, MoveKeeps, MoveKeepsSlots DEF IInv
<1>4. fetching' = [fetching EXCEPT ![tasks[t].song] = 0]
  BY DEF Forget
<1>5. OneDownloadPerSong'
  <2> SUFFICES ASSUME NEW u \in Tasks', tasks'[u].at # "over"
               PROVE  fetching'[tasks'[u].song] = u
    BY DEF OneDownloadPerSong
  <2>1. u \in Tasks /\ u # t /\ tasks'[u] = tasks[u]
    BY <1>1, <1>2, MoveKeeps DEF IInv
  <2>2. fetching[tasks[u].song] = u /\ fetching[tasks[t].song] = t
    BY <1>1, <2>1 DEF IInv, OneDownloadPerSong
  <2>3. tasks[u].song # tasks[t].song
    BY <2>1, <2>2
  <2> QED
    BY <1>1, <1>2, <1>4, <2>1, <2>2, <2>3, MoveKeeps DEF IInv
<1>6. fetching' \in [Songs -> Nat]
  BY <1>4 DEF IInv
<1> QED
  BY <1>3, <1>5, <1>6 DEF IInv

LEMMA RestartKeeps == ASSUME IInv, Restart PROVE IInv'
<1>1. PICK F : tasks \in Seq(TaskWith(F))
  BY DEF IInv, TasksInv
<1> DEFINE G == {<<>>, 0, {}}
<1>2. /\ tasks' = [t \in Tasks |-> TaskOf(tasks[t].song, "over")]
      /\ fetching' = [v \in Songs |-> 0]
  BY DEF Restart
<1>3. \A t \in Tasks : tasks[t].song \in Songs
  <2>1. \A t \in Tasks : tasks[t] \in TaskWith(F)
    BY <1>1 DEF Tasks
  <2> QED
    BY <2>1 DEF TaskWith
<1>4. \A t \in Tasks : tasks'[t].at = "over" /\ tasks'[t] \in TaskWith(G)
  BY <1>2, <1>3 DEF TaskOf, TaskWith, Places
<1>5. tasks' \in Seq(TaskWith(G)) /\ Tasks' = Tasks
  <2>1. tasks' \in [1..Len(tasks) -> TaskWith(G)] /\ Len(tasks) \in Nat
    BY <1>1, <1>2, <1>4 DEF Tasks
  <2> HIDE DEF G
  <2>2. tasks' \in Seq(TaskWith(G)) /\ Len(tasks') = Len(tasks)
    BY <2>1
  <2> QED
    BY <2>2 DEF Tasks
<1>6. Busy' = {}
  BY <1>4, <1>5 DEF Busy, Working, Downloading, Pruning
<1>7. AtMostSlots'
  BY <1>6, FS_EmptySet, SongCacheAssumption DEF AtMostSlots, SongCacheAssumption
<1> QED
  BY <1>2, <1>4, <1>5, <1>7 DEF IInv, TasksInv, OneDownloadPerSong

-----------------------------------------------------------------------------
(* A thread's steps *)

LEMMA LookKeeps == ASSUME IInv, NEW t, Look(t) PROVE IInv'
<1> DEFINE place == IF tasks[t].song \in Cached THEN "touching" ELSE "downloading"
<1>1. t \in Tasks /\ tasks[t].at = "looking" /\ UNCHANGED fetching /\ Move(t, place)
  BY DEF Look, At
<1>2. place \in Places \ {"over"}
  BY DEF Places, Working, Downloading
<1> HIDE DEF place
<1>3. Moves(t, place) /\ tasks[t].at \in Working
  BY <1>1, <1>2, ChangeIsAMove DEF Move, IInv, Working
<1> QED
  BY <1>1, <1>2, <1>3, ThreadKeeps

LEMMA EndingKeeps ==
    ASSUME IInv, NEW t \in Tasks, tasks[t].at \in Working, End(t), UNCHANGED fetching
    PROVE  IInv'
<1>1. Moves(t, "ended")
  BY DEF End, TaskOf, TaskFrom, Moves
<1>2. "ended" \in Places \ {"over"}
  BY DEF Places
<1> QED
  BY <1>1, <1>2, ThreadKeeps

LEMMA TouchKeeps == ASSUME IInv, NEW t, Touch(t) PROVE IInv'
BY EndingKeeps DEF Touch, At, Working

LEMMA DownloadKeeps == ASSUME IInv, NEW t, Download(t) PROVE IInv'
<1>1. t \in Tasks /\ tasks[t].at \in Working /\ UNCHANGED fetching
  BY DEF Download, At, Working, Downloading
<1>2. CASE Move(t, "arrived")
  <2>1. Moves(t, "arrived") /\ "arrived" \in Places \ {"over"}
    BY <1>1, <1>2, ChangeIsAMove DEF Move, IInv, Places, Working, Downloading
  <2> QED
    BY <1>1, <2>1, ThreadKeeps
<1>3. CASE End(t)
  BY <1>1, <1>3, EndingKeeps
<1> QED
  BY <1>2, <1>3 DEF Download

LEMMA PublishKeeps == ASSUME IInv, NEW t, Publish(t) PROVE IInv'
<1>1. t \in Tasks /\ tasks[t].at \in Working /\ UNCHANGED fetching
  BY DEF Publish, At, Working, Downloading
<1>2. Moves(t, "listing") /\ "listing" \in Places \ {"over"}
  BY <1>1, ChangeIsAMove DEF Move, Publish, IInv, Places, Working, Pruning
<1> QED
  BY <1>1, <1>2, ThreadKeeps

LEMMA ListKeeps == ASSUME IInv, NEW t, List(t) PROVE IInv'
<1>1. t \in Tasks /\ tasks[t].at \in Working /\ UNCHANGED fetching
  BY DEF List, At, Working, Pruning
<1>2. Moves(t, "sorting")
  BY <1>1, ChangeIsAMove DEF List, IInv
<1>3. "sorting" \in Places \ {"over"}
  BY DEF Places, Working, Pruning
<1> QED
  BY <1>1, <1>2, <1>3, ThreadKeeps

LEMMA SortKeeps == ASSUME IInv, NEW t, Sort(t) PROVE IInv'
<1>1. t \in Tasks /\ tasks[t].at \in Working /\ UNCHANGED fetching
  BY DEF Sort, At, Working, Pruning
<1>2. CASE End(t)
  BY <1>1, <1>2, EndingKeeps
<1>3. CASE ~End(t)
  <2>1. tasks' = [tasks EXCEPT ![t].at = "dropping",
                               ![t].files = NewestFirst(ToSet(tasks[t].files))]
    BY <1>3 DEF Sort
  <2>2. Moves(t, "dropping") /\ "dropping" \in Places \ {"over"}
    BY <1>1, <2>1, ChangeIsAMove DEF IInv, Places, Working, Pruning
  <2> QED
    BY <1>1, <2>2, ThreadKeeps
<1> QED
  BY <1>2, <1>3

LEMMA DropKeeps == ASSUME IInv, NEW t, Drop(t) PROVE IInv'
<1>1. t \in Tasks /\ tasks[t].at = "dropping" /\ UNCHANGED fetching
  BY DEF Drop, At
<1>2. "dropping" \in Working /\ "dropping" \in Places \ {"over"}
  BY DEF Places, Working, Pruning
<1>3. CASE End(t)
  BY <1>1, <1>2, <1>3, EndingKeeps
<1>4. CASE ~End(t)
  <2>1. tasks' = [tasks EXCEPT ![t].files = Tail(@), ![t].total = @ + Size[Head(tasks[t].files)]]
    BY <1>4 DEF Drop
  <2>2. Moves(t, "dropping")
    BY <1>1, <2>1, ChangeIsAMove DEF IInv
  <2> QED
    BY <1>1, <1>2, <2>2, ThreadKeeps
<1> QED
  BY <1>3, <1>4

LEMMA PruneEndsKeeps == ASSUME IInv, NEW t, PruneEnds(t) PROVE IInv'
BY EndingKeeps DEF PruneEnds, At, Working, Pruning

-----------------------------------------------------------------------------
(* The theorems *)

LEMMA NextKeeps == ASSUME IInv, [Next]_vars PROVE IInv'
<1>1. ASSUME NEW v \in Songs, Ask(v) PROVE IInv'
  BY <1>1, AskKeeps
<1>2. ASSUME NEW t \in Tasks, Step(t) PROVE IInv'
  BY <1>2, EnterKeeps, LookKeeps, TouchKeeps, DownloadKeeps, PublishKeeps,
     ListKeeps, SortKeeps, DropKeeps, PruneEndsKeeps, ForgetKeeps DEF Step
<1>3. CASE Restart
  BY <1>3, RestartKeeps
<1>4. CASE UNCHANGED vars
  BY <1>4 DEF vars, IInv, TasksInv, OneDownloadPerSong, AtMostSlots, Busy, Tasks
<1> QED
  BY <1>1, <1>2, <1>3, <1>4 DEF Next

\* The inductive invariant of yt_file(), _fetch_one() and yt_fetch().
THEOREM Invariance == Spec => []IInv
BY InitHolds, NextKeeps, PTL DEF Spec

\* yt_file(): one download per song, however many requests ask for it at once, and
\* none left behind by a song that may be asked for again.
THEOREM SingleFlight == Spec => []OneDownloadPerSong
<1>1. IInv => OneDownloadPerSong
  BY DEF IInv
<1> QED
  BY <1>1, Invariance, PTL

\* _fetch_one(): no more threads than DOWNLOADS has slots download or prune.
THEOREM SlotsHold == Spec => []AtMostSlots
<1>1. IInv => AtMostSlots
  BY DEF IInv
<1> QED
  BY <1>1, Invariance, PTL

-----------------------------------------------------------------------------
(* The size of a set of songs *)

\* f is a sum over the subsets of A.
Sums(f, A) ==
    /\ f \in [SUBSET A -> Nat]
    /\ f[{}] = 0
    /\ \A T \in SUBSET A : \A v \in A \ T : f[T \cup {v}] = f[T] + Size[v]

\* There is one for every set of songs: from one over A, one over A and one more song.
LEMMA SumsAreThere == \E f : Sums(f, Songs)
<1> DEFINE S == {n \in Nat : \A A \in SUBSET Songs : Cardinality(A) = n => \E f : Sums(f, A)}
<1>0. IsFiniteSet(Songs) /\ Size \in [Songs -> Nat \ {0}]
  BY SongCacheAssumption DEF SongCacheAssumption
<1>1. 0 \in S
  <2> SUFFICES ASSUME NEW A \in SUBSET Songs, Cardinality(A) = 0 PROVE \E f : Sums(f, A)
    OBVIOUS
  <2>1. A = {}
    <3>1. IsFiniteSet(A)
      BY <1>0, FS_Subset
    <3> QED
      BY <3>1, FS_EmptySet
  <2> DEFINE f == [T \in SUBSET A |-> 0]
  <2>2. f \in [SUBSET A -> Nat] /\ f[{}] = 0 /\ \A T \in SUBSET A : \A v \in A \ T : FALSE
    BY <2>1
  <2> HIDE DEF f
  <2>3. Sums(f, A)
    BY <2>2 DEF Sums
  <2> QED
    BY <2>3
<1>2. ASSUME NEW n \in Nat, n \in S
      PROVE  n + 1 \in S
  <2> SUFFICES ASSUME NEW A \in SUBSET Songs, Cardinality(A) = n + 1 PROVE \E f : Sums(f, A)
    OBVIOUS
  <2>1. IsFiniteSet(A) /\ A # {}
    BY <1>0, FS_Subset, FS_EmptySet
  <2>2. PICK v \in A : TRUE
    BY <2>1
  <2> DEFINE B == A \ {v}
  <2>3. B \in SUBSET Songs /\ Cardinality(B) = n
    <3>1. Cardinality(B) = Cardinality(A) - 1
      BY <2>1, <2>2, FS_RemoveElement
    <3> QED
      BY <3>1
  <2>4. PICK g : Sums(g, B)
    BY <1>2, <2>3
  <2> DEFINE f == [T \in SUBSET A |-> IF v \in T THEN g[T \ {v}] + Size[v] ELSE g[T]]
  <2>5. g \in [SUBSET B -> Nat] /\ g[{}] = 0 /\ Size[v] \in Nat
    BY <1>0, <2>4 DEF Sums
  <2>6. \A T \in SUBSET A : T \ {v} \in SUBSET B /\ (v \notin T => T \in SUBSET B)
    OBVIOUS
  <2>7. \A T \in SUBSET A : f[T] = IF v \in T THEN g[T \ {v}] + Size[v] ELSE g[T]
    OBVIOUS
  <2>8. f \in [SUBSET A -> Nat]
    <3>1. \A T \in SUBSET A : (IF v \in T THEN g[T \ {v}] + Size[v] ELSE g[T]) \in Nat
      BY <2>5, <2>6
    <3> QED
      BY <3>1
  <2> HIDE DEF f
  <2>9. f[{}] = 0
    BY <2>5, <2>7
  <2>10. ASSUME NEW T \in SUBSET A, NEW w \in A \ T
         PROVE  f[T \cup {w}] = f[T] + Size[w]
    <3>0. T \cup {w} \in SUBSET A
      OBVIOUS
    <3>1. CASE w = v
      <4>1. (T \cup {w}) \ {v} = T /\ v \notin T
        BY <3>1
      <4> QED
        BY <2>7, <3>0, <3>1, <4>1
    <3>2. CASE w # v /\ v \in T
      <4>1. (T \cup {w}) \ {v} = (T \ {v}) \cup {w} /\ T \ {v} \in SUBSET B /\ w \in B \ (T \ {v})
        BY <3>2
      <4>2. g[(T \ {v}) \cup {w}] = g[T \ {v}] + Size[w]
        BY <2>4, <4>1 DEF Sums
      <4>3. f[T \cup {w}] = g[(T \ {v}) \cup {w}] + Size[v] /\ f[T] = g[T \ {v}] + Size[v]
        BY <2>7, <3>0, <3>2, <4>1
      <4>4. g[T \ {v}] \in Nat /\ Size[w] \in Nat
        BY <1>0, <2>5, <4>1
      <4> QED
        BY <2>5, <4>2, <4>3, <4>4
    <3>3. CASE w # v /\ v \notin T
      <4>1. T \in SUBSET B /\ w \in B \ T /\ v \notin T \cup {w}
        BY <3>3
      <4>2. g[T \cup {w}] = g[T] + Size[w]
        BY <2>4, <4>1 DEF Sums
      <4> QED
        BY <2>7, <3>0, <4>1, <4>2
    <3> QED
      BY <3>1, <3>2, <3>3
  <2>11. Sums(f, A)
    BY <2>8, <2>9, <2>10 DEF Sums
  <2> QED
    BY <2>11
<1> HIDE DEF S
<1>3. \A n \in Nat : n \in S
  BY <1>1, <1>2, FromZeroOn
<1>4. Cardinality(Songs) \in S
  BY <1>0, <1>3, FS_CardinalityType
<1> QED
  BY <1>4 DEF S

\* How SizeOf() adds up the files: one after another, chosen in any way.
Adds(g, files) ==
    g = [rest \in SUBSET files |->
            IF rest = {} THEN 0
            ELSE LET v == CHOOSE v \in rest : TRUE IN g[rest \ {v}] + Size[v]]

\* A function that is computed so is the sum.
LEMMA AddsTheSum ==
    ASSUME NEW f, Sums(f, Songs), NEW files \in SUBSET Songs, NEW g, Adds(g, files)
    PROVE  g[files] = f[files]
<1> DEFINE S == {n \in Nat : \A T \in SUBSET files : Cardinality(T) = n => g[T] = f[T]}
<1>0. IsFiniteSet(Songs)
  BY SongCacheAssumption DEF SongCacheAssumption
<1>1. \A T \in SUBSET files :
         g[T] = IF T = {} THEN 0 ELSE g[T \ {CHOOSE v \in T : TRUE}] + Size[CHOOSE v \in T : TRUE]
  BY DEF Adds
<1>2. 0 \in S
  <2> SUFFICES ASSUME NEW T \in SUBSET files, Cardinality(T) = 0 PROVE g[T] = f[T]
    OBVIOUS
  <2>1. T = {}
    <3>1. IsFiniteSet(T)
      BY <1>0, FS_Subset
    <3> QED
      BY <3>1, FS_EmptySet
  <2> QED
    BY <1>1, <2>1 DEF Sums
<1>3. ASSUME NEW n \in Nat, n \in S
      PROVE  n + 1 \in S
  <2> SUFFICES ASSUME NEW T \in SUBSET files, Cardinality(T) = n + 1 PROVE g[T] = f[T]
    OBVIOUS
  <2>1. IsFiniteSet(T) /\ T # {}
    BY <1>0, FS_Subset, FS_EmptySet
  <2> DEFINE v == CHOOSE v \in T : TRUE
             B == T \ {v}
  <2>2. v \in T
    BY <2>1
  <2>3. g[T] = g[B] + Size[v]
    BY <1>1, <2>1
  <2> HIDE DEF v
  <2>4. Cardinality(B) = n
    <3>1. Cardinality(B) = Cardinality(T) - 1
      BY <2>1, <2>2, FS_RemoveElement
    <3> QED
      BY <3>1
  <2>5. g[B] = f[B]
    BY <1>3, <2>4
  <2>6. B \in SUBSET Songs /\ v \in Songs \ B /\ T = B \cup {v}
    BY <2>2
  <2>7. f[B \cup {v}] = f[B] + Size[v]
    BY <2>6 DEF Sums
  <2> QED
    BY <2>3, <2>5, <2>6, <2>7
<1> HIDE DEF S
<1>4. Cardinality(files) \in S
  <2>1. \A n \in Nat : n \in S
    BY <1>2, <1>3, FromZeroOn
  <2> QED
    BY <1>0, <2>1, FS_Subset, FS_CardinalityType
<1> QED
  BY <1>4 DEF S

\* The sum can be computed so.
LEMMA TheSumAdds ==
    ASSUME NEW f, Sums(f, Songs), NEW files \in SUBSET Songs
    PROVE  \E g : Adds(g, files)
<1> DEFINE g == [T \in SUBSET files |-> f[T]]
<1>1. ASSUME NEW T \in SUBSET files
      PROVE  g[T] = IF T = {} THEN 0 ELSE g[T \ {CHOOSE v \in T : TRUE}] + Size[CHOOSE v \in T : TRUE]
  <2>1. CASE T = {}
    BY <2>1 DEF Sums
  <2>2. CASE T # {}
    <3> DEFINE v == CHOOSE v \in T : TRUE
               B == T \ {v}
    <3>1. v \in T
      BY <2>2
    <3> HIDE DEF v
    <3>2. B \in SUBSET Songs /\ v \in Songs \ B /\ T = B \cup {v} /\ B \in SUBSET files
      BY <3>1
    <3>3. f[B \cup {v}] = f[B] + Size[v]
      BY <3>2 DEF Sums
    <3>4. g[T] = g[B] + Size[v]
      BY <3>2, <3>3
    <3> HIDE DEF g
    <3> QED
      BY <2>2, <3>4 DEF v
  <2> QED
    BY <2>1, <2>2
<1>2. g = [T \in SUBSET files |-> g[T]]
  OBVIOUS
<1> HIDE DEF g
<1>3. Adds(g, files)
  BY <1>1, <1>2 DEF Adds
<1> QED
  BY <1>3

\* SizeOf() is a sum, in whatever order the files are added.
LEMMA SizesAdd ==
    /\ SizeOf({}) = 0
    /\ \A T \in SUBSET Songs : SizeOf(T) \in Nat
    /\ \A T \in SUBSET Songs : \A v \in Songs \ T : SizeOf(T \cup {v}) = SizeOf(T) + Size[v]
<1>1. PICK f : Sums(f, Songs)
  BY SumsAreThere
<1>2. ASSUME NEW files \in SUBSET Songs PROVE SizeOf(files) = f[files]
  <2> DEFINE g == CHOOSE h : Adds(h, files)
  <2>1. Adds(g, files)
    BY <1>1, TheSumAdds
  <2>2. SizeOf(files) = g[files]
    BY DEF SizeOf, Adds
  <2> QED
    BY <1>1, <2>1, <2>2, AddsTheSum
<1>3. \A T \in SUBSET Songs : \A v \in Songs \ T : T \cup {v} \in SUBSET Songs
  OBVIOUS
<1> QED
  BY <1>1, <1>2, <1>3 DEF Sums

\* More files are not smaller.
LEMMA SizesGrow ==
    ASSUME NEW T \in SUBSET Songs, NEW B \in SUBSET T
    PROVE  SizeOf(B) <= SizeOf(T)
<1>0. IsFiniteSet(Songs) /\ Size \in [Songs -> Nat \ {0}]
  BY SongCacheAssumption DEF SongCacheAssumption
<1> DEFINE X == {n \in Nat : \A R \in SUBSET T : Cardinality(R) = n => SizeOf(B) <= SizeOf(B \cup R)}
<1>1. 0 \in X
  <2> SUFFICES ASSUME NEW R \in SUBSET T, Cardinality(R) = 0 PROVE SizeOf(B) <= SizeOf(B \cup R)
    OBVIOUS
  <2>1. R = {}
    <3>1. IsFiniteSet(R)
      BY <1>0, FS_Subset
    <3> QED
      BY <3>1, FS_EmptySet
  <2>2. B \cup R = B
    BY <2>1
  <2>3. SizeOf(B) \in Nat
    BY SizesAdd
  <2> QED
    BY <2>2, <2>3
<1>2. ASSUME NEW n \in Nat, n \in X
      PROVE  n + 1 \in X
  <2> SUFFICES ASSUME NEW R \in SUBSET T, Cardinality(R) = n + 1 PROVE SizeOf(B) <= SizeOf(B \cup R)
    OBVIOUS
  <2>1. IsFiniteSet(R) /\ R # {}
    BY <1>0, FS_Subset, FS_EmptySet
  <2>2. PICK v \in R : TRUE
    BY <2>1
  <2>3. Cardinality(R \ {v}) = n
    <3>1. Cardinality(R \ {v}) = Cardinality(R) - 1
      BY <2>1, <2>2, FS_RemoveElement
    <3> QED
      BY <3>1
  <2> DEFINE P == B \cup (R \ {v})
  <2>4. SizeOf(B) <= SizeOf(P)
    BY <1>2, <2>3
  <2>5. B \cup R = P \cup {v} /\ P \in SUBSET Songs /\ v \in Songs /\ P \cup {v} \in SUBSET Songs
    BY <2>2
  <2> HIDE DEF P
  <2>6. SizeOf(P) <= SizeOf(P \cup {v})
    <3>1. CASE v \in P
      <4>1. P \cup {v} = P
        BY <3>1
      <4>2. SizeOf(P) \in Nat
        BY <2>5, SizesAdd
      <4>3. SizeOf(P \cup {v}) = SizeOf(P)
        BY <4>1, Zenon
      <4> QED
        BY <4>2, <4>3
    <3>2. CASE v \notin P
      <4>1. SizeOf(P \cup {v}) = SizeOf(P) + Size[v] /\ SizeOf(P) \in Nat
        BY <2>5, <3>2, SizesAdd
      <4>2. Size[v] \in Nat \ {0}
        BY <1>0, <2>5
      <4> DEFINE a == SizeOf(P)
                 b == SizeOf(P \cup {v})
                 c == Size[v]
      <4>3. b = a + c /\ a \in Nat /\ c \in Nat
        BY <4>1, <4>2
      <4> HIDE DEF a, b, c
      <4>4. a <= b
        BY <4>3
      <4> QED
        BY <4>4 DEF a, b
    <3> QED
      BY <3>1, <3>2
  <2>7. SizeOf(B) \in Nat /\ SizeOf(P) \in Nat /\ SizeOf(P \cup {v}) \in Nat
    BY <2>5, SizesAdd
  <2>8. SizeOf(B \cup R) = SizeOf(P \cup {v})
    BY <2>5
  <2> QED
    BY <2>4, <2>6, <2>7, <2>8
<1> HIDE DEF X
<1>3. Cardinality(T) \in X
  <2>1. \A n \in Nat : n \in X
    BY <1>1, <1>2, FromZeroOn
  <2> QED
    BY <1>0, <2>1, FS_Subset, FS_CardinalityType
<1>4. B \cup T = T
  OBVIOUS
<1> QED
  BY <1>3, <1>4 DEF X

-----------------------------------------------------------------------------
(* The cache and its prune() *)

CacheTask == [song : Songs, at : Places, files : Seq(Songs), total : Nat, listed : SUBSET Nat]

CacheTypes ==
    /\ tasks \in Seq(CacheTask)
    /\ cache \in Seq(Songs) /\ IsInjective(cache)
    /\ fetching \in [Songs -> 0..Len(tasks)]
    /\ restarts \in 0..MaxRestarts
    /\ unpruned \in SUBSET Tasks /\ \A t \in Tasks : tasks[t].listed \in SUBSET Tasks

Out(x) == x.at \in Pruning \cup {"ended", "over"}
Lists(x) == x.at \in {"sorting", "dropping"}

\* The songs of tasks that no prune() has seen, but for those that this one has listed.
Spared(tsks, un, listed) == {tsks[u].song : u \in un \ listed}

\* A list has only tasks that have published.
ListedAreOut ==
    /\ \A u \in unpruned : Out(tasks[u])
    /\ \A t \in Tasks : \A u \in tasks[t].listed : Out(tasks[u])

\* What prune() x still has to do for the limit: the files that it has passed fit in.
OnItsWay(x, files, tsks, un) ==
    un \cap x.listed # {} =>
        /\ x.at = "sorting" => files \ Spared(tsks, un, x.listed) \subseteq ToSet(x.files)
        /\ x.at = "dropping" =>
              /\ SizeOf((files \ Spared(tsks, un, x.listed)) \ ToSet(x.files)) <= x.total
              /\ SizeOf((files \ Spared(tsks, un, x.listed)) \ ToSet(x.files)) <= CacheBytes

\* Of two prune()s one has listed all that the other still has to see to.
Nested(x, y, un) == un \cap x.listed \subseteq y.listed \/ un \cap y.listed \subseteq x.listed

PrunesAgree ==
    /\ \A t \in Tasks : Lists(tasks[t]) => OnItsWay(tasks[t], Cached, tasks, unpruned)
    /\ \A t, w \in Tasks : Lists(tasks[t]) /\ Lists(tasks[w]) => Nested(tasks[t], tasks[w], unpruned)

CacheIInv == CacheTypes /\ ListedAreOut /\ CacheCapped /\ PrunesAgree

\* Songs selected from the cache, and the cache with a song renewed.
LEMMA CacheChosen ==
    ASSUME CacheTypes, NEW T
    PROVE  /\ Selected(cache, T) \in Seq(Songs) /\ IsInjective(Selected(cache, T))
           /\ ToSet(Selected(cache, T)) = Cached \cap T
<1> DEFINE r == Selected(cache, T)
<1>1. cache \in Seq(Songs) /\ IsInjective(cache)
  BY DEF CacheTypes
<1>2. r \in Seq(Songs)
  BY <1>1, SelectedSelects
<1>3. PICK g : Selects(cache, T, Len(cache), r, g)
  BY <1>1, SelectedSelects
<1>4. /\ \A k \in 1..Len(r) : r[k] \in T /\ \E i \in 1..Len(cache) : r[k] = cache[i]
      /\ \A i \in 1..Len(cache) : cache[i] \in T => \E k \in 1..Len(r) : r[k] = cache[i]
  BY <1>1, SelectedRange
<1> HIDE DEF r
<1>5. DOMAIN r = 1..Len(r) /\ DOMAIN cache = 1..Len(cache)
  BY <1>1, <1>2
<1>6. \A k \in 1..Len(r) : r[k] = cache[g[k]] /\ g[k] \in 1..Len(cache)
  BY <1>3 DEF Selects
<1>7. \A j, k \in 1..Len(r) : j # k => g[j] # g[k]
  <2>1. Len(r) \in Nat
    BY <1>2
  <2>2. ASSUME NEW j \in 1..Len(r), NEW k \in 1..Len(r), j # k PROVE g[j] # g[k]
    <3>1. (j < k \/ k < j) /\ g[j] \in Int /\ g[k] \in Int
      BY <1>6, <2>2
    <3> QED
      BY <1>3, <3>1 DEF Selects
  <2> QED
    BY <2>2
<1>8. IsInjective(r)
  BY <1>1, <1>5, <1>6, <1>7 DEF IsInjective
<1>9. ToSet(r) = Cached \cap T
  BY <1>4, <1>5 DEF ToSet, Cached
<1> QED
  BY <1>2, <1>8, <1>9 DEF r

LEMMA CacheRenewed ==
    ASSUME CacheTypes, NEW v \in Songs
    PROVE  /\ Renewed(v) \in Seq(Songs) /\ IsInjective(Renewed(v))
           /\ ToSet(Renewed(v)) = Cached \cup {v}
<1> DEFINE s == Selected(cache, Cached \ {v})
           r == <<v>> \o s
<1>1. s \in Seq(Songs) /\ IsInjective(s) /\ ToSet(s) = Cached \ {v}
  BY CacheChosen
<1> HIDE DEF s
<1>2. /\ r \in Seq(Songs) /\ Len(r) = Len(s) + 1 /\ Len(s) \in Nat
      /\ r[1] = v /\ \A i \in 1..Len(s) : r[i + 1] = s[i]
      /\ DOMAIN r = 1..Len(s) + 1 /\ DOMAIN s = 1..Len(s)
  BY <1>1
<1> HIDE DEF r
<1>3. \A i \in 1..Len(s) + 1 : i = 1 \/ (i - 1 \in 1..Len(s) /\ r[i] = s[i - 1])
  <2>1. \A i \in 1..Len(s) + 1 : i # 1 => i - 1 \in 1..Len(s) /\ i - 1 + 1 = i
    BY <1>2
  <2> QED
    BY <1>2, <2>1
<1>4. \A i \in 1..Len(s) : s[i] # v
  BY <1>1, <1>2 DEF ToSet
<1>5. IsInjective(r)
  <2>1. \A i, j \in 1..Len(s) + 1 : r[i] = r[j] => i = j
    BY <1>1, <1>2, <1>3, <1>4 DEF IsInjective
  <2> QED
    BY <1>2, <2>1 DEF IsInjective
<1>6. ToSet(r) = Cached \cup {v}
  <2>1. ToSet(r) \subseteq ToSet(s) \cup {v}
    BY <1>2, <1>3 DEF ToSet
  <2>2. \A i \in 1..Len(s) : s[i] = r[i + 1] /\ i + 1 \in 1..Len(s) + 1
    BY <1>2
  <2>3. ToSet(s) \cup {v} \subseteq ToSet(r)
    <3>1. 1 \in 1..Len(s) + 1
      BY <1>2
    <3> QED
      BY <1>2, <2>2, <3>1 DEF ToSet
  <2> QED
    BY <1>1, <2>1, <2>3
<1> QED
  BY <1>2, <1>5, <1>6 DEF Renewed, r, s

\* A task becomes r, the others stay.
LEMMA TaskBecomes ==
    ASSUME CacheTypes, NEW t \in Tasks, NEW r \in CacheTask, tasks' = [tasks EXCEPT ![t] = r]
    PROVE  /\ tasks' \in Seq(CacheTask) /\ Tasks' = Tasks /\ Len(tasks') = Len(tasks)
           /\ tasks'[t] = r
           /\ \A u \in Tasks : u # t => tasks'[u] = tasks[u]
<1> USE DEF CacheTypes, Tasks
<1>1. tasks \in Seq(CacheTask) /\ t \in 1..Len(tasks)
  OBVIOUS
<1>2. tasks' \in Seq(CacheTask) /\ Len(tasks') = Len(tasks)
  BY <1>1
<1> QED
  BY <1>1, <1>2

\* The records that the steps of a task make: a record of several changes is the record
\* with one change after another.
LEMMA TaskShape ==
    ASSUME CacheTypes, NEW t \in Tasks, NEW x, x = tasks[t]
    PROVE  x = [song |-> x.song, at |-> x.at, files |-> x.files, total |-> x.total, listed |-> x.listed]
<1>1. x \in CacheTask
  BY DEF CacheTypes, Tasks
<1> QED
  BY <1>1 DEF CacheTask

LEMMA RecordMade ==
    ASSUME CacheTypes, NEW t \in Tasks, NEW p \in Places, NEW f \in Seq(Songs), NEW n \in Nat,
           NEW l \in SUBSET Nat
    PROVE  TaskFrom(tasks[t], p, f, n, l) \in CacheTask
<1>1. tasks[t] \in CacheTask
  BY DEF CacheTypes, Tasks
<1>2. tasks[t].song \in Songs
  BY <1>1 DEF CacheTask
<1> QED
  BY <1>2 DEF CacheTask, TaskFrom

LEMMA MoveTurns ==
    ASSUME CacheTypes, NEW t \in Tasks, NEW p,
           Move(t, p)
    PROVE  tasks' = [tasks EXCEPT ![t] = TaskFrom(tasks[t], p, tasks[t].files, tasks[t].total, tasks[t].listed)]
<1> DEFINE x == tasks[t]
<1>1. tasks' = [tasks EXCEPT ![t] = [x EXCEPT !.at = p]]
  BY DEF CacheTypes, Tasks, Move
<1>0. x = [song |-> x.song, at |-> x.at, files |-> x.files, total |-> x.total, listed |-> x.listed]
  BY TaskShape
<1> HIDE DEF x
<1>2. [x EXCEPT !.at = p] = TaskFrom(x, p, x.files, x.total, x.listed)
  BY <1>0 DEF TaskFrom
<1> QED
  BY <1>1, <1>2, Zenon DEF x

LEMMA EndTurns ==
    ASSUME CacheTypes, NEW t \in Tasks, End(t)
    PROVE  tasks' = [tasks EXCEPT ![t] = TaskFrom(tasks[t], "ended", <<>>, 0, {})]
<1>1. tasks' = [tasks EXCEPT ![t] = TaskOf(tasks[t].song, "ended")]
  BY DEF End, CacheTypes, Tasks
<1> QED
  BY <1>1, Zenon DEF TaskOf, TaskFrom

LEMMA SortTurns ==
    ASSUME CacheTypes, NEW t \in Tasks, NEW p, NEW f,
           tasks' = [tasks EXCEPT ![t].at = p, ![t].files = f]
    PROVE  tasks' = [tasks EXCEPT ![t] = TaskFrom(tasks[t], p, f, tasks[t].total, tasks[t].listed)]
<1> DEFINE x == tasks[t]
<1>1. tasks' = [tasks EXCEPT ![t] = [x EXCEPT !.at = p, !.files = f]]
  BY DEF CacheTypes, Tasks
<1>0. x = [song |-> x.song, at |-> x.at, files |-> x.files, total |-> x.total, listed |-> x.listed]
  BY TaskShape
<1> HIDE DEF x
<1>2. [x EXCEPT !.at = p, !.files = f] = TaskFrom(x, p, f, x.total, x.listed)
  <2>1. [x EXCEPT !.at = p] = TaskFrom(x, p, x.files, x.total, x.listed)
    BY <1>0 DEF TaskFrom
  <2>2. [TaskFrom(x, p, x.files, x.total, x.listed) EXCEPT !.files = f] = TaskFrom(x, p, f, x.total, x.listed)
    BY DEF TaskFrom
  <2>3. [x EXCEPT !.at = p, !.files = f] = [[x EXCEPT !.at = p] EXCEPT !.files = f]
    OBVIOUS
  <2> QED
    BY <2>1, <2>2, <2>3, Zenon
<1> QED
  BY <1>1, <1>2, Zenon DEF x

LEMMA DropTurns ==
    ASSUME CacheTypes, NEW t \in Tasks, NEW f, NEW n,
           tasks' = [tasks EXCEPT ![t].files = f, ![t].total = n]
    PROVE  tasks' = [tasks EXCEPT ![t] = TaskFrom(tasks[t], tasks[t].at, f, n, tasks[t].listed)]
<1> DEFINE x == tasks[t]
<1>1. tasks' = [tasks EXCEPT ![t] = [x EXCEPT !.files = f, !.total = n]]
  BY DEF CacheTypes, Tasks
<1>0. x = [song |-> x.song, at |-> x.at, files |-> x.files, total |-> x.total, listed |-> x.listed]
  BY TaskShape
<1> HIDE DEF x
<1>2. [x EXCEPT !.files = f, !.total = n] = TaskFrom(x, x.at, f, n, x.listed)
  <2>1. [x EXCEPT !.files = f] = TaskFrom(x, x.at, f, x.total, x.listed)
    BY <1>0 DEF TaskFrom
  <2>2. [TaskFrom(x, x.at, f, x.total, x.listed) EXCEPT !.total = n] = TaskFrom(x, x.at, f, n, x.listed)
    BY DEF TaskFrom
  <2>3. [x EXCEPT !.files = f, !.total = n] = [[x EXCEPT !.files = f] EXCEPT !.total = n]
    OBVIOUS
  <2> QED
    BY <2>1, <2>2, <2>3, Zenon
<1> QED
  BY <1>1, <1>2, Zenon DEF x

\* What is due of fewer files is due still: a step of task t leaves the other prune()s on
\* their way when it puts nothing in front of them.
LEMMA OthersGoOn ==
    ASSUME CacheIInv, CacheTypes', CacheCapped', NEW t,
           \A u \in Tasks : u \in Tasks' /\ tasks'[u].song = tasks[u].song
                            /\ (Out(tasks[u]) => Out(tasks'[u])),
           \A u \in unpruned' : u \in unpruned \/ Out(tasks'[u]),
           \A u \in Tasks' : u # t /\ (Lists(tasks'[u]) \/ tasks'[u].listed # {})
                                => u \in Tasks /\ tasks'[u] = tasks[u],
           t \in Tasks' => \A u \in tasks'[t].listed : Out(tasks'[u]),
           \A w \in Tasks : w # t /\ Lists(tasks[w]) =>
              /\ unpruned' \cap tasks[w].listed \subseteq unpruned
              /\ unpruned' \cap tasks[w].listed # {} =>
                    Cached' \ Spared(tasks', unpruned', tasks[w].listed)
                        \subseteq Cached \ Spared(tasks, unpruned, tasks[w].listed),
           t \in Tasks' /\ Lists(tasks'[t]) =>
              /\ OnItsWay(tasks'[t], Cached', tasks', unpruned')
              /\ \A w \in Tasks : w # t /\ Lists(tasks[w]) => Nested(tasks'[t], tasks[w], unpruned')
    PROVE  CacheIInv'
<1>1. ListedAreOut'
  <2>1. \A u \in unpruned : Out(tasks[u]) /\ u \in Tasks
    BY DEF CacheIInv, ListedAreOut, CacheTypes
  <2>2. \A u \in unpruned' : Out(tasks'[u])
    BY <2>1
  <2>3. ASSUME NEW w \in Tasks', NEW u \in tasks'[w].listed PROVE Out(tasks'[u])
    <3>1. CASE w = t
      BY <2>3, <3>1
    <3>2. CASE w # t
      <4>1. w \in Tasks /\ tasks'[w] = tasks[w]
        BY <2>3, <3>2
      <4>2. u \in Tasks /\ Out(tasks[u])
        BY <2>3, <4>1 DEF CacheIInv, ListedAreOut, CacheTypes
      <4> QED
        BY <4>2
    <3> QED
      BY <3>1, <3>2
  <2> QED
    BY <2>2, <2>3 DEF ListedAreOut
<1>2. ASSUME NEW w \in Tasks', Lists(tasks'[w])
      PROVE  OnItsWay(tasks'[w], Cached', tasks', unpruned')
  <2>1. CASE w = t
    BY <1>2, <2>1
  <2>2. CASE w # t
    <3>1. w \in Tasks /\ tasks'[w] = tasks[w]
      BY <1>2, <2>2
    <3> DEFINE l == tasks[w].listed
               old == Cached \ Spared(tasks, unpruned, l)
               new == Cached' \ Spared(tasks', unpruned', l)
    <3>2. OnItsWay(tasks[w], Cached, tasks, unpruned)
      BY <1>2, <3>1 DEF CacheIInv, PrunesAgree
    <3>3. SUFFICES ASSUME unpruned' \cap l # {}
                   PROVE  /\ tasks[w].at = "sorting" => new \subseteq ToSet(tasks[w].files)
                          /\ tasks[w].at = "dropping" =>
                                /\ SizeOf(new \ ToSet(tasks[w].files)) <= tasks[w].total
                                /\ SizeOf(new \ ToSet(tasks[w].files)) <= CacheBytes
      BY <3>1 DEF OnItsWay
    <3>4. unpruned \cap l # {} /\ new \subseteq old
      BY <1>2, <2>2, <3>1, <3>3
    <3>5. /\ tasks[w].at = "sorting" => old \subseteq ToSet(tasks[w].files)
          /\ tasks[w].at = "dropping" =>
                /\ SizeOf(old \ ToSet(tasks[w].files)) <= tasks[w].total
                /\ SizeOf(old \ ToSet(tasks[w].files)) <= CacheBytes
      BY <3>2, <3>4 DEF OnItsWay
    <3>6. old \in SUBSET Songs
      BY DEF CacheIInv, CacheTypes, Cached, ToSet
    <3>7. tasks[w].total \in Nat /\ CacheBytes \in Nat
      <4>1. tasks[w] \in CacheTask
        BY <3>1 DEF CacheIInv, CacheTypes, Tasks
      <4> QED
        BY <4>1, SongCacheAssumption DEF CacheTask, SongCacheAssumption
    <3> HIDE DEF old, new
    <3> DEFINE f == ToSet(tasks[w].files)
    <3>8. SizeOf(new \ f) <= SizeOf(old \ f) /\ SizeOf(new \ f) \in Nat /\ SizeOf(old \ f) \in Nat
      <4>1. new \ f \in SUBSET (old \ f) /\ old \ f \in SUBSET Songs /\ new \ f \in SUBSET Songs
        BY <3>4, <3>6
      <4> QED
        BY <4>1, SizesGrow, SizesAdd
    <3> QED
      BY <3>4, <3>5, <3>7, <3>8
  <2> QED
    BY <2>1, <2>2
<1>3. ASSUME NEW v \in Tasks', NEW w \in Tasks', Lists(tasks'[v]), Lists(tasks'[w])
      PROVE  Nested(tasks'[v], tasks'[w], unpruned')
  <2>1. CASE v = w
    BY <2>1 DEF Nested
  <2>2. CASE v # w /\ v = t
    BY <1>3, <2>2
  <2>3. CASE v # w /\ w = t
    <3>1. v \in Tasks /\ tasks'[v] = tasks[v]
      BY <1>3, <2>3
    <3>2. Nested(tasks'[w], tasks[v], unpruned')
      BY <1>3, <2>3, <3>1
    <3> QED
      BY <3>1, <3>2 DEF Nested
  <2>4. CASE v # t /\ w # t
    <3>1. v \in Tasks /\ tasks'[v] = tasks[v] /\ w \in Tasks /\ tasks'[w] = tasks[w]
      BY <1>3, <2>4
    <3>2. Nested(tasks[v], tasks[w], unpruned)
      BY <1>3, <3>1 DEF CacheIInv, PrunesAgree
    <3>3. unpruned' \cap tasks[v].listed \subseteq unpruned /\ unpruned' \cap tasks[w].listed \subseteq unpruned
      BY <1>3, <2>4, <3>1
    <3> QED
      BY <3>1, <3>2, <3>3 DEF Nested
  <2> QED
    BY <2>1, <2>2, <2>3, <2>4
<1>4. PrunesAgree'
  BY <1>2, <1>3 DEF PrunesAgree
<1> QED
  BY <1>1, <1>4 DEF CacheIInv

\* A step that neither publishes, lists nor drops anything.
LEMMA QuietKeeps ==
    ASSUME CacheIInv, CacheTypes', NEW t, Cached' = Cached, unpruned' = unpruned,
           \A u \in Tasks : u \in Tasks' /\ tasks'[u].song = tasks[u].song
                            /\ (Out(tasks[u]) => Out(tasks'[u])),
           \A u \in Tasks' : u # t /\ (Lists(tasks'[u]) \/ tasks'[u].listed # {})
                                => u \in Tasks /\ tasks'[u] = tasks[u],
           t \in Tasks' => /\ ~Lists(tasks'[t])
                           /\ tasks'[t].listed # {} => t \in Tasks /\ tasks'[t].listed = tasks[t].listed
    PROVE  CacheIInv'
<1>0. unpruned \in SUBSET Tasks
  BY DEF CacheIInv, CacheTypes
<1>1. \A X : Spared(tasks', unpruned', X) = Spared(tasks, unpruned, X)
  <2>1. \A X : \A u \in unpruned \ X : tasks'[u].song = tasks[u].song
    BY <1>0
  <2> QED
    BY <2>1 DEF Spared
<1>2. CacheCapped'
  <2>1. {tasks'[u].song : u \in unpruned'} = {tasks[u].song : u \in unpruned}
    BY <1>0
  <2>2. (Cached \ {tasks[u].song : u \in unpruned})' = Cached \ {tasks[u].song : u \in unpruned}
    BY <2>1
  <2> QED
    BY <2>2 DEF CacheCapped, CacheIInv
<1>3. ASSUME t \in Tasks', NEW u \in tasks'[t].listed PROVE Out(tasks'[u])
  <2>1. t \in Tasks /\ u \in tasks[t].listed
    BY <1>3
  <2>2. u \in Tasks /\ Out(tasks[u])
    BY <2>1 DEF CacheIInv, ListedAreOut, CacheTypes
  <2> QED
    BY <2>2
<1>4. \A w \in Tasks : w # t /\ Lists(tasks[w]) =>
          /\ unpruned' \cap tasks[w].listed \subseteq unpruned
          /\ unpruned' \cap tasks[w].listed # {} =>
                Cached' \ Spared(tasks', unpruned', tasks[w].listed)
                    \subseteq Cached \ Spared(tasks, unpruned, tasks[w].listed)
  BY <1>1
<1>5. \A u \in unpruned' : u \in unpruned \/ Out(tasks'[u])
  OBVIOUS
<1>6. t \in Tasks' /\ Lists(tasks'[t]) =>
              /\ OnItsWay(tasks'[t], Cached', tasks', unpruned')
              /\ \A w \in Tasks : w # t /\ Lists(tasks[w]) => Nested(tasks'[t], tasks[w], unpruned')
  OBVIOUS
<1>7. t \in Tasks' => \A u \in tasks'[t].listed : Out(tasks'[u])
  BY <1>3
<1> QED
  BY <1>2, <1>4, <1>5, <1>6, <1>7, OthersGoOn

\* Types, when a task becomes r.
LEMMA TypesTurn ==
    ASSUME CacheTypes, NEW t \in Tasks, NEW r \in CacheTask, tasks' = [tasks EXCEPT ![t] = r],
           r.listed \in SUBSET Tasks, cache' \in Seq(Songs), IsInjective(cache'),
           fetching' \in [Songs -> 0..Len(tasks)], restarts' = restarts, unpruned' \in SUBSET Tasks
    PROVE  CacheTypes'
<1>1. /\ tasks' \in Seq(CacheTask) /\ Tasks' = Tasks /\ Len(tasks') = Len(tasks)
      /\ tasks'[t] = r /\ \A u \in Tasks : u # t => tasks'[u] = tasks[u]
  BY TaskBecomes
<1>2. \A u \in Tasks' : tasks'[u].listed \in SUBSET Tasks'
  BY <1>1 DEF CacheTypes
<1> QED
  BY <1>1, <1>2 DEF CacheTypes

\* A quiet step of one task.
LEMMA QuietTurn ==
    ASSUME CacheIInv, NEW t \in Tasks, NEW r \in CacheTask, tasks' = [tasks EXCEPT ![t] = r],
           r.song = tasks[t].song, r.listed \in {{}, tasks[t].listed}, ~Lists(r),
           Out(tasks[t]) => Out(r),
           cache' \in Seq(Songs), IsInjective(cache'), Cached' = Cached,
           fetching' \in [Songs -> 0..Len(tasks)], UNCHANGED <<restarts, unpruned>>
    PROVE  CacheIInv'
<1>0. CacheTypes
  BY DEF CacheIInv
<1>1. /\ Tasks' = Tasks /\ tasks'[t] = r /\ \A u \in Tasks : u # t => tasks'[u] = tasks[u]
  BY <1>0, TaskBecomes
<1>2. CacheTypes'
  <2>1. r.listed \in SUBSET Tasks /\ unpruned' \in SUBSET Tasks
    BY <1>0 DEF CacheTypes
  <2> QED
    BY <1>0, <2>1, TypesTurn
<1>3. \A u \in Tasks : u \in Tasks' /\ tasks'[u].song = tasks[u].song /\ (Out(tasks[u]) => Out(tasks'[u]))
  BY <1>1
<1>4. \A u \in Tasks' : u # t /\ (Lists(tasks'[u]) \/ tasks'[u].listed # {}) => u \in Tasks /\ tasks'[u] = tasks[u]
  BY <1>1
<1>5. ~Lists(tasks'[t]) /\ (tasks'[t].listed # {} => t \in Tasks /\ tasks'[t].listed = tasks[t].listed)
  BY <1>1
<1> QED
  BY <1>2, <1>3, <1>4, <1>5, QuietKeeps

\* A step that only moves a task to a place that has no list.
LEMMA MovesQuietly ==
    ASSUME CacheIInv, NEW t \in Tasks, NEW p \in Places \ {"sorting", "dropping"}, Move(t, p),
           Out(tasks[t]) => p \in Pruning \cup {"ended", "over"},
           cache' = cache, fetching' \in [Songs -> 0..Len(tasks)], UNCHANGED <<restarts, unpruned>>
    PROVE  CacheIInv'
<1>0. CacheTypes
  BY DEF CacheIInv
<1> DEFINE x == tasks[t]
           r == TaskFrom(x, p, x.files, x.total, x.listed)
<1>1. x \in CacheTask
  BY <1>0 DEF CacheTypes, Tasks
<1>2. x.files \in Seq(Songs) /\ x.total \in Nat /\ x.listed \in SUBSET Nat
  <2> HIDE DEF x
  <2> QED
    BY <1>1 DEF CacheTask
<1>3. tasks' = [tasks EXCEPT ![t] = r] /\ r \in CacheTask
  BY <1>0, <1>2, MoveTurns, RecordMade
<1>4. r.song = x.song /\ r.listed = x.listed /\ r.at = p
  BY DEF TaskFrom
<1>5. ~Lists(r) /\ (Out(x) => Out(r))
  BY <1>4 DEF Lists, Out
<1>6. cache' \in Seq(Songs) /\ IsInjective(cache') /\ Cached' = Cached
  BY <1>0 DEF CacheTypes, Cached
<1> HIDE DEF r
<1> QED
  BY <1>3, <1>4, <1>5, <1>6, QuietTurn

\* A task that ends, whatever became of the order of the files.
LEMMA EndsQuietly ==
    ASSUME CacheIInv, NEW t \in Tasks, End(t),
           cache' \in Seq(Songs), IsInjective(cache'), Cached' = Cached,
           UNCHANGED <<fetching, restarts, unpruned>>
    PROVE  CacheIInv'
<1>0. CacheTypes
  BY DEF CacheIInv
<1> DEFINE x == tasks[t]
           r == TaskFrom(x, "ended", <<>>, 0, {})
<1>1. "ended" \in Places /\ <<>> \in Seq(Songs) /\ 0 \in Nat /\ {} \in SUBSET Nat
  BY DEF Places
<1>2. tasks' = [tasks EXCEPT ![t] = r] /\ r \in CacheTask
  BY <1>0, <1>1, EndTurns, RecordMade
<1>3. r.song = x.song /\ r.listed = {} /\ r.at = "ended"
  BY DEF TaskFrom
<1>4. ~Lists(r) /\ (Out(x) => Out(r))
  BY <1>3 DEF Lists, Out
<1>5. fetching' \in [Songs -> 0..Len(tasks)]
  BY <1>0 DEF CacheTypes
<1> HIDE DEF r
<1> QED
  BY <1>2, <1>3, <1>4, <1>5, QuietTurn

LEMMA QuietStepsKeep ==
    ASSUME CacheIInv, NEW t, Enter(t) \/ Look(t) \/ Touch(t) \/ Download(t) \/ Forget(t)
    PROVE  CacheIInv'
<1>0. CacheTypes
  BY DEF CacheIInv
<1>1. t \in Tasks
  BY DEF Enter, Look, Touch, Download, Forget, At
<1>2. fetching \in [Songs -> 0..Len(tasks)] /\ Len(tasks) \in Nat /\ tasks[t].song \in Songs
  <2>1. tasks[t] \in CacheTask
    BY <1>0, <1>1 DEF CacheTypes, Tasks
  <2> QED
    BY <1>0, <2>1 DEF CacheTypes, CacheTask
<1>3. CASE Enter(t)
  BY <1>1, <1>2, <1>3, MovesQuietly DEF Enter, At, Out, Places, Working, Pruning
<1>4. CASE Look(t)
  <2>1. \E p \in {"touching", "downloading"} : Move(t, p)
    BY <1>4 DEF Look
  <2> QED
    BY <1>1, <1>2, <1>4, <2>1, MovesQuietly DEF Look, At, Out, Places, Working, Downloading, Pruning
<1>5. CASE Touch(t)
  <2>1. cache' \in Seq(Songs) /\ IsInjective(cache') /\ ToSet(cache') = Cached
    <3>1. CASE tasks[t].song \in Cached
      <4>1. cache' = Renewed(tasks[t].song) /\ Cached \cup {tasks[t].song} = Cached
        BY <1>5, <3>1 DEF Touch
      <4> QED
        BY <1>0, <1>2, <4>1, CacheRenewed
    <3>2. CASE tasks[t].song \notin Cached
      BY <1>0, <1>5, <3>2 DEF Touch, CacheTypes, Cached
    <3> QED
      BY <3>1, <3>2
  <2>2. Cached' = Cached
    BY <2>1 DEF Cached
  <2> QED
    BY <1>1, <1>5, <2>1, <2>2, EndsQuietly DEF Touch
<1>6. CASE Download(t)
  <2>1. UNCHANGED <<cache, fetching, restarts, unpruned>> /\ tasks[t].at = "downloading"
    BY <1>6 DEF Download, At
  <2>2. CASE Move(t, "arrived")
    BY <1>1, <1>2, <2>1, <2>2, MovesQuietly DEF Out, Places, Working, Downloading, Pruning
  <2>3. CASE End(t)
    BY <1>0, <1>1, <2>1, <2>3, EndsQuietly DEF CacheTypes, Cached
  <2> QED
    BY <1>6, <2>2, <2>3 DEF Download
<1>7. CASE Forget(t)
  <2>1. fetching' \in [Songs -> 0..Len(tasks)]
    BY <1>2, <1>7 DEF Forget
  <2> QED
    BY <1>1, <1>7, <2>1, MovesQuietly DEF Forget, At, Out, Places
<1> QED
  BY <1>3, <1>4, <1>5, <1>6, <1>7

LEMMA AskKeepsCache == ASSUME CacheIInv, NEW v \in Songs, Ask(v) PROVE CacheIInv'
<1> DEFINE new == TaskOf(v, "asked")
           end == Len(tasks) + 1
<1>0. CacheTypes
  BY DEF CacheIInv
<1>1. new \in CacheTask /\ new.at = "asked" /\ new.listed = {}
  BY DEF TaskOf, CacheTask, Places
<1> HIDE DEF new
<1>2. /\ tasks' = Append(tasks, new) /\ fetching' = [fetching EXCEPT ![v] = end]
      /\ UNCHANGED <<cache, restarts, unpruned>>
  BY DEF Ask, new
<1>3. tasks \in Seq(CacheTask) /\ Len(tasks) \in Nat
  BY <1>0 DEF CacheTypes
<1>4. tasks' \in Seq(CacheTask) /\ Len(tasks') = end
  BY <1>1, <1>2, <1>3
<1>5. Tasks' = Tasks \cup {end} /\ tasks'[end] = new /\ end \notin Tasks
      /\ \A u \in Tasks : tasks'[u] = tasks[u]
  BY <1>1, <1>2, <1>3, <1>4 DEF Tasks
<1>6. fetching' \in [Songs -> 0..Len(tasks')]
  <2>1. fetching \in [Songs -> 0..Len(tasks)]
    BY <1>0 DEF CacheTypes
  <2>2. end \in 0..end /\ \A i \in 0..Len(tasks) : i \in 0..end
    BY <1>3
  <2>3. fetching' \in [Songs -> 0..end]
    BY <1>2, <2>1, <2>2
  <2> QED
    BY <1>4, <2>3
<1>7. CacheTypes'
  <2>1. \A u \in Tasks' : tasks'[u].listed \in SUBSET Tasks'
    BY <1>0, <1>1, <1>5 DEF CacheTypes
  <2>2. unpruned' \in SUBSET Tasks' /\ cache' \in Seq(Songs) /\ IsInjective(cache') /\ restarts' \in 0..MaxRestarts
    BY <1>0, <1>2, <1>5 DEF CacheTypes
  <2> QED
    BY <1>4, <1>6, <2>1, <2>2 DEF CacheTypes
<1>8. Cached' = Cached /\ unpruned' = unpruned
  BY <1>2 DEF Cached
<1>9. \A u \in Tasks : u \in Tasks' /\ tasks'[u].song = tasks[u].song /\ (Out(tasks[u]) => Out(tasks'[u]))
  BY <1>5
<1>10. \A u \in Tasks' : u # end /\ (Lists(tasks'[u]) \/ tasks'[u].listed # {}) => u \in Tasks /\ tasks'[u] = tasks[u]
  BY <1>5
<1>11. ~Lists(tasks'[end]) /\ tasks'[end].listed = {}
  BY <1>1, <1>5 DEF Lists
<1> HIDE DEF end
<1> QED
  BY <1>7, <1>8, <1>9, <1>10, <1>11, QuietKeeps

LEMMA RestartKeepsCache == ASSUME CacheIInv, Restart PROVE CacheIInv'
<1>0. CacheTypes
  BY DEF CacheIInv
<1>1. /\ tasks' = [t \in Tasks |-> TaskOf(tasks[t].song, "over")]
      /\ fetching' = [v \in Songs |-> 0] /\ restarts' = restarts + 1 /\ restarts < MaxRestarts
      /\ UNCHANGED <<cache, unpruned>>
  BY DEF Restart
<1>2. tasks \in Seq(CacheTask) /\ Len(tasks) \in Nat
  BY <1>0 DEF CacheTypes
<1>3. \A t \in Tasks : tasks[t].song \in Songs
  <2>1. \A t \in Tasks : tasks[t] \in CacheTask
    BY <1>2 DEF Tasks
  <2> QED
    BY <2>1 DEF CacheTask
<1>4. ASSUME NEW t \in Tasks
      PROVE  /\ tasks'[t] \in CacheTask /\ tasks'[t].song = tasks[t].song
             /\ tasks'[t].at = "over" /\ tasks'[t].listed = {}
  <2>1. tasks'[t] = TaskOf(tasks[t].song, "over")
    BY <1>1
  <2> QED
    BY <1>3, <2>1 DEF TaskOf, CacheTask, Places
<1>5. DOMAIN tasks' = 1..Len(tasks)
  BY <1>1 DEF Tasks
<1>6. tasks' \in Seq(CacheTask) /\ Tasks' = Tasks /\ Len(tasks') = Len(tasks)
  <2>1. tasks' = [t \in 1..Len(tasks) |-> tasks'[t]]
    BY <1>1 DEF Tasks
  <2>2. tasks' \in [1..Len(tasks) -> CacheTask]
    BY <1>4, <2>1 DEF Tasks
  <2> HIDE DEF CacheTask
  <2>3. tasks' \in Seq(CacheTask) /\ Len(tasks') = Len(tasks)
    BY <1>2, <2>2
  <2> QED
    BY <2>3 DEF Tasks
<1>7. CacheTypes'
  <2>1. \A u \in Tasks' : tasks'[u].listed \in SUBSET Tasks'
    BY <1>4, <1>6
  <2>2. fetching' \in [Songs -> 0..Len(tasks')]
    <3>1. 0 \in 0..Len(tasks')
      BY <1>2, <1>6
    <3>2. fetching' = [v \in Songs |-> 0]
      BY <1>1
    <3> QED
      BY <3>1, <3>2
  <2>3. restarts' \in 0..MaxRestarts
    <3>1. restarts \in 0..MaxRestarts /\ MaxRestarts \in Nat
      BY <1>0, SongCacheAssumption DEF CacheTypes, SongCacheAssumption
    <3>2. restarts' = restarts + 1 /\ restarts < MaxRestarts
      BY <1>1
    <3> QED
      BY <3>1, <3>2
  <2>4. unpruned' \in SUBSET Tasks' /\ cache' \in Seq(Songs) /\ IsInjective(cache')
    BY <1>0, <1>1, <1>6 DEF CacheTypes
  <2> QED
    BY <1>6, <2>1, <2>2, <2>3, <2>4 DEF CacheTypes
<1>8. Cached' = Cached /\ unpruned' = unpruned
  BY <1>1 DEF Cached
<1>9. \A u \in Tasks : u \in Tasks' /\ tasks'[u].song = tasks[u].song /\ (Out(tasks[u]) => Out(tasks'[u]))
  BY <1>4, <1>6 DEF Out
<1>10. \A u \in Tasks' : u # 0 /\ (Lists(tasks'[u]) \/ tasks'[u].listed # {}) => u \in Tasks /\ tasks'[u] = tasks[u]
  BY <1>4, <1>6 DEF Lists
<1>11. 0 \notin Tasks'
  BY <1>6 DEF Tasks
<1> QED
  BY <1>7, <1>8, <1>9, <1>10, <1>11, QuietKeeps

\* What is over the limit stays so when less is due.
LEMMA CapKeeps ==
    ASSUME CacheIInv,
           Cached' \ {tasks'[u].song : u \in unpruned'} \subseteq Cached \ {tasks[u].song : u \in unpruned}
    PROVE  CacheCapped'
<1> DEFINE old == Cached \ {tasks[u].song : u \in unpruned}
           new == Cached' \ {tasks'[u].song : u \in unpruned'}
<1>1. old \in SUBSET Songs
  BY DEF CacheIInv, CacheTypes, Cached, ToSet
<1>2. new \in SUBSET old /\ SizeOf(old) <= CacheBytes
  BY DEF CacheIInv, CacheCapped
<1>3. (CacheCapped)' <=> SizeOf(new) <= CacheBytes
  BY DEF CacheCapped
<1> HIDE DEF old, new
<1>4. SizeOf(new) <= SizeOf(old) /\ SizeOf(new) \in Nat /\ SizeOf(old) \in Nat
  BY <1>1, <1>2, SizesGrow, SizesAdd
<1> QED
  BY <1>2, <1>3, <1>4, SongCacheAssumption DEF SongCacheAssumption

\* The steps of prune() but its last.
LEMMA PruneGoesOn ==
    ASSUME CacheIInv, NEW t \in Tasks, NEW r \in CacheTask, tasks' = [tasks EXCEPT ![t] = r],
           r.song = tasks[t].song, r.listed \in {unpruned, tasks[t].listed}, Out(r),
           cache' \in Seq(Songs), IsInjective(cache'), Cached' \subseteq Cached,
           UNCHANGED <<fetching, restarts, unpruned>>,
           unpruned \cap r.listed # {} => OnItsWay(r, Cached', tasks, unpruned),
           \A w \in Tasks : w # t /\ Lists(tasks[w]) => Nested(r, tasks[w], unpruned)
    PROVE  CacheIInv'
<1>0. CacheTypes /\ unpruned \in SUBSET Tasks
  BY DEF CacheIInv, CacheTypes
<1>1. /\ Tasks' = Tasks /\ tasks'[t] = r /\ \A u \in Tasks : u # t => tasks'[u] = tasks[u]
  BY <1>0, TaskBecomes
<1>2. CacheTypes'
  <2>1. r.listed \in SUBSET Tasks /\ fetching' \in [Songs -> 0..Len(tasks)] /\ unpruned' \in SUBSET Tasks
    BY <1>0 DEF CacheTypes
  <2> QED
    BY <1>0, <2>1, TypesTurn
<1>3. \A u \in Tasks : u \in Tasks' /\ tasks'[u].song = tasks[u].song /\ (Out(tasks[u]) => Out(tasks'[u]))
  BY <1>1
<1>4. \A u \in Tasks' : u # t /\ (Lists(tasks'[u]) \/ tasks'[u].listed # {}) => u \in Tasks /\ tasks'[u] = tasks[u]
  BY <1>1
<1>5. \A u \in unpruned' : u \in unpruned
  OBVIOUS
<1>6. \A X : Spared(tasks', unpruned', X) = Spared(tasks, unpruned, X)
  <2>1. \A X : \A u \in unpruned \ X : tasks'[u].song = tasks[u].song
    BY <1>0, <1>3
  <2> QED
    BY <2>1 DEF Spared
<1>7. CacheCapped'
  <2>1. {tasks'[u].song : u \in unpruned'} = {tasks[u].song : u \in unpruned}
    BY <1>0, <1>3
  <2> QED
    BY <2>1, CapKeeps
<1>8. \A u \in tasks'[t].listed : Out(tasks'[u])
  <2>1. \A u \in r.listed : Out(tasks[u]) /\ u \in Tasks
    BY <1>0 DEF CacheIInv, ListedAreOut, CacheTypes
  <2> QED
    BY <1>1, <1>3, <2>1
<1>9. \A w \in Tasks : w # t /\ Lists(tasks[w]) =>
          /\ unpruned' \cap tasks[w].listed \subseteq unpruned
          /\ unpruned' \cap tasks[w].listed # {} =>
                Cached' \ Spared(tasks', unpruned', tasks[w].listed)
                    \subseteq Cached \ Spared(tasks, unpruned, tasks[w].listed)
  BY <1>6
<1>10. OnItsWay(r, Cached', tasks', unpruned')
  BY <1>6 DEF OnItsWay
<1>11. \A w \in Tasks : w # t /\ Lists(tasks[w]) => Nested(tasks'[t], tasks[w], unpruned')
  BY <1>1
<1> QED
  BY <1>1, <1>2, <1>3, <1>4, <1>5, <1>7, <1>8, <1>9, <1>10, <1>11, OthersGoOn

LEMMA PublishKeepsCache == ASSUME CacheIInv, NEW t, Publish(t) PROVE CacheIInv'
<1> DEFINE x == tasks[t]
           r == TaskFrom(x, "listing", x.files, x.total, x.listed)
           v == x.song
<1>0. CacheTypes /\ unpruned \in SUBSET Tasks
  BY DEF CacheIInv, CacheTypes
<1>1. /\ t \in Tasks /\ x.at = "arrived" /\ Move(t, "listing") /\ cache' = Renewed(v)
      /\ unpruned' = unpruned \cup {t} /\ UNCHANGED <<fetching, restarts>>
  BY DEF Publish, At
<1>2. x \in CacheTask
  BY <1>0, <1>1 DEF CacheTypes, Tasks
<1>3. x.files \in Seq(Songs) /\ x.total \in Nat /\ x.listed \in SUBSET Nat /\ v \in Songs
  <2> HIDE DEF x
  <2> QED
    BY <1>2 DEF CacheTask
<1>4. "listing" \in Places
  BY DEF Places, Working, Pruning
<1>5. tasks' = [tasks EXCEPT ![t] = r] /\ r \in CacheTask
  BY <1>0, <1>1, <1>3, <1>4, MoveTurns, RecordMade
<1>6. r.song = v /\ r.listed = x.listed /\ r.at = "listing"
  BY DEF TaskFrom
<1> HIDE DEF r
<1>7. /\ Tasks' = Tasks /\ tasks'[t] = r /\ \A u \in Tasks : u # t => tasks'[u] = tasks[u]
  BY <1>0, <1>1, <1>5, TaskBecomes
<1>8. cache' \in Seq(Songs) /\ IsInjective(cache') /\ Cached' = Cached \cup {v}
  BY <1>0, <1>1, <1>3, CacheRenewed DEF Cached
<1>9. CacheTypes'
  <2>1. r.listed \in SUBSET Tasks /\ fetching' \in [Songs -> 0..Len(tasks)]
        /\ unpruned' \in SUBSET Tasks
    BY <1>0, <1>1, <1>6 DEF CacheTypes
  <2> QED
    BY <1>0, <1>1, <1>5, <1>8, <2>1, TypesTurn
<1>10. \A u \in Tasks : u \in Tasks' /\ tasks'[u].song = tasks[u].song /\ (Out(tasks[u]) => Out(tasks'[u]))
  BY <1>1, <1>6, <1>7 DEF Out, Pruning
<1>11. Out(r) /\ ~Lists(r) /\ ~Out(x)
  BY <1>1, <1>6 DEF Out, Lists, Pruning
<1>12. \A w \in Tasks : t \notin tasks[w].listed
  BY <1>11 DEF CacheIInv, ListedAreOut
<1>13. CacheCapped'
  <2>1. {tasks'[u].song : u \in unpruned'} = {tasks[u].song : u \in unpruned} \cup {v}
    BY <1>0, <1>1, <1>10
  <2> QED
    BY <1>8, <2>1, CapKeeps
<1>14. \A w \in Tasks : w # t /\ Lists(tasks[w]) =>
          /\ unpruned' \cap tasks[w].listed \subseteq unpruned
          /\ unpruned' \cap tasks[w].listed # {} =>
                Cached' \ Spared(tasks', unpruned', tasks[w].listed)
                    \subseteq Cached \ Spared(tasks, unpruned, tasks[w].listed)
  <2> SUFFICES ASSUME NEW w \in Tasks
               PROVE  /\ unpruned' \cap tasks[w].listed \subseteq unpruned
                      /\ Cached' \ Spared(tasks', unpruned', tasks[w].listed)
                            \subseteq Cached \ Spared(tasks, unpruned, tasks[w].listed)
    OBVIOUS
  <2>1. unpruned' \ tasks[w].listed = (unpruned \ tasks[w].listed) \cup {t}
    BY <1>1, <1>12
  <2>2. \A u \in unpruned \ tasks[w].listed : tasks'[u].song = tasks[u].song
    BY <1>0, <1>10
  <2>3. tasks'[t].song = v
    BY <1>6, <1>7
  <2>4. Spared(tasks', unpruned', tasks[w].listed) = Spared(tasks, unpruned, tasks[w].listed) \cup {v}
    BY <2>1, <2>2, <2>3 DEF Spared
  <2> QED
    BY <1>1, <1>8, <1>12, <2>4
<1>15. \A u \in unpruned' : u \in unpruned \/ Out(tasks'[u])
  BY <1>1, <1>7, <1>11
<1>16. \A u \in Tasks' : u # t /\ (Lists(tasks'[u]) \/ tasks'[u].listed # {}) => u \in Tasks /\ tasks'[u] = tasks[u]
  BY <1>7
<1>17. \A u \in tasks'[t].listed : Out(tasks'[u])
  <2>1. \A u \in x.listed : u \in Tasks /\ Out(tasks[u])
    BY <1>0, <1>1 DEF CacheIInv, ListedAreOut, CacheTypes
  <2> QED
    BY <1>6, <1>7, <1>10, <2>1
<1>18. ~Lists(tasks'[t])
  BY <1>7, <1>11
<1> HIDE DEF x, v
<1> QED
  BY <1>9, <1>10, <1>13, <1>14, <1>15, <1>16, <1>17, <1>18, OthersGoOn

LEMMA ListKeepsCache == ASSUME CacheIInv, NEW t, List(t) PROVE CacheIInv'
<1> DEFINE x == tasks[t]
           r == TaskFrom(x, "sorting", cache, x.total, unpruned)
<1>0. CacheTypes /\ unpruned \in SUBSET Tasks /\ cache \in Seq(Songs)
  BY DEF CacheIInv, CacheTypes
<1>1. /\ t \in Tasks /\ UNCHANGED <<cache, fetching, restarts, unpruned>>
      /\ tasks' = [tasks EXCEPT ![t].at = "sorting", ![t].files = cache, ![t].listed = unpruned]
  BY DEF List, At
<1>2. x.total \in Nat /\ unpruned \in SUBSET Nat
  <2>1. x \in CacheTask
    BY <1>0, <1>1 DEF CacheTypes, Tasks
  <2> HIDE DEF x
  <2> QED
    BY <1>0, <2>1 DEF CacheTask, Tasks
<1>3. "sorting" \in Places
  BY DEF Places, Working, Pruning
<1>4. tasks' = [tasks EXCEPT ![t] = r] /\ r \in CacheTask
  <2>0. tasks' = [tasks EXCEPT ![t].at = "sorting", ![t].files = cache, ![t].listed = unpruned] /\ t \in Tasks
    BY <1>1
  <2>1. tasks' = [tasks EXCEPT ![t] = r]
    <3>1. CacheTypes /\ t \in Tasks
      BY <1>0, <1>1
    <3>2. x = [song |-> x.song, at |-> x.at, files |-> x.files, total |-> x.total, listed |-> x.listed]
      BY <3>1, TaskShape
    <3>3. tasks' = [tasks EXCEPT ![t] = [x EXCEPT !.at = "sorting", !.files = cache, !.listed = unpruned]]
      BY <2>0, <3>1 DEF CacheTypes, Tasks
    <3> HIDE DEF x
    <3>4. [x EXCEPT !.at = "sorting"] = TaskFrom(x, "sorting", x.files, x.total, x.listed)
      BY <3>2 DEF TaskFrom
    <3>5. [TaskFrom(x, "sorting", x.files, x.total, x.listed) EXCEPT !.files = cache]
            = TaskFrom(x, "sorting", cache, x.total, x.listed)
      BY DEF TaskFrom
    <3>6. [TaskFrom(x, "sorting", cache, x.total, x.listed) EXCEPT !.listed = unpruned] = r
      BY DEF TaskFrom
    <3>7. [x EXCEPT !.at = "sorting", !.files = cache, !.listed = unpruned]
            = [[[x EXCEPT !.at = "sorting"] EXCEPT !.files = cache] EXCEPT !.listed = unpruned]
      OBVIOUS
    <3>8. [x EXCEPT !.at = "sorting", !.files = cache, !.listed = unpruned] = r
      BY <3>4, <3>5, <3>6, <3>7, Zenon
    <3> HIDE DEF r
    <3> QED
      BY <3>3, <3>8, Zenon
  <2>2. r \in CacheTask
    BY <1>0, <1>1, <1>2, <1>3, RecordMade
  <2> QED
    BY <2>1, <2>2
<1>5. r.song = x.song /\ r.listed = unpruned /\ r.at = "sorting" /\ r.files = cache
  BY DEF TaskFrom
<1> HIDE DEF r
<1>6. cache' \in Seq(Songs) /\ IsInjective(cache') /\ Cached' = Cached
  BY <1>0, <1>1 DEF CacheTypes, Cached
<1>7. Out(r)
  BY <1>5 DEF Out, Pruning
<1>8. OnItsWay(r, Cached', tasks, unpruned)
  BY <1>5, <1>6 DEF OnItsWay, Cached
<1>9. \A w \in Tasks : Nested(r, tasks[w], unpruned)
  BY <1>5 DEF Nested
<1> QED
  BY <1>1, <1>4, <1>5, <1>6, <1>7, <1>8, <1>9, PruneGoesOn

LEMMA SortKeepsCache == ASSUME CacheIInv, NEW t, Sort(t) PROVE CacheIInv'
<1> DEFINE x == tasks[t]
           f == ToSet(x.files)
           s == NewestFirst(f)
           r == TaskFrom(x, "dropping", s, x.total, x.listed)
<1>0. CacheTypes /\ cache \in Seq(Songs)
  BY DEF CacheIInv, CacheTypes
<1>1. /\ t \in Tasks /\ UNCHANGED <<cache, fetching, restarts, unpruned>> /\ x.at = "sorting"
      /\ IF f \subseteq Cached THEN tasks' = [tasks EXCEPT ![t].at = "dropping", ![t].files = s] ELSE End(t)
  BY DEF Sort, At
<1>2. cache' \in Seq(Songs) /\ IsInjective(cache') /\ Cached' = Cached
  BY <1>0, <1>1 DEF CacheTypes, Cached
<1>3. CASE ~(f \subseteq Cached)
  <2>1. End(t)
    BY <1>1, <1>3
  <2> QED
    BY <1>1, <1>2, <2>1, EndsQuietly
<1>4. CASE f \subseteq Cached
  <2>1. x \in CacheTask
    BY <1>0, <1>1 DEF CacheTypes, Tasks
  <2>2. x.total \in Nat /\ x.listed \in SUBSET Nat
    <3> HIDE DEF x
    <3> QED
      BY <2>1 DEF CacheTask
  <2>3. s \in Seq(Songs) /\ ToSet(s) = f
    <3>1. ToSet(s) = Cached \cap f /\ s \in Seq(Songs)
      BY <1>0, CacheChosen DEF NewestFirst
    <3> QED
      BY <1>4, <3>1
  <2>4. "dropping" \in Places
    BY DEF Places, Working, Pruning
  <2>5. tasks' = [tasks EXCEPT ![t].at = "dropping", ![t].files = s]
    BY <1>1, <1>4
  <2> HIDE DEF s
  <2>6. tasks' = [tasks EXCEPT ![t] = r] /\ r \in CacheTask
    <3>1. tasks' = [tasks EXCEPT ![t] = r]
      BY <1>0, <1>1, <2>2, <2>3, <2>4, <2>5, SortTurns
    <3>2. r \in CacheTask
      BY <1>0, <1>1, <2>2, <2>3, <2>4, RecordMade
    <3> QED
      BY <3>1, <3>2
  <2>7. r.song = x.song /\ r.listed = x.listed /\ r.at = "dropping" /\ r.files = s /\ r.total = x.total
    BY DEF TaskFrom
  <2> HIDE DEF r
  <2>8. Out(r) /\ Lists(x)
    BY <1>1, <2>7 DEF Out, Lists, Pruning
  <2>9. OnItsWay(r, Cached', tasks, unpruned)
    <3> SUFFICES ASSUME unpruned \cap x.listed # {}
                 PROVE  /\ SizeOf((Cached \ Spared(tasks, unpruned, x.listed)) \ f) <= x.total
                        /\ SizeOf((Cached \ Spared(tasks, unpruned, x.listed)) \ f) <= CacheBytes
      BY <1>2, <2>3, <2>7 DEF OnItsWay
    <3>1. OnItsWay(x, Cached, tasks, unpruned)
      BY <1>1, <2>8 DEF CacheIInv, PrunesAgree
    <3>2. Cached \ Spared(tasks, unpruned, x.listed) \subseteq f
      BY <1>1, <3>1 DEF OnItsWay
    <3>3. (Cached \ Spared(tasks, unpruned, x.listed)) \ f = {}
      BY <3>2
    <3>4. SizeOf((Cached \ Spared(tasks, unpruned, x.listed)) \ f) = 0
      BY <3>3, SizesAdd, Zenon
    <3>5. 0 <= x.total /\ 0 <= CacheBytes
      BY <2>2, SongCacheAssumption DEF SongCacheAssumption
    <3> QED
      BY <3>4, <3>5
  <2>10. \A w \in Tasks : Lists(tasks[w]) => Nested(r, tasks[w], unpruned)
    <3>1. \A w \in Tasks : Lists(tasks[w]) => Nested(x, tasks[w], unpruned)
      BY <1>1, <2>8 DEF CacheIInv, PrunesAgree
    <3> QED
      BY <2>7, <3>1 DEF Nested
  <2> QED
    BY <1>1, <1>2, <2>6, <2>7, <2>8, <2>9, <2>10, PruneGoesOn
<1> QED
  BY <1>3, <1>4

\* A list has its first entry and those after it.
LEMMA HeadAndTail ==
    ASSUME NEW S, NEW g \in Seq(S), g # <<>>
    PROVE  /\ Head(g) \in S /\ Tail(g) \in Seq(S)
           /\ ToSet(g) = ToSet(Tail(g)) \cup {Head(g)}
<1>1. PICK n \in Nat : n = Len(g)
  OBVIOUS
<1>2. n > 0 /\ DOMAIN g = 1..n
  BY <1>1
<1>3. PICK h \in S : h = Head(g) /\ h = g[1]
  BY <1>1, <1>2
<1>4. PICK r \in Seq(S) : r = Tail(g)
  <2>1. Tail(g) \in Seq(S)
    BY <1>1, <1>2
  <2> QED
    BY <2>1, Zenon
<1>5. DOMAIN r = 1..n - 1 /\ \A i \in 1..n - 1 : r[i] = g[i + 1]
  BY <1>1, <1>2, <1>4
<1>6. ASSUME NEW i \in 1..n
      PROVE  g[i] = h \/ \E k \in 1..n - 1 : g[i] = r[k]
  <2>1. CASE i = 1
    BY <1>3, <2>1
  <2>2. CASE i # 1
    <3>1. PICK k \in 1..n - 1 : k = i - 1 /\ k + 1 = i
      BY <2>2
    <3> QED
      BY <1>5, <3>1
  <2> QED
    BY <2>1, <2>2
<1>7. ASSUME NEW k \in 1..n - 1
      PROVE  \E i \in 1..n : g[i] = r[k]
  <2>1. PICK i \in 1..n : i = k + 1
    OBVIOUS
  <2> QED
    BY <1>5, <2>1
<1>8. \E i \in 1..n : g[i] = h
  <2>1. 1 \in 1..n
    BY <1>2
  <2> QED
    BY <1>3, <2>1
<1>9. \A y : y \in ToSet(g) <=> \E i \in 1..n : g[i] = y
  BY <1>2 DEF ToSet
<1>10. \A y : y \in ToSet(r) <=> \E k \in 1..n - 1 : r[k] = y
  BY <1>5 DEF ToSet
<1>11. \A y : y \in ToSet(g) <=> y \in ToSet(r) \/ y = h
  BY <1>6, <1>7, <1>8, <1>9, <1>10
<1>12. ToSet(g) = ToSet(r) \cup {h}
  BY <1>11
<1> QED
  BY <1>3, <1>4, <1>12

\* The files that are passed grow by the next one, which fits in or is dropped.
LEMMA DropKeepsCache == ASSUME CacheIInv, NEW t, Drop(t) PROVE CacheIInv'
<1> DEFINE x == tasks[t]
           v == Head(x.files)
           s == Tail(x.files)
           n == x.total + Size[v]
           r == TaskFrom(x, x.at, s, n, x.listed)
<1>0. CacheTypes /\ cache \in Seq(Songs)
  BY DEF CacheIInv, CacheTypes
<1>1. /\ t \in Tasks /\ UNCHANGED <<fetching, restarts, unpruned>> /\ x.at = "dropping"
      /\ x.files # <<>>
      /\ IF v \in Cached
         THEN /\ tasks' = [tasks EXCEPT ![t].files = Tail(@), ![t].total = @ + Size[v]]
              /\ cache' = IF IsOver(t) THEN Selected(cache, Cached \ {v}) ELSE cache
         ELSE End(t) /\ UNCHANGED cache
  BY DEF Drop, At
<1>2. CASE v \notin Cached
  <2>1. End(t) /\ cache' \in Seq(Songs) /\ IsInjective(cache') /\ Cached' = Cached
    BY <1>0, <1>1, <1>2 DEF CacheTypes, Cached
  <2> QED
    BY <1>1, <2>1, EndsQuietly
<1>3. CASE v \in Cached
  <2>1. x \in CacheTask
    BY <1>0, <1>1 DEF CacheTypes, Tasks
  <2>2. x.files \in Seq(Songs) /\ x.total \in Nat /\ x.listed \in SUBSET Nat /\ x.at \in Places
    <3> HIDE DEF x
    <3> QED
      BY <2>1 DEF CacheTask
  <2>3. v \in Songs /\ s \in Seq(Songs) /\ ToSet(x.files) = ToSet(s) \cup {v}
    <3>1. x.files # <<>>
      BY <1>1
    <3> QED
      BY <2>2, <3>1, HeadAndTail
  <2>4. Size[v] \in Nat /\ n \in Nat
    <3>1. Size[v] \in Nat
      BY <2>3, SongCacheAssumption DEF SongCacheAssumption
    <3> QED
      BY <2>2, <3>1
  <2>5. tasks' = [tasks EXCEPT ![t].files = s, ![t].total = n]
    <3>1. tasks' = [tasks EXCEPT ![t].files = Tail(@), ![t].total = @ + Size[v]]
      BY <1>1, <1>3
    <3>2. DOMAIN tasks = 1..Len(tasks) /\ t \in 1..Len(tasks)
      BY <1>0, <1>1 DEF CacheTypes, Tasks
    <3>3. [tasks EXCEPT ![t].files = Tail(@), ![t].total = @ + Size[v]]
            = [tasks EXCEPT ![t].files = Tail(x.files), ![t].total = x.total + Size[v]]
      BY <2>1, <3>2 DEF CacheTask
    <3> QED
      BY <3>1, <3>3
  <2>6. IsOver(t) <=> n > CacheBytes
    BY DEF IsOver
  <2> HIDE DEF s, n
  <2>7. tasks' = [tasks EXCEPT ![t] = r] /\ r \in CacheTask
    <3>1. tasks' = [tasks EXCEPT ![t] = r]
      BY <1>0, <1>1, <2>2, <2>3, <2>4, <2>5, DropTurns
    <3>2. r \in CacheTask
      BY <1>0, <1>1, <2>2, <2>3, <2>4, RecordMade
    <3> QED
      BY <3>1, <3>2
  <2>8. r.song = x.song /\ r.listed = x.listed /\ r.at = "dropping" /\ r.files = s /\ r.total = n
    BY <1>1 DEF TaskFrom
  <2> HIDE DEF r
  <2>9. Out(r) /\ Lists(x)
    BY <1>1, <2>8 DEF Out, Lists, Pruning
  <2>10. /\ cache' \in Seq(Songs) /\ IsInjective(cache') /\ Cached' \subseteq Cached
         /\ n > CacheBytes => Cached' = Cached \ {v}
    <3>1. CASE n > CacheBytes
      <4>1. cache' = Selected(cache, Cached \ {v})
        BY <1>1, <1>3, <2>6, <3>1
      <4>2. cache' \in Seq(Songs) /\ IsInjective(cache') /\ ToSet(cache') = Cached \cap (Cached \ {v})
        BY <1>0, <4>1, CacheChosen
      <4> QED
        BY <4>2 DEF Cached
    <3>2. CASE ~(n > CacheBytes)
      BY <1>0, <1>1, <1>3, <2>6, <3>2 DEF CacheTypes, Cached
    <3> QED
      BY <3>1, <3>2
  <2>11. OnItsWay(r, Cached', tasks, unpruned)
    <3> DEFINE due == Spared(tasks, unpruned, x.listed)
               old == (Cached \ due) \ ToSet(x.files)
               new == (Cached' \ due) \ ToSet(s)
    <3> SUFFICES ASSUME unpruned \cap x.listed # {}
                 PROVE  SizeOf(new) <= n /\ SizeOf(new) <= CacheBytes
      BY <2>8 DEF OnItsWay
    <3>1. OnItsWay(x, Cached, tasks, unpruned)
      BY <1>1, <2>9 DEF CacheIInv, PrunesAgree
    <3>2. SizeOf(old) <= x.total /\ SizeOf(old) <= CacheBytes
      BY <1>1, <3>1 DEF OnItsWay
    <3>3. old \in SUBSET Songs /\ v \notin old
      <4>1. Cached \in SUBSET Songs
        BY <1>0 DEF Cached, ToSet
      <4> QED
        BY <2>3, <4>1
    <3>4. n > CacheBytes => new \in SUBSET old
      BY <2>3, <2>10
    <3>5. new \in SUBSET (old \cup {v})
      BY <2>3, <2>10
    <3> HIDE DEF old, new
    <3>6. SizeOf(old \cup {v}) = SizeOf(old) + Size[v]
      BY <2>3, <3>3, SizesAdd
    <3>7. /\ SizeOf(new) <= SizeOf(old \cup {v}) /\ SizeOf(new) \in Nat /\ SizeOf(old) \in Nat
          /\ n > CacheBytes => SizeOf(new) <= SizeOf(old)
      <4>1. old \cup {v} \in SUBSET Songs /\ new \in SUBSET Songs
        BY <2>3, <3>3, <3>5
      <4> QED
        BY <3>3, <3>4, <3>5, <4>1, SizesGrow, SizesAdd
    <3>8. n = x.total + Size[v]
      BY DEF n
    <3>9. CacheBytes \in Nat
      BY SongCacheAssumption DEF SongCacheAssumption
    <3> HIDE DEF x, v
    <3>10. SizeOf(new) <= n
      <4>1. SizeOf(new) <= SizeOf(old) + Size[v]
        BY <3>6, <3>7
      <4> QED
        BY <2>2, <2>4, <3>2, <3>7, <3>8, <4>1
    <3>11. SizeOf(new) <= CacheBytes
      BY <2>4, <3>2, <3>7, <3>9, <3>10
    <3> QED
      BY <3>10, <3>11
  <2>12. \A w \in Tasks : Lists(tasks[w]) => Nested(r, tasks[w], unpruned)
    <3>1. \A w \in Tasks : Lists(tasks[w]) => Nested(x, tasks[w], unpruned)
      BY <1>1, <2>9 DEF CacheIInv, PrunesAgree
    <3> QED
      BY <2>8, <3>1 DEF Nested
  <2> QED
    BY <1>1, <2>7, <2>8, <2>9, <2>10, <2>11, <2>12, PruneGoesOn
<1> QED
  BY <1>2, <1>3

\* The last step of prune(): of two lists one holds what the other still has to see to, so a
\* prune() that goes on either has nothing left to see to, or what is due of it is as before.
LEMMA PruneEndsKeepsCache == ASSUME CacheIInv, NEW t, PruneEnds(t) PROVE CacheIInv'
<1> DEFINE x == tasks[t]
           r == TaskFrom(x, "ended", <<>>, 0, {})
<1>0. CacheTypes /\ unpruned \in SUBSET Tasks
  BY DEF CacheIInv, CacheTypes
<1>1. /\ t \in Tasks /\ UNCHANGED <<cache, fetching, restarts>> /\ x.at = "dropping"
      /\ x.files = <<>> /\ End(t) /\ unpruned' = unpruned \ x.listed
  BY DEF PruneEnds, At
<1>2. "ended" \in Places /\ <<>> \in Seq(Songs) /\ 0 \in Nat /\ {} \in SUBSET Nat
  BY DEF Places
<1>3. tasks' = [tasks EXCEPT ![t] = r] /\ r \in CacheTask
  BY <1>0, <1>1, <1>2, EndTurns, RecordMade
<1>4. r.song = x.song /\ r.listed = {} /\ r.at = "ended"
  BY DEF TaskFrom
<1> HIDE DEF r
<1>5. /\ Tasks' = Tasks /\ tasks'[t] = r /\ \A u \in Tasks : u # t => tasks'[u] = tasks[u]
  BY <1>0, <1>1, <1>3, TaskBecomes
<1>6. cache' \in Seq(Songs) /\ IsInjective(cache') /\ Cached' = Cached
  BY <1>0, <1>1 DEF CacheTypes, Cached
<1>7. CacheTypes'
  <2>1. r.listed \in SUBSET Tasks /\ fetching' \in [Songs -> 0..Len(tasks)] /\ unpruned' \in SUBSET Tasks
        /\ restarts' = restarts
    BY <1>0, <1>1, <1>4 DEF CacheTypes
  <2> QED
    BY <1>0, <1>1, <1>3, <1>6, <2>1, TypesTurn
<1>8. \A u \in Tasks : u \in Tasks' /\ tasks'[u].song = tasks[u].song /\ (Out(tasks[u]) => Out(tasks'[u]))
  BY <1>4, <1>5 DEF Out
<1>9. \A u \in Tasks' : u # t /\ (Lists(tasks'[u]) \/ tasks'[u].listed # {}) => u \in Tasks /\ tasks'[u] = tasks[u]
  BY <1>5
<1>10. ~Lists(tasks'[t]) /\ tasks'[t].listed = {}
  BY <1>4, <1>5 DEF Lists
<1>11. \A un \in SUBSET Tasks : \A X : Spared(tasks', un, X) = Spared(tasks, un, X)
  <2>1. \A un \in SUBSET Tasks : \A X : \A u \in un \ X : tasks'[u].song = tasks[u].song
    BY <1>8
  <2> QED
    BY <2>1 DEF Spared
<1>12. Lists(x) /\ OnItsWay(x, Cached, tasks, unpruned)
  BY <1>1 DEF CacheIInv, PrunesAgree, Lists
<1>13. CacheCapped'
  <2>1. CASE unpruned \cap x.listed = {}
    <3>1. unpruned' = unpruned
      BY <1>1, <2>1
    <3>2. {tasks'[u].song : u \in unpruned'} = {tasks[u].song : u \in unpruned}
      BY <1>0, <1>8, <3>1
    <3> QED
      BY <1>6, <3>2, CapKeeps
  <2>2. CASE unpruned \cap x.listed # {}
    <3> DEFINE due == Cached \ Spared(tasks, unpruned, x.listed)
    <3>1. SizeOf(due \ ToSet(x.files)) <= CacheBytes
      BY <1>1, <1>12, <2>2 DEF OnItsWay
    <3>2. ToSet(x.files) = {}
      BY <1>1 DEF ToSet
    <3>3. due \ ToSet(x.files) = due
      BY <3>2
    <3>4. SizeOf(due) <= CacheBytes
      BY <3>1, <3>3, Zenon
    <3>5. {tasks'[u].song : u \in unpruned'} = Spared(tasks, unpruned, x.listed)
      BY <1>0, <1>1, <1>8 DEF Spared
    <3>6. (Cached \ {tasks[u].song : u \in unpruned})' = due
      BY <1>6, <3>5
    <3> HIDE DEF due
    <3> QED
      BY <3>4, <3>6 DEF CacheCapped
  <2> QED
    BY <2>1, <2>2
<1>14. ASSUME NEW w \in Tasks, w # t, Lists(tasks[w])
       PROVE  /\ unpruned' \cap tasks[w].listed \subseteq unpruned
              /\ unpruned' \cap tasks[w].listed # {} =>
                    Cached' \ Spared(tasks', unpruned', tasks[w].listed)
                        \subseteq Cached \ Spared(tasks, unpruned, tasks[w].listed)
  <2>1. Nested(x, tasks[w], unpruned)
    BY <1>1, <1>12, <1>14 DEF CacheIInv, PrunesAgree
  <2>2. CASE unpruned \cap tasks[w].listed \subseteq x.listed
    BY <1>1, <2>2
  <2>3. CASE unpruned \cap x.listed \subseteq tasks[w].listed
    <3>1. unpruned' \ tasks[w].listed = unpruned \ tasks[w].listed
      BY <1>1, <2>3
    <3>2. Spared(tasks, unpruned', tasks[w].listed) = Spared(tasks, unpruned, tasks[w].listed)
      BY <3>1 DEF Spared
    <3>3. unpruned' \in SUBSET Tasks
      BY <1>0, <1>1
    <3> QED
      BY <1>1, <1>6, <1>11, <3>2, <3>3
  <2> QED
    BY <2>1, <2>2, <2>3 DEF Nested
<1>15. \A u \in unpruned' : u \in unpruned
  BY <1>1
<1> HIDE DEF x
<1> QED
  BY <1>7, <1>8, <1>9, <1>10, <1>13, <1>14, <1>15, OthersGoOn

LEMMA CacheStarts == Init => CacheIInv
<1> SUFFICES ASSUME Init PROVE CacheIInv
  OBVIOUS
<1>1. /\ tasks = <<>> /\ fetching = [v \in Songs |-> 0] /\ restarts = 0 /\ unpruned = {}
      /\ cache \in SetToAllKPermutations(Songs) /\ SizeOf(ToSet(cache)) <= CacheBytes
  BY DEF Init
<1>2. Tasks = {} /\ Len(tasks) = 0
  BY <1>1 DEF Tasks
<1>3. cache \in Seq(Songs) /\ IsInjective(cache)
  <2>1. PICK A \in SUBSET Songs : cache \in SetToSeqs(A)
    BY <1>1 DEF SetToAllKPermutations
  <2>2. IsFiniteSet(A)
    BY SongCacheAssumption, FS_Subset DEF SongCacheAssumption
  <2>3. Cardinality(A) \in Nat
    BY <2>2, FS_CardinalityType
  <2> DEFINE n == Cardinality(A)
  <2>4. cache \in [1..n -> A] /\ \A i, j \in 1..n : i # j => cache[i] # cache[j]
    BY <2>1 DEF SetToSeqs
  <2>5. n \in Nat
    BY <2>3
  <2> HIDE DEF n
  <2> QED
    BY <2>4, <2>5 DEF IsInjective
<1>4. tasks \in Seq(CacheTask)
  BY <1>1
<1>5. CacheTypes
  <2>1. fetching \in [Songs -> 0..Len(tasks)]
    BY <1>1, <1>2
  <2>2. restarts \in 0..MaxRestarts
    BY <1>1, SongCacheAssumption DEF SongCacheAssumption
  <2> QED
    BY <1>1, <1>2, <1>3, <1>4, <2>1, <2>2 DEF CacheTypes
<1>6. CacheCapped
  <2>1. Cached \ {tasks[u].song : u \in unpruned} = ToSet(cache)
    BY <1>1 DEF Cached
  <2> QED
    BY <1>1, <2>1 DEF CacheCapped
<1> QED
  BY <1>1, <1>2, <1>5, <1>6 DEF CacheIInv, ListedAreOut, PrunesAgree

LEMMA CacheGoes == CacheIInv /\ [Next]_vars => CacheIInv'
<1> SUFFICES ASSUME CacheIInv, [Next]_vars PROVE CacheIInv'
  OBVIOUS
<1>1. ASSUME NEW v \in Songs, Ask(v) PROVE CacheIInv'
  BY <1>1, AskKeepsCache
<1>2. ASSUME NEW t \in Tasks, Step(t) PROVE CacheIInv'
  BY <1>2, QuietStepsKeep, PublishKeepsCache, ListKeepsCache, SortKeepsCache, DropKeepsCache,
     PruneEndsKeepsCache DEF Step
<1>3. CASE Restart
  BY <1>3, RestartKeepsCache
<1>4. CASE UNCHANGED vars
  BY <1>4 DEF vars, CacheIInv, CacheTypes, ListedAreOut, CacheCapped, PrunesAgree, Cached, Tasks
<1> QED
  BY <1>1, <1>2, <1>3, <1>4 DEF Next

THEOREM CacheInvariance == Spec => []CacheIInv
BY CacheStarts, CacheGoes, PTL DEF Spec

\* prune(): but for songs whose own prune() still runs, or raised, the cache is within its
\* limit, though two threads drop songs by lists made at different times.
THEOREM CacheStaysCapped == Spec => []CacheCapped
<1>1. CacheIInv => CacheCapped
  BY DEF CacheIInv
<1> QED
  BY <1>1, CacheInvariance, PTL

LEMMA SongTypesFollow == IInv /\ CacheIInv => TypeOK
<1> SUFFICES ASSUME IInv, CacheIInv PROVE TypeOK
  OBVIOUS
<1>1. CacheTypes
  BY DEF CacheIInv
<1>2. ASSUME NEW t \in Tasks
      PROVE  /\ tasks[t].song \in Songs
             /\ tasks[t].at \in {"asked", "ended", "over"} \cup Working
             /\ tasks[t].files \in Seq(Songs) /\ tasks[t].total \in Nat
  <2>1. tasks[t] \in CacheTask
    BY <1>1 DEF CacheTypes, Tasks
  <2> QED
    BY <2>1 DEF CacheTask, Places
<1>3. AtMostSlots
  BY DEF IInv
<1> QED
  BY <1>1, <1>2, <1>3 DEF TypeOK, CacheTypes

\* The types of the downloads, with the slots of the semaphore.
THEOREM SongTypesHold == Spec => []TypeOK
BY Invariance, CacheInvariance, SongTypesFollow, PTL

-----------------------------------------------------------------------------
(* Home: for any devices, threads and times *)

Serving ==
    [at : {"command", "set", "states", "rooms", "asking", "rendered", "reply"},
     device : Devices \cup {House!Nobody}, value : Int, quick : BOOLEAN, asOf : Nat,
     states : [Devices -> Int]]

HouseTypes ==
    /\ now \in Nat
    /\ house \in [Devices -> Int] /\ hand \in [Devices -> {"wall", "assist", "panel"}]
    /\ requests \in [Requests -> {House!Idle} \cup Serving]
    /\ areas \in [at : Int, true : Nat, failed : BOOLEAN]

\* What a request has in hand: a value its device may be set to, states that were read.
HouseRequests ==
    \A r \in Requests :
        /\ House!At(r, "set") =>
              /\ requests[r].device \in Devices
              /\ requests[r].value \in House!Actions(Domain[requests[r].device])
        /\ requests[r].at # "idle" =>
              \A d \in Devices : requests[r].states[d] \in House!States(d)
        /\ House!At(r, "rendered") => now - requests[r].asOf <= Slow

\* When it was read, the map was at most one call old, unless the call had failed.
MapWasRecent == areas.failed \/ areas.at - areas.true <= Slow

LocksStayLocked ==
    \A d \in Devices : Domain[d] = "lock" /\ hand[d] = "panel" => house[d] = House!Locked

HouseIInv ==
    /\ House!HomeAssumption
    /\ HouseTypes /\ House!TypeOK /\ HouseRequests /\ MapWasRecent /\ LocksStayLocked

\* What a request may set a device to is a state of it; a lock is only locked.
LEMMA ActionsAreStates ==
    ASSUME House!HomeAssumption, NEW d \in Devices, NEW value \in House!Actions(Domain[d])
    PROVE  /\ value \in House!States(d) /\ value \in Int
           /\ Domain[d] = "lock" => value = House!Locked
BY DEF House!HomeAssumption, House!Actions, House!States, House!Clip, House!Locked, House!Unlocked

\* Every state is a number, and 0 is one of every device.
LEMMA StatesAreNumbers ==
    ASSUME House!HomeAssumption, NEW d \in Devices
    PROVE  House!States(d) \subseteq Int /\ 0 \in House!States(d)
BY DEF House!HomeAssumption, House!States, House!Locked, House!Unlocked

\* A request that is served has its fields.
LEMMA ServedHasFields ==
    ASSUME HouseTypes, NEW r \in Requests, requests[r].at # "idle"
    PROVE  requests[r] \in Serving
BY DEF HouseTypes, House!Idle

\* What is asked of a request for HouseRequests.
HasInHand(q) ==
    /\ q.at = "set" => q.device \in Devices /\ q.value \in House!Actions(Domain[q.device])
    /\ q.at # "idle" => \A d \in Devices : q.states[d] \in House!States(d)
    /\ q.at = "rendered" => now - q.asOf <= Slow

\* A request that starts has read nothing yet.
LEMMA Starts ==
    ASSUME House!HomeAssumption, NEW place \in {"command", "set", "states"},
           NEW d \in Devices \cup {House!Nobody}, NEW value \in Int, NEW quick \in BOOLEAN,
           place = "set" => d \in Devices /\ value \in House!Actions(Domain[d])
    PROVE  /\ House!New(place, d, value, quick) \in Serving
           /\ House!New(place, d, value, quick).at = place
           /\ HasInHand(House!New(place, d, value, quick))
<1>1. House!Unread \in [Devices -> Int] /\ \A e \in Devices : House!Unread[e] = 0
  BY DEF House!Unread
<1>2. \A e \in Devices : 0 \in House!States(e)
  BY StatesAreNumbers
<1> QED
  BY <1>1, <1>2 DEF House!New, Serving, HasInHand

\* One request goes on to q; its thread has the lock while it asks for the rooms.
LEMMA RequestGoes ==
    ASSUME HouseIInv, NEW r \in Requests, NEW q \in {House!Idle} \cup Serving,
           House!Goes(r, q), HasInHand(q), now' = now,
           q.at \in {"asking", "rendered"} <=> lock' = r,
           \A s \in Requests \ {r} : lock' = s <=> lock = s
    PROVE  /\ requests' \in [Requests -> {House!Idle} \cup Serving] /\ HouseRequests'
           /\ \A s \in Requests :
                 (House!At(s, "asking") \/ House!At(s, "rendered"))' <=> lock' = s
<1>1. /\ requests' \in [Requests -> {House!Idle} \cup Serving] /\ requests'[r] = q
      /\ \A s \in Requests \ {r} : requests'[s] = requests[s]
  BY DEF House!Goes, HouseIInv, HouseTypes
<1>2. HouseRequests'
  BY <1>1 DEF HouseIInv, HouseRequests, HasInHand, House!At
<1>3. \A s \in Requests : (House!At(s, "asking") \/ House!At(s, "rendered"))' <=> lock' = s
  BY <1>1 DEF HouseIInv, House!TypeOK, House!At
<1> QED
  BY <1>1, <1>2, <1>3

\* The rooms: the lock, the call and its answer.
LEMMA RoomsKeep ==
    ASSUME HouseIInv, NEW r \in Requests,
           House!Areas(r) \/ House!Renders(r) \/ House!Refreshed(r)
    PROVE  HouseIInv'
<1>1. /\ UNCHANGED <<now, house, hand, changes, panel>>
      /\ requests[r].at \in {"rooms", "asking", "rendered"}
  BY DEF House!Areas, House!Renders, House!Refreshed, House!At, House!House
<1>2. requests[r] \in Serving /\ HasInHand(requests[r]) /\ now \in Nat /\ Slow \in Nat
  BY <1>1, ServedHasFields
     DEF HouseIInv, HouseRequests, HouseTypes, HasInHand, House!At, House!HomeAssumption
<1>3. /\ requests[r].at \in {"asking", "rendered"} <=> lock = r
      /\ House!Nobody \notin Requests
  BY DEF HouseIInv, House!TypeOK, House!At, House!Nobody, House!HomeAssumption
<1>4. areas' \in [at : Int, true : Nat, failed : BOOLEAN] /\ MapWasRecent'
  <2>1. CASE ~House!Refreshed(r)
    BY <2>1 DEF House!Areas, House!Renders, HouseIInv, HouseTypes, MapWasRecent
  <2>2. CASE House!At(r, "rendered") /\ areas' = [at |-> now, true |-> requests[r].asOf, failed |-> FALSE]
    BY <1>2, <2>2 DEF MapWasRecent, HasInHand, Serving, House!At
  <2>3. CASE areas' = [areas EXCEPT !.at = now, !.failed = TRUE]
    <3>1. areas \in [at : Int, true : Nat, failed : BOOLEAN] /\ now \in Int
      BY <1>2 DEF HouseIInv, HouseTypes
    <3>2. areas' \in [at : Int, true : Nat, failed : BOOLEAN] /\ areas'.failed = TRUE
      BY <2>3, <3>1
    <3> QED
      BY <3>2 DEF MapWasRecent
  <2> QED
    BY <2>1, <2>2, <2>3 DEF House!Refreshed
<1>5. /\ requests' \in [Requests -> {House!Idle} \cup Serving] /\ HouseRequests'
      /\ \A s \in Requests :
            (House!At(s, "asking") \/ House!At(s, "rendered"))' <=> lock' = s
  <2>1. CASE House!Areas(r)
    <3> DEFINE place == IF lock' = r THEN "asking" ELSE "reply"
               q == [requests[r] EXCEPT !.at = place]
    <3>1. lock = House!Nobody /\ lock' \in {lock, r} /\ House!Goes(r, q)
      BY <1>3, <2>1 DEF House!Areas, House!Move
    <3>2. /\ q \in Serving /\ q.at = place /\ q.states = requests[r].states
      BY <1>2 DEF Serving
    <3>3. HasInHand(q) /\ (q.at \in {"asking", "rendered"} <=> lock' = r)
      BY <1>1, <1>2, <3>2 DEF HasInHand
    <3>4. \A s \in Requests \ {r} : lock' = s <=> lock = s
      BY <1>3, <3>1
    <3> HIDE DEF q
    <3> QED
      BY <1>1, <3>1, <3>2, <3>3, <3>4, RequestGoes
  <2>2. CASE House!Renders(r)
    <3> DEFINE q == [requests[r] EXCEPT !.at = "rendered", !.asOf = now]
    <3>1. requests[r].at = "asking" /\ UNCHANGED lock /\ House!Goes(r, q)
      BY <2>2 DEF House!Renders, House!At
    <3>2. /\ q \in Serving /\ q.at = "rendered" /\ q.states = requests[r].states /\ q.asOf = now
      BY <1>2 DEF Serving
    <3>3. HasInHand(q)
      BY <1>1, <1>2, <3>2 DEF HasInHand
    <3> HIDE DEF q
    <3> QED
      BY <1>1, <1>3, <3>1, <3>2, <3>3, RequestGoes
  <2>3. CASE House!Refreshed(r)
    <3> DEFINE q == [requests[r] EXCEPT !.at = "reply", !.asOf = 0]
    <3>1. /\ requests[r].at \in {"asking", "rendered"} /\ lock' = House!Nobody
          /\ House!Goes(r, q)
      BY <2>3 DEF House!Refreshed, House!At
    <3>2. /\ q \in Serving /\ q.at = "reply" /\ q.states = requests[r].states
      BY <1>2 DEF Serving
    <3>3. HasInHand(q)
      BY <1>1, <1>2, <3>2 DEF HasInHand
    <3> HIDE DEF q
    <3> QED
      BY <1>1, <1>3, <3>1, <3>2, <3>3, RequestGoes
  <2> QED
    BY <2>1, <2>2, <2>3
<1> QED
  BY <1>1, <1>4, <1>5 DEF HouseIInv, HouseTypes, House!TypeOK, LocksStayLocked

\* A request comes, reads the states, does nothing, or its call fails.
LEMMA ServingKeeps ==
    ASSUME HouseIInv, NEW r \in Requests, NEW q \in {House!Idle} \cup Serving,
           House!Goes(r, q), HasInHand(q), q.at \notin {"asking", "rendered"},
           requests[r].at \notin {"asking", "rendered"},
           UNCHANGED <<now, areas, lock>>,
           house' \in [Devices -> Int], hand' \in [Devices -> {"wall", "assist", "panel"}],
           \A d \in Devices : house'[d] \in House!States(d) /\ panel'[d] \in House!States(d),
           LocksStayLocked'
    PROVE  HouseIInv'
<1>1. requests[r].at \in {"asking", "rendered"} <=> lock = r
  BY DEF HouseIInv, House!TypeOK, House!At
<1>2. /\ requests' \in [Requests -> {House!Idle} \cup Serving] /\ HouseRequests'
      /\ \A s \in Requests :
            (House!At(s, "asking") \/ House!At(s, "rendered"))' <=> lock' = s
  BY <1>1, RequestGoes
<1> QED
  BY <1>2 DEF HouseIInv, HouseTypes, House!TypeOK, MapWasRecent

LEMMA IdleHasNothing == House!Idle.at = "idle" /\ HasInHand(House!Idle)
BY DEF House!Idle, HasInHand

LEMMA RequestKeeps ==
    ASSUME HouseIInv, NEW r \in Requests,
           (House!Poll /\ r = "poll") \/ (\E p \in {"lan", "owner", "other"} : House!Request(r, p))
    PROVE  HouseIInv'
<1>1. requests[r].at = "idle" /\ UNCHANGED <<now, house, hand, changes, areas, lock, panel>>
  BY DEF House!Poll, House!Request, House!At, House!House
<1>2. House!HomeAssumption
  BY DEF HouseIInv
<1>3. \E q \in Serving :
         /\ House!Goes(r, q) /\ HasInHand(q) /\ q.at \in {"command", "set", "states"}
  <2>1. ASSUME NEW place \in {"command", "states"},
               House!Goes(r, House!New(place, House!Nobody, 0, FALSE))
        PROVE  \E q \in Serving :
                  /\ House!Goes(r, q) /\ HasInHand(q) /\ q.at \in {"command", "set", "states"}
    <3> DEFINE q == House!New(place, House!Nobody, 0, FALSE)
    <3>1. q \in Serving /\ q.at = place /\ HasInHand(q)
      <4>1. place \in {"command", "set", "states"} /\ place # "set"
        BY <2>1
      <4>2. House!Nobody \in Devices \cup {House!Nobody} /\ 0 \in Int /\ FALSE \in BOOLEAN
        OBVIOUS
      <4> QED
        BY <1>2, <4>1, <4>2, Starts
    <3>2. House!Goes(r, q)
      BY <2>1
    <3> HIDE DEF q
    <3> QED
      BY <3>1, <3>2
  <2>2. ASSUME NEW d \in Devices, NEW value \in House!Actions(Domain[d]), NEW quick \in BOOLEAN,
               House!Goes(r, House!New("set", d, value, quick))
        PROVE  \E q \in Serving :
                  /\ House!Goes(r, q) /\ HasInHand(q) /\ q.at \in {"command", "set", "states"}
    <3> DEFINE q == House!New("set", d, value, quick)
    <3>1. value \in Int
      BY <1>2, ActionsAreStates
    <3>2. q \in Serving /\ q.at = "set" /\ HasInHand(q)
      BY <1>2, <3>1, Starts
    <3>3. House!Goes(r, q)
      BY <2>2
    <3> HIDE DEF q
    <3> QED
      BY <3>2, <3>3
  <2> QED
    BY <2>1, <2>2 DEF House!Poll, House!Request, House!Devs
<1>4. /\ house' \in [Devices -> Int] /\ hand' \in [Devices -> {"wall", "assist", "panel"}]
      /\ \A d \in Devices : house'[d] \in House!States(d) /\ panel'[d] \in House!States(d)
      /\ LocksStayLocked'
  BY <1>1 DEF HouseIInv, HouseTypes, House!TypeOK, LocksStayLocked
<1> QED
  BY <1>1, <1>3, <1>4, ServingKeeps

LEMMA FailsKeep ==
    ASSUME HouseIInv, NEW r \in Requests, House!Fails(r)
    PROVE  HouseIInv'
<1>1. /\ requests[r].at \in {"command", "set", "states"}
      /\ UNCHANGED <<now, house, hand, changes, areas, lock, panel>>
      /\ House!Goes(r, House!Idle)
  BY DEF House!Fails, House!At, House!House, House!AfterError
<1>2. /\ house' \in [Devices -> Int] /\ hand' \in [Devices -> {"wall", "assist", "panel"}]
      /\ \A d \in Devices : house'[d] \in House!States(d) /\ panel'[d] \in House!States(d)
      /\ LocksStayLocked'
  BY <1>1 DEF HouseIInv, HouseTypes, House!TypeOK, LocksStayLocked
<1> QED
  BY <1>1, <1>2, IdleHasNothing, ServingKeeps

LEMMA ReadStatesKeeps ==
    ASSUME HouseIInv, NEW r \in Requests, House!ReadStates(r)
    PROVE  HouseIInv'
<1> DEFINE q == [requests[r] EXCEPT !.at = "rooms", !.states = house]
<1>1. /\ requests[r].at = "states" /\ House!Goes(r, q)
      /\ UNCHANGED <<now, house, hand, changes, areas, lock, panel>>
  BY DEF House!ReadStates, House!At, House!House
<1>2. /\ house' \in [Devices -> Int] /\ hand' \in [Devices -> {"wall", "assist", "panel"}]
      /\ \A d \in Devices : house'[d] \in House!States(d) /\ panel'[d] \in House!States(d)
      /\ LocksStayLocked'
  BY <1>1 DEF HouseIInv, HouseTypes, House!TypeOK, LocksStayLocked
<1>3. requests[r] \in Serving
  BY <1>1, ServedHasFields DEF HouseIInv
<1>4. q \in Serving /\ q.at = "rooms" /\ q.states = house
  BY <1>3 DEF Serving, HouseIInv, HouseTypes
<1>5. HasInHand(q)
  BY <1>1, <1>2, <1>4 DEF HasInHand
<1> HIDE DEF q
<1> QED
  BY <1>1, <1>2, <1>4, <1>5, ServingKeeps

LEMMA ReplyKeeps ==
    ASSUME HouseIInv, NEW r \in Requests, House!Reply(r)
    PROVE  HouseIInv'
<1>1. /\ requests[r].at = "reply" /\ House!Goes(r, House!Idle)
      /\ UNCHANGED <<now, house, hand, changes, areas, lock>>
      /\ panel' = [d \in Devices |->
            IF requests[r].device \in {House!Nobody, d} THEN requests[r].states[d] ELSE panel[d]]
  BY DEF House!Reply, House!At, House!House
<1>2. \A d \in Devices : panel'[d] \in House!States(d)
  BY <1>1 DEF HouseIInv, HouseRequests, House!TypeOK
<1>3. /\ house' \in [Devices -> Int] /\ hand' \in [Devices -> {"wall", "assist", "panel"}]
      /\ \A d \in Devices : house'[d] \in House!States(d)
      /\ LocksStayLocked'
  BY <1>1 DEF HouseIInv, HouseTypes, House!TypeOK, LocksStayLocked
<1> QED
  BY <1>1, <1>2, <1>3, IdleHasNothing, ServingKeeps

\* A device changes; when the panel does it and the device is a lock, it is locked.
LEMMA PutKeepsHouse ==
    ASSUME HouseIInv, NEW d \in Devices, NEW value \in House!States(d),
           NEW who \in {"wall", "assist", "panel"}, House!Put(d, value, who),
           who = "panel" /\ Domain[d] = "lock" => value = House!Locked
    PROVE  /\ house' \in [Devices -> Int] /\ hand' \in [Devices -> {"wall", "assist", "panel"}]
           /\ \A e \in Devices : house'[e] \in House!States(e)
           /\ LocksStayLocked'
<1>1. value \in Int
  BY StatesAreNumbers DEF HouseIInv
<1>2. /\ house' = [house EXCEPT ![d] = value] /\ hand' = [hand EXCEPT ![d] = who]
  BY DEF House!Put
<1> QED
  BY <1>1, <1>2 DEF HouseIInv, HouseTypes, House!TypeOK, LocksStayLocked

LEMMA CommandKeeps ==
    ASSUME HouseIInv, NEW r \in Requests, House!Command(r)
    PROVE  HouseIInv'
<1>1. /\ requests[r].at = "command" /\ House!Goes(r, House!Idle)
      /\ UNCHANGED <<now, areas, lock, panel>>
  BY DEF House!Command, House!At
<1>2. /\ house' \in [Devices -> Int] /\ hand' \in [Devices -> {"wall", "assist", "panel"}]
      /\ \A e \in Devices : house'[e] \in House!States(e)
      /\ LocksStayLocked'
  <2>1. CASE UNCHANGED House!House
    BY <2>1 DEF House!House, HouseIInv, HouseTypes, House!TypeOK, LocksStayLocked
  <2>2. ASSUME NEW d \in Devices, NEW value \in House!States(d), House!Put(d, value, "assist")
        PROVE  /\ house' \in [Devices -> Int] /\ hand' \in [Devices -> {"wall", "assist", "panel"}]
               /\ \A e \in Devices : house'[e] \in House!States(e)
               /\ LocksStayLocked'
    BY <2>2, PutKeepsHouse
  <2> QED
    BY <2>1, <2>2 DEF House!Command
<1>3. \A e \in Devices : panel'[e] \in House!States(e)
  BY <1>1 DEF HouseIInv, House!TypeOK
<1> QED
  BY <1>1, <1>2, <1>3, IdleHasNothing, ServingKeeps

LEMMA SetKeeps ==
    ASSUME HouseIInv, NEW r \in Requests, House!Set(r)
    PROVE  HouseIInv'
<1> DEFINE d == requests[r].device
           value == requests[r].value
           q == IF requests[r].quick THEN House!Idle ELSE House!New("states", d, 0, FALSE)
<1>1. /\ requests[r].at = "set" /\ House!Goes(r, q) /\ House!Put(d, value, "panel")
      /\ UNCHANGED <<now, areas, lock, panel>>
  BY DEF House!Set, House!At
<1>2. House!HomeAssumption /\ d \in Devices /\ value \in House!Actions(Domain[d])
  BY <1>1 DEF HouseIInv, HouseRequests, House!At
<1> HIDE DEF d, value
<1>3. value \in House!States(d) /\ (Domain[d] = "lock" => value = House!Locked)
  BY <1>2, ActionsAreStates
<1>4. q \in {House!Idle} \cup Serving /\ HasInHand(q) /\ q.at \in {"idle", "states"}
  <2> DEFINE new == House!New("states", d, 0, FALSE)
  <2>1. new \in Serving /\ new.at = "states" /\ HasInHand(new)
    <3>1. d \in Devices \cup {House!Nobody} /\ 0 \in Int /\ FALSE \in BOOLEAN
      BY <1>2
    <3>2. "states" \in {"command", "set", "states"} /\ "states" # "set"
      OBVIOUS
    <3> QED
      BY <1>2, <3>1, <3>2, Starts
  <2>2. q = House!Idle \/ q = new
    OBVIOUS
  <2> HIDE DEF new, q
  <2> QED
    BY <2>1, <2>2, IdleHasNothing
<1> HIDE DEF q
<1>5. /\ house' \in [Devices -> Int] /\ hand' \in [Devices -> {"wall", "assist", "panel"}]
      /\ \A e \in Devices : house'[e] \in House!States(e)
      /\ LocksStayLocked'
  BY <1>1, <1>2, <1>3, PutKeepsHouse
<1>6. \A e \in Devices : panel'[e] \in House!States(e)
  BY <1>1 DEF HouseIInv, House!TypeOK
<1> QED
  BY <1>1, <1>4, <1>5, <1>6, ServingKeeps

\* By hand, and time that passes only while calls are within their limit.
LEMMA OutsideKeeps ==
    ASSUME HouseIInv, House!ByHand \/ House!Tick
    PROVE  HouseIInv'
<1>1. CASE House!ByHand
  <2>1. PICK d \in Devices : \E v \in House!States(d) : House!Put(d, v, "wall")
    BY <1>1 DEF House!ByHand
  <2>2. /\ house' \in [Devices -> Int] /\ hand' \in [Devices -> {"wall", "assist", "panel"}]
        /\ \A e \in Devices : house'[e] \in House!States(e)
        /\ LocksStayLocked'
    BY <2>1, PutKeepsHouse
  <2>3. UNCHANGED <<now, requests, areas, lock, panel>>
    BY <1>1 DEF House!ByHand
  <2> QED
    BY <2>2, <2>3 DEF HouseIInv, HouseTypes, HouseRequests, House!TypeOK, House!At, MapWasRecent
<1>2. CASE House!Tick
  <2>1. /\ now' = now + 1 /\ UNCHANGED <<house, hand, changes, requests, areas, lock, panel>>
        /\ \A r \in Requests : requests[r].at = "rendered" => now - requests[r].asOf < Slow
    BY <1>2 DEF House!Tick, House!House, House!At
  <2>2. \A r \in Requests : requests[r].at = "rendered" => now' - requests[r].asOf <= Slow
    <3> SUFFICES ASSUME NEW r \in Requests, requests[r].at = "rendered"
                 PROVE  now' - requests[r].asOf <= Slow
      OBVIOUS
    <3>1. requests[r].asOf \in Nat /\ now \in Nat /\ Slow \in Nat
      BY ServedHasFields DEF HouseIInv, HouseTypes, Serving, House!HomeAssumption
    <3> QED
      BY <2>1, <3>1
  <2>3. HouseRequests'
    BY <2>1, <2>2 DEF HouseIInv, HouseRequests, House!At
  <2>4. now' \in Nat
    BY <2>1 DEF HouseIInv, HouseTypes
  <2> QED
    BY <2>1, <2>3, <2>4 DEF HouseIInv, HouseTypes, House!TypeOK, House!At, MapWasRecent, LocksStayLocked
<1> QED
  BY <1>1, <1>2

LEMMA HouseStarts == House!HomeAssumption /\ House!Init => HouseIInv
<1> SUFFICES ASSUME House!HomeAssumption, House!Init PROVE HouseIInv
  OBVIOUS
<1>1. HouseTypes
  BY DEF House!HomeAssumption, House!Init, HouseTypes
<1>2. House!TypeOK /\ HouseRequests
  BY StatesAreNumbers
     DEF House!Init, House!TypeOK, HouseRequests, House!At, House!Idle, House!Nobody, House!HomeAssumption
<1>3. MapWasRecent /\ LocksStayLocked
  BY DEF House!HomeAssumption, House!Init, MapWasRecent, LocksStayLocked
<1> QED
  BY <1>1, <1>2, <1>3 DEF HouseIInv

LEMMA HouseGoes == HouseIInv /\ [House!Next]_House!vars => HouseIInv'
<1> SUFFICES ASSUME HouseIInv, [House!Next]_House!vars PROVE HouseIInv'
  OBVIOUS
<1>1. CASE House!ByHand \/ House!Tick
  BY <1>1, OutsideKeeps
<1>2. CASE House!Poll
  <2>1. "poll" \in Requests
    BY DEF HouseIInv, House!HomeAssumption
  <2> QED
    BY <1>2, <2>1, RequestKeeps
<1>3. ASSUME NEW r \in Requests,
             House!Thread(r) \/ \E p \in {"lan", "owner", "other"} : House!Request(r, p)
      PROVE  HouseIInv'
  BY <1>3, RoomsKeep, CommandKeeps, SetKeeps, ReadStatesKeeps, FailsKeep, ReplyKeeps,
     RequestKeeps DEF House!Thread
<1>4. CASE UNCHANGED House!vars
  BY <1>4 DEF House!vars, HouseIInv, HouseTypes, HouseRequests, House!TypeOK, House!At,
     MapWasRecent, LocksStayLocked
<1> QED
  BY <1>1, <1>2, <1>3, <1>4 DEF House!Next

\* HouseIInv holds always, for any devices and threads, however late the answers are.
THEOREM HouseInvariance == AllSpec => [](part = "house" => HouseIInv)
<1>1. AllInit => (part = "house" => HouseIInv)
  BY PartsAssumption, HouseStarts DEF PartsAssumption, AllInit
<1>2. (part = "house" => HouseIInv) /\ [AllNext]_AllVars => (part = "house" => HouseIInv)'
  <2> SUFFICES ASSUME part = "house" => HouseIInv, [AllNext]_AllVars, part' = "house"
               PROVE  HouseIInv'
    OBVIOUS
  <2>1. part = "house" /\ [House!Next]_House!vars
    BY DEF AllNext, AllVars, InSongs, InHouse, HouseVars, House!vars
  <2> QED
    BY <2>1, HouseGoes
<1> QED
  BY <1>1, <1>2, PTL DEF AllSpec

\* A lock is never opened from the panel, and the rooms the panel groups by were true
\* at most a minute and one call ago, unless the last call for them failed.
THEOREM HomeIsTrustworthy == AllSpec => []HomeKeepsItsWord
<1>1. HouseIInv => House!HomeKeepsItsWord
  <2> SUFFICES ASSUME HouseIInv PROVE House!HomeKeepsItsWord
    OBVIOUS
  <2>1. House!Fresh => areas.failed \/ now - areas.true <= Keep + Slow
    <3>1. /\ areas.at \in Int /\ areas.true \in Nat /\ now \in Nat
          /\ Keep \in Nat /\ Slow \in Nat
      BY DEF HouseIInv, HouseTypes, House!HomeAssumption
    <3> QED
      BY <3>1 DEF HouseIInv, MapWasRecent, House!Fresh
  <2> QED
    BY <2>1 DEF HouseIInv, LocksStayLocked, House!HomeKeepsItsWord
<1>2. (part = "house" => HouseIInv) => HomeKeepsItsWord
  BY <1>1 DEF HomeKeepsItsWord
<1> QED
  BY <1>2, HouseInvariance, PTL
===============================================================================
