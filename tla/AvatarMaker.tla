----------------------------- MODULE AvatarMaker -----------------------------
(***************************************************************************)
(* avatar/scripts/avatar_maker.py: the job queue that turns uploaded       *)
(* photos into avatar ZIPs, one at a time.                                 *)
(*                                                                         *)
(* Two threads share the state.  The event loop runs create(), which never *)
(* awaits once the upload is read, so at most one request is between its   *)
(* "does this avatar exist" check and its decision under the lock.  The    *)
(* worker thread takes jobs from the queue under the same lock, but runs   *)
(* the export and publishes without it.                                    *)
(*                                                                         *)
(* The uuid of a job is abstracted to its number in order of acceptance,   *)
(* the upload to readable or not, the export (LAM and Blender) to its      *)
(* outcome.  A job that prune() dropped keeps its place with the state     *)
(* "forgotten".                                                            *)
(***************************************************************************)
EXTENDS Integers, Sequences

CONSTANTS
    Names,      \* the avatar names callers use
    HandNames,  \* those of which a ZIP may have been copied there by hand,
    HandFolders, \* and the folders where
    NumFolders, \* how many folders AVATAR_DIRS lists
    MaxQueue,   \* MAX_QUEUE: how many jobs may wait
    MaxJobs,    \* bound: how many jobs are ever accepted
    NoRequest   \* create() is not between its checks

ASSUME NamesAssumption == NoRequest \notin [name : Names, replace : BOOLEAN]
ASSUME BoundsAssumption ==
    NumFolders \in Nat \ {0} /\ MaxQueue \in Nat \ {0} /\ MaxJobs \in Nat

VARIABLES
    jobs,       \* jobs: every accepted job, in order
    queue,      \* queue: the numbers of the waiting jobs
    wake,       \* wake: the event the worker waits on
    request,    \* create(): the request past its existence check
    worker,     \* where worker() is
    current,    \* worker(): job_id, the last job it took (0 before the first)
    folder,     \* run(): the next of AVATAR_DIRS to publish to
    zips        \* <name>.zip in each folder: the job that made it

vars == <<jobs, queue, wake, request, worker, current, folder, zips>>
workerVars == <<worker, current, folder, zips>>

Folders == 1..NumFolders
Handmade == 0       \* a ZIP copied there by hand, not by this maker
NoZip == -1

Active == {"queued", "running"}
Ended == {"done", "error"}
Job == [name : Names, replace : BOOLEAN,
        state : Active \cup Ended \cup {"forgotten"}, finished : BOOLEAN]
Request == [name : Names, replace : BOOLEAN]

Init ==
    /\ jobs = <<>>
    /\ queue = <<>>
    /\ wake = FALSE
    /\ request = NoRequest
    /\ worker = "waiting"
    /\ current = 0
    /\ folder = 1
    /\ zips \in [Folders -> [Names -> {NoZip, Handmade}]]
    /\ \A d \in Folders, n \in Names : zips[d][n] = Handmade => n \in HandNames /\ d \in HandFolders

-----------------------------------------------------------------------------
(* create(), on the event loop *)

Exists(n) == \E d \in Folders : zips[d][n] # NoZip

\* The upload is read and the name is free or may be replaced.
Check(n, replace) ==
    /\ request = NoRequest
    /\ replace \/ ~Exists(n)
    /\ request' = [name |-> n, replace |-> replace]
    /\ UNCHANGED <<jobs, queue, wake, workerVars>>

\* Empty, too large or not a photo: refused before prune() and the lock.
Unreadable ==
    /\ request # NoRequest
    /\ request' = NoRequest
    /\ UNCHANGED <<jobs, queue, wake, workerVars>>

\* prune(): jobs that finished over KEEP_S ago are dropped.  One worker ends
\* them in order, so they are the finished ones up to some number k.
Pruned(k) ==
    [i \in 1..Len(jobs) |->
        IF i <= k /\ jobs[i].finished
        THEN [jobs[i] EXCEPT !.state = "forgotten"] ELSE jobs[i]]

\* Here and below, the first of two definitions is what a plausible bug would
\* make of the second; the model does not use it.
LineIsOverfull == Len(queue) > MaxQueue         \* a bug: off by one
LineIsFull == Len(queue) >= MaxQueue

BeingExported(n) ==                              \* a bug: forgets the line
    \E i \in 1..Len(jobs) : jobs[i].name = n /\ jobs[i].state = "running"
BeingMade(n) == \E i \in 1..Len(jobs) : jobs[i].name = n /\ jobs[i].state \in Active

LastJob == Len(jobs)                             \* a bug: off by one
NewJob == Len(jobs) + 1

TurnAway(k) ==
    /\ request # NoRequest
    /\ LineIsFull \/ BeingMade(request.name)
    /\ jobs' = Pruned(k)
    /\ request' = NoRequest
    /\ UNCHANGED <<queue, wake, workerVars>>

Accept(k) ==
    /\ request # NoRequest
    /\ Len(jobs) < MaxJobs
    /\ ~LineIsFull
    /\ ~BeingMade(request.name)
    /\ jobs' = Append(Pruned(k), [name |-> request.name, replace |-> request.replace,
                                  state |-> "queued", finished |-> FALSE])
    /\ queue' = Append(queue, NewJob)
    /\ wake' = TRUE
    /\ request' = NoRequest
    /\ UNCHANGED workerVars

Create ==
    \/ \E n \in Names, replace \in BOOLEAN : Check(n, replace)
    \/ Unreadable
    \/ \E k \in 0..Len(jobs) : TurnAway(k)
    \/ \E k \in 0..Len(jobs) : Accept(k)

-----------------------------------------------------------------------------
(* worker() and run(), on the worker thread *)

SetState(s) == jobs' = [jobs EXCEPT ![current].state = s]

WakeCleared == FALSE                             \* a bug: clears it always
WakeStays == Len(queue) > 1

\* wake.wait(), then the locked section: popleft, and clear once empty.
Take ==
    /\ worker = "waiting"
    /\ wake
    /\ IF queue = <<>>
       THEN UNCHANGED <<worker, current, queue>>
       ELSE /\ current' = Head(queue)
            /\ queue' = Tail(queue)
            /\ worker' = "taken"
    /\ wake' = WakeStays
    /\ UNCHANGED <<jobs, request, folder, zips>>

Start ==
    /\ worker = "taken"
    /\ SetState("running")
    /\ worker' = "exporting"
    /\ UNCHANGED <<queue, wake, request, current, folder, zips>>

\* A zip with every required file: go on to publish it.
ExportWorks ==
    /\ worker = "exporting"
    /\ worker' = "publishing"
    /\ folder' = 1
    /\ UNCHANGED <<jobs, queue, wake, request, current, zips>>

\* No process, a bad exit, a kill at TIMEOUT_S, or an incomplete zip.
ExportFails ==
    /\ worker = "exporting"
    /\ SetState("error")
    /\ worker' = "cleaning"
    /\ UNCHANGED <<queue, wake, request, current, folder, zips>>

\* copyfile to the .part file, then os.replace: one atomic change per folder.
PublishToNext ==
    /\ worker = "publishing"
    /\ folder \in Folders
    /\ zips' = [zips EXCEPT ![folder][jobs[current].name] = current]
    /\ folder' = folder + 1
    /\ UNCHANGED <<jobs, queue, wake, request, worker, current>>

\* A copy fails (or the preview's, after the last folder): what is published stays.
PublishFails ==
    /\ worker = "publishing"
    /\ SetState("error")
    /\ worker' = "cleaning"
    /\ UNCHANGED <<queue, wake, request, current, folder, zips>>

LastFolderReached == folder >= NumFolders        \* a bug: off by one
AllFoldersDone == folder > NumFolders

Published ==
    /\ worker = "publishing"
    /\ AllFoldersDone
    /\ SetState("done")
    /\ worker' = "cleaning"
    /\ UNCHANGED <<queue, wake, request, current, folder, zips>>

\* run()'s last finally.  When an unlink raises, worker() catches it and the
\* job reads "error" even if it was done.
CleanUp(s) ==
    /\ worker = "cleaning"
    /\ s \in {jobs[current].state, "error"}
    /\ jobs' = [jobs EXCEPT ![current].state = s, ![current].finished = TRUE]
    /\ worker' = "waiting"
    /\ UNCHANGED <<queue, wake, request, current, folder, zips>>

Worker ==
    \/ Take \/ Start
    \/ ExportWorks \/ ExportFails
    \/ PublishToNext \/ PublishFails \/ Published
    \/ \E s \in Ended : CleanUp(s)

Next == Create \/ Worker

\* The worker thread is always scheduled, and the killer timer ends an export.
Spec == Init /\ [][Next]_vars /\ WF_vars(Worker)

-----------------------------------------------------------------------------
(* Properties *)

TypeOK ==
    /\ jobs \in Seq(Job)
    /\ queue \in Seq(Nat \ {0})
    /\ wake \in BOOLEAN
    /\ request \in Request \cup {NoRequest}
    /\ worker \in {"waiting", "taken", "exporting", "publishing", "cleaning"}
    /\ current \in Nat
    /\ folder \in 1..(NumFolders + 1)
    /\ zips \in [Folders -> [Names -> Nat \cup {NoZip}]]

\* Two active jobs never share a name: both would write <name>.zip and its
\* .part file (create(), "is already being made").
OneJobPerName ==
    \A i, j \in 1..Len(jobs) :
        /\ jobs[i].state \in Active /\ jobs[j].state \in Active
        /\ jobs[i].name = jobs[j].name
        => i = j

\* No wake-up is lost and none is left over: while the worker does not hold
\* the lock, the event is set exactly when a job waits in the queue.
WakeMatchesQueue == wake <=> queue # <<>>

\* A job that reports "done" is in every folder, or a later one replaced it
\* there, whatever other jobs failed half-way.
DoneMeansPublished ==
    \A i \in 1..Len(jobs) : jobs[i].state = "done" =>
        \A d \in Folders : zips[d][jobs[i].name] >= i

\* Every accepted job ends (or has already been forgotten).
JobsEnd ==
    \A i \in 1..MaxJobs : (i <= Len(jobs)) ~> (i <= Len(jobs) /\ jobs[i].finished)

\* avatar/README.md:433: "An existing name is refused unless Replace is
\* ticked", so a job sent without it never overwrites an avatar.
NeverReplacesUnasked ==
    [][\A d \in Folders, n \in Names :
            zips[d][n] # NoZip /\ zips'[d][n] # zips[d][n] => jobs[zips'[d][n]].replace]_vars

-----------------------------------------------------------------------------
(* The promise to callers, and the mapping to it. *)

AcceptedNames == [i \in 1..Len(jobs) |-> jobs[i].name]

\* The worker is at the current job until that job's state says it has ended.
EndedJobs ==
    IF current > 0 /\ jobs[current].state \in Active THEN current - 1 ELSE current

Promise == INSTANCE AvatarJobs WITH
    accepted <- AcceptedNames, started <- current, ended <- EndedJobs

\* One at a time, at most MaxQueue waiting, in order, no name twice.
KeepsPromise == Promise!Init /\ [][Promise!Next]_(Promise!vars)
=============================================================================
