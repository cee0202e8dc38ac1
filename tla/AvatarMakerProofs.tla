-------------------------- MODULE AvatarMakerProofs --------------------------
(***************************************************************************)
(* Proofs about AvatarMaker, for any names, folders, line length and       *)
(* number of jobs.  The inductive invariant says that the queue is exactly *)
(* the jobs after the current one, in order, and which state each job is   *)
(* in relative to the current one: the worker is the only writer of states *)
(* past "queued", and it takes jobs in the order create() numbered them.   *)
(***************************************************************************)
EXTENDS AvatarMaker, TLAPS

\* The queue holds the jobs after the current one, in order.
QueueInv ==
    /\ current <= Len(jobs)
    /\ Len(queue) = Len(jobs) - current
    /\ \A k \in 1..Len(queue) : queue[k] = current + k

\* The state of the current job follows the worker's place.
CurrentInv ==
    /\ worker # "waiting" => current > 0
    /\ worker = "taken" => jobs[current].state = "queued"
    /\ worker \in {"exporting", "publishing"} => jobs[current].state = "running"
    /\ worker = "cleaning" => jobs[current].state \in Ended
    /\ worker = "waiting" /\ current > 0 => jobs[current].state \notin Active
    /\ current > 0 => (jobs[current].finished <=> worker = "waiting")

\* Jobs after the current one wait; jobs before it have ended.
OthersInv ==
    \A i \in 1..Len(jobs) :
        /\ i > current => jobs[i].state = "queued" /\ ~jobs[i].finished
        /\ i < current => jobs[i].state \notin Active /\ jobs[i].finished

\* No ZIP is from a job not yet taken, and the folders before the next one
\* hold the current job's.
ZipsInv ==
    /\ \A d \in Folders, n \in Names : zips[d][n] <= current
    /\ worker = "publishing" =>
         \A d \in Folders : d < folder => zips[d][jobs[current].name] = current

IInv ==
    /\ TypeOK
    /\ QueueInv
    /\ CurrentInv
    /\ OthersInv
    /\ OneJobPerName
    /\ WakeMatchesQueue
    /\ ZipsInv
    /\ DoneMeansPublished

-----------------------------------------------------------------------------
(* prune() and the types *)

\* What prune() keeps: the number of jobs, their names, and every job that
\* has not finished; a finished one is unchanged or forgotten.
LEMMA PrunedKeeps ==
    ASSUME jobs \in Seq(Job), NEW k \in Nat
    PROVE  /\ Pruned(k) \in Seq(Job)
           /\ Len(Pruned(k)) = Len(jobs)
           /\ \A i \in 1..Len(jobs) :
                /\ Pruned(k)[i].name = jobs[i].name
                /\ Pruned(k)[i].replace = jobs[i].replace
                /\ Pruned(k)[i].finished = jobs[i].finished
                /\ \/ Pruned(k)[i].state = jobs[i].state
                   \/ Pruned(k)[i].state = "forgotten" /\ jobs[i].finished
<1>1. \A i \in 1..Len(jobs) : jobs[i] \in Job
  OBVIOUS
<1>2. \A i \in 1..Len(jobs) : Pruned(k)[i] \in Job
  BY <1>1 DEF Pruned, Job
<1>3. Pruned(k) \in [1..Len(jobs) -> Job]
  BY <1>2 DEF Pruned
<1>4. Pruned(k) \in Seq(Job) /\ Len(Pruned(k)) = Len(jobs)
  BY <1>3
<1> QED
  BY <1>1, <1>4 DEF Pruned, Job

\* The initial states satisfy the invariant.
LEMMA InitIInv == Init => IInv
<1> SUFFICES ASSUME Init PROVE IInv
  OBVIOUS
<1>1. TypeOK
  <2>1. zips \in [Folders -> [Names -> Nat \cup {NoZip}]]
    BY DEF Init, Handmade
  <2>2. folder \in 1..(NumFolders + 1)
    BY BoundsAssumption DEF Init
  <2>3. jobs \in Seq(Job) /\ queue \in Seq(Nat \ {0})
    BY DEF Init
  <2> QED
    BY <2>1, <2>2, <2>3 DEF Init, TypeOK
<1>2. QueueInv /\ CurrentInv /\ OthersInv /\ OneJobPerName /\ WakeMatchesQueue
  BY DEF Init, QueueInv, CurrentInv, OthersInv, OneJobPerName, WakeMatchesQueue
<1>3. ZipsInv
  BY DEF Init, ZipsInv, Handmade, NoZip
<1>4. DoneMeansPublished
  BY DEF Init, DoneMeansPublished
<1> QED
  BY <1>1, <1>2, <1>3, <1>4 DEF IInv
-----------------------------------------------------------------------------
(* create() *)

\* An acceptance appends one waiting job to both lists.
LEMMA AcceptIInv ==
    ASSUME IInv, NEW k \in 0..Len(jobs), Accept(k)
    PROVE  IInv'
<1> USE DEF IInv
<1> DEFINE new == [name |-> request.name, replace |-> request.replace,
                   state |-> "queued", finished |-> FALSE]
<1>1. /\ Pruned(k) \in Seq(Job)
      /\ Len(Pruned(k)) = Len(jobs)
      /\ \A i \in 1..Len(jobs) :
            /\ Pruned(k)[i].name = jobs[i].name
            /\ Pruned(k)[i].finished = jobs[i].finished
            /\ \/ Pruned(k)[i].state = jobs[i].state
               \/ Pruned(k)[i].state = "forgotten" /\ jobs[i].finished
  BY PrunedKeeps DEF TypeOK
<1>2. request \in Request /\ new \in Job
  BY DEF Accept, TypeOK, Request, Job, Active
<1>3. /\ wake' /\ request' = NoRequest
      /\ UNCHANGED <<worker, current, folder, zips>>
  BY DEF Accept, workerVars
<1>4. /\ jobs' \in Seq(Job) /\ Len(jobs) \in Nat /\ Len(jobs') = Len(jobs) + 1
      /\ \A i \in 1..Len(jobs) :
            /\ jobs'[i].name = jobs[i].name
            /\ jobs'[i].finished = jobs[i].finished
            /\ \/ jobs'[i].state = jobs[i].state
               \/ jobs'[i].state = "forgotten" /\ jobs[i].finished
      /\ jobs'[Len(jobs) + 1].name = request.name
      /\ jobs'[Len(jobs) + 1].state = "queued"
      /\ jobs'[Len(jobs) + 1].finished = FALSE
      /\ \A i \in 1..Len(jobs') : i \in 1..Len(jobs) \/ i = Len(jobs) + 1
  <2>1. jobs' = Append(Pruned(k), new)
    BY DEF Accept
  <2>2. /\ jobs' \in Seq(Job) /\ Len(jobs') = Len(jobs) + 1
        /\ \A i \in 1..Len(jobs) : jobs'[i] = Pruned(k)[i]
        /\ jobs'[Len(jobs) + 1] = new
    BY <1>1, <1>2, <2>1
  <2>3. Len(jobs) \in Nat
    BY DEF TypeOK
  <2>4. \A i \in 1..Len(jobs') : i \in 1..Len(jobs) \/ i = Len(jobs) + 1
    BY <2>2, <2>3
  <2>5. \A i \in 1..Len(jobs) :
            /\ jobs'[i].name = jobs[i].name
            /\ jobs'[i].finished = jobs[i].finished
            /\ \/ jobs'[i].state = jobs[i].state
               \/ jobs'[i].state = "forgotten" /\ jobs[i].finished
    BY <1>1, <2>2
  <2> QED
    BY <2>2, <2>3, <2>4, <2>5
<1>5. /\ queue' \in Seq(Nat \ {0}) /\ Len(queue') = Len(queue) + 1
      /\ \A i \in 1..Len(queue) : queue'[i] = queue[i]
      /\ queue'[Len(queue) + 1] = Len(jobs) + 1
      /\ Len(queue) \in Nat
  <2>1. queue' = Append(queue, Len(jobs) + 1)
    BY DEF Accept, NewJob
  <2> QED
    BY <2>1, <1>4 DEF TypeOK
<1>6. TypeOK'
  BY <1>3, <1>4, <1>5 DEF TypeOK
<1>7. QueueInv'
  BY <1>3, <1>4, <1>5 DEF QueueInv, TypeOK
<1>8. CurrentInv'
  BY <1>3, <1>4 DEF CurrentInv, QueueInv, TypeOK, Active, Ended
<1>9. OthersInv'
  <2> SUFFICES ASSUME NEW i \in 1..Len(jobs')
      PROVE  /\ i > current => jobs'[i].state = "queued" /\ ~jobs'[i].finished
             /\ i < current => jobs'[i].state \notin Active /\ jobs'[i].finished
    BY <1>3 DEF OthersInv
  <2>1. CASE i \in 1..Len(jobs)
    BY <1>4, <2>1 DEF OthersInv, Active
  <2>2. CASE i = Len(jobs) + 1
    BY <1>4, <2>2 DEF QueueInv, TypeOK
  <2> QED
    BY <1>4, <2>1, <2>2
<1>10. OneJobPerName'
  <2>1. \A i \in 1..Len(jobs) :
            jobs[i].name = request.name => jobs[i].state \notin Active
    BY DEF Accept, BeingMade
  <2>2. \A i \in 1..Len(jobs) :
            jobs'[i].state \in Active => jobs'[i].state = jobs[i].state
    BY <1>4 DEF Active
  <2> QED
    BY <1>4, <2>1, <2>2 DEF OneJobPerName
<1>11. WakeMatchesQueue'
  BY <1>3, <1>5 DEF WakeMatchesQueue
<1>12. ZipsInv'
  <2>1. worker = "publishing" => current \in 1..Len(jobs)
    BY DEF CurrentInv, QueueInv, TypeOK
  <2> QED
    BY <1>3, <1>4, <2>1 DEF ZipsInv
<1>13. DoneMeansPublished'
  BY <1>3, <1>4 DEF DoneMeansPublished, TypeOK
<1> QED
  BY <1>6, <1>7, <1>8, <1>9, <1>10, <1>11, <1>12, <1>13

\* A request turned away changes nothing but what prune() forgets.
LEMMA TurnAwayIInv ==
    ASSUME IInv, NEW k \in 0..Len(jobs), TurnAway(k)
    PROVE  IInv'
<1> USE DEF IInv
<1>1. /\ Pruned(k) \in Seq(Job)
      /\ Len(Pruned(k)) = Len(jobs)
      /\ \A i \in 1..Len(jobs) :
            /\ Pruned(k)[i].name = jobs[i].name
            /\ Pruned(k)[i].finished = jobs[i].finished
            /\ \/ Pruned(k)[i].state = jobs[i].state
               \/ Pruned(k)[i].state = "forgotten" /\ jobs[i].finished
  BY PrunedKeeps DEF TypeOK
<1>2. /\ jobs' = Pruned(k) /\ request' = NoRequest
      /\ UNCHANGED <<queue, wake, worker, current, folder, zips>>
  BY DEF TurnAway, workerVars
<1>3. TypeOK'
  BY <1>1, <1>2 DEF TypeOK
<1>4. QueueInv' /\ WakeMatchesQueue'
  BY <1>1, <1>2 DEF QueueInv, WakeMatchesQueue
<1>5. CurrentInv'
  BY <1>1, <1>2 DEF CurrentInv, QueueInv, TypeOK, Active, Ended
<1>6. OthersInv'
  BY <1>1, <1>2 DEF OthersInv, QueueInv, TypeOK, Active
<1>7. OneJobPerName'
  BY <1>1, <1>2 DEF OneJobPerName, TypeOK, Active
<1>8. ZipsInv'
  <2>1. worker = "publishing" => current \in 1..Len(jobs)
    BY DEF CurrentInv, QueueInv, TypeOK
  <2> QED
    BY <1>1, <1>2, <2>1 DEF ZipsInv
<1>9. DoneMeansPublished'
  BY <1>1, <1>2 DEF DoneMeansPublished, TypeOK
<1> QED
  BY <1>3, <1>4, <1>5, <1>6, <1>7, <1>8, <1>9

\* The checks before the lock touch only the request.
LEMMA CheckIInv ==
    ASSUME IInv, \/ \E n \in Names, replace \in BOOLEAN : Check(n, replace)
                 \/ Unreadable
    PROVE  IInv'
<1>1. /\ request' \in Request \cup {NoRequest}
      /\ UNCHANGED <<jobs, queue, wake, worker, current, folder, zips>>
  BY DEF Check, Unreadable, Request, workerVars
<1> QED
  BY <1>1 DEF IInv, TypeOK, QueueInv, CurrentInv, OthersInv, OneJobPerName,
              WakeMatchesQueue, ZipsInv, DoneMeansPublished

-----------------------------------------------------------------------------
(* worker() and run() *)

\* Writing the current job's record changes no other job.
LEMMA UpdateKeeps ==
    ASSUME jobs \in Seq(Job), current \in 1..Len(jobs), NEW job \in Job,
           job.name = jobs[current].name,
           jobs' = [jobs EXCEPT ![current] = job]
    PROVE  /\ jobs' \in Seq(Job)
           /\ Len(jobs') = Len(jobs)
           /\ \A i \in 1..Len(jobs) : jobs'[i].name = jobs[i].name
           /\ \A i \in 1..Len(jobs) : i # current => jobs'[i] = jobs[i]
           /\ jobs'[current] = job
OBVIOUS

\* SetState is such a change.
LEMMA SetStateKeeps ==
    ASSUME jobs \in Seq(Job), current \in 1..Len(jobs),
           NEW s \in Active \cup Ended, SetState(s)
    PROVE  /\ jobs' \in Seq(Job)
           /\ Len(jobs') = Len(jobs)
           /\ \A i \in 1..Len(jobs) : jobs'[i].name = jobs[i].name
           /\ \A i \in 1..Len(jobs) : i # current => jobs'[i] = jobs[i]
           /\ jobs'[current].state = s
           /\ jobs'[current].finished = jobs[current].finished
<1> DEFINE job == [jobs[current] EXCEPT !.state = s]
<1>1. jobs[current] \in Job
  OBVIOUS
<1>2. /\ job \in Job /\ job.name = jobs[current].name
      /\ job.state = s /\ job.finished = jobs[current].finished
  BY <1>1 DEF Job
<1>3. jobs' = [jobs EXCEPT ![current] = job]
  BY DEF SetState
<1> QED
  <2> HIDE DEF job
  <2> QED
    BY <1>2, <1>3, UpdateKeeps

\* So is the clean-up, which also sets the finished flag.
LEMMA CleanUpKeeps ==
    ASSUME jobs \in Seq(Job), current \in 1..Len(jobs),
           NEW s \in Active \cup Ended,
           jobs' = [jobs EXCEPT ![current].state = s, ![current].finished = TRUE]
    PROVE  /\ jobs' \in Seq(Job)
           /\ Len(jobs') = Len(jobs)
           /\ \A i \in 1..Len(jobs) : jobs'[i].name = jobs[i].name
           /\ \A i \in 1..Len(jobs) : i # current => jobs'[i] = jobs[i]
           /\ jobs'[current].state = s
           /\ jobs'[current].finished
<1> DEFINE job == [jobs[current] EXCEPT !.state = s, !.finished = TRUE]
<1>1. jobs[current] \in Job
  OBVIOUS
<1>2. /\ job \in Job /\ job.name = jobs[current].name
      /\ job.state = s /\ job.finished
  BY <1>1 DEF Job
<1>3. jobs' = [jobs EXCEPT ![current] = job]
  OBVIOUS
<1> QED
  <2> HIDE DEF job
  <2> QED
    BY <1>2, <1>3, UpdateKeeps

\* Away from "waiting" the worker holds a job that exists.
LEMMA CurrentExists ==
    ASSUME IInv, worker # "waiting"
    PROVE  current \in 1..Len(jobs) /\ jobs \in Seq(Job)
BY DEF IInv, CurrentInv, QueueInv, TypeOK

\* Taking the head of the queue makes it the current job.
LEMMA TakeIInv ==
    ASSUME IInv, Take
    PROVE  IInv'
<1> USE DEF IInv
<1>1. queue # <<>> /\ worker = "waiting"
  BY DEF Take, WakeMatchesQueue
<1>2. /\ current' = Head(queue) /\ queue' = Tail(queue) /\ worker' = "taken"
      /\ wake' = (Len(queue) > 1)
      /\ UNCHANGED <<jobs, request, folder, zips>>
  BY <1>1 DEF Take, WakeStays
<1>3. /\ Len(queue) \in Nat \ {0} /\ Len(jobs) \in Nat
      /\ current' = current + 1 /\ current' \in 1..Len(jobs)
      /\ Len(queue') = Len(queue) - 1
      /\ queue' \in Seq(Nat \ {0})
      /\ \A k \in 1..Len(queue') : queue'[k] = queue[k + 1]
  BY <1>1, <1>2 DEF QueueInv, TypeOK
<1>4. TypeOK'
  BY <1>2, <1>3 DEF TypeOK
<1>5. QueueInv'
  BY <1>2, <1>3 DEF QueueInv, TypeOK
<1>6. CurrentInv'
  BY <1>2, <1>3 DEF CurrentInv, OthersInv, TypeOK
<1>7. OthersInv'
  BY <1>1, <1>2, <1>3 DEF OthersInv, CurrentInv, TypeOK
<1>8. OneJobPerName' /\ DoneMeansPublished'
  BY <1>2 DEF OneJobPerName, DoneMeansPublished
<1>9. WakeMatchesQueue'
  <2>1. queue' # <<>> <=> Len(queue') # 0
    BY <1>3
  <2>2. Len(queue) > 1 <=> Len(queue') # 0
    BY <1>3
  <2>3. wake' <=> Len(queue) > 1
    BY <1>2
  <2> QED
    BY <2>1, <2>2, <2>3 DEF WakeMatchesQueue
<1>10. ZipsInv'
  BY <1>2, <1>3 DEF ZipsInv, TypeOK, NoZip
<1> QED
  BY <1>4, <1>5, <1>6, <1>7, <1>8, <1>9, <1>10

\* Starting the current job, the only place where a job becomes running.
LEMMA StartIInv ==
    ASSUME IInv, Start
    PROVE  IInv'
<1> USE DEF IInv
<1>1. /\ worker = "taken" /\ worker' = "exporting" /\ SetState("running")
      /\ UNCHANGED <<queue, wake, request, current, folder, zips>>
  BY DEF Start
<1>2. current \in 1..Len(jobs) /\ jobs \in Seq(Job)
  BY <1>1, CurrentExists
<1>3. /\ jobs' \in Seq(Job) /\ Len(jobs') = Len(jobs)
      /\ \A i \in 1..Len(jobs) : jobs'[i].name = jobs[i].name
      /\ \A i \in 1..Len(jobs) : i # current => jobs'[i] = jobs[i]
      /\ jobs'[current].state = "running"
      /\ jobs'[current].finished = jobs[current].finished
  BY <1>1, <1>2, SetStateKeeps DEF Active
<1>4. TypeOK'
  BY <1>1, <1>3 DEF TypeOK
<1>5. QueueInv' /\ WakeMatchesQueue'
  BY <1>1, <1>3 DEF QueueInv, WakeMatchesQueue
<1>6. CurrentInv'
  BY <1>1, <1>3 DEF CurrentInv
<1>7. OthersInv'
  BY <1>1, <1>3 DEF OthersInv, TypeOK
<1>8. OneJobPerName'
  <2>1. jobs[current].state \in Active
    BY <1>1 DEF CurrentInv, Active
  <2> QED
    BY <1>2, <1>3, <2>1 DEF OneJobPerName
<1>9. ZipsInv'
  BY <1>1, <1>3 DEF ZipsInv
<1>10. DoneMeansPublished'
  BY <1>1, <1>3 DEF DoneMeansPublished
<1> QED
  BY <1>4, <1>5, <1>6, <1>7, <1>8, <1>9, <1>10

\* The export either leads to publishing, or ends the job.
LEMMA ExportWorksIInv ==
    ASSUME IInv, ExportWorks
    PROVE  IInv'
<1> USE DEF IInv
<1>1. /\ worker = "exporting" /\ worker' = "publishing" /\ folder' = 1
      /\ UNCHANGED <<jobs, queue, wake, request, current, zips>>
  BY DEF ExportWorks
<1>2. TypeOK'
  BY <1>1, BoundsAssumption DEF TypeOK
<1>3. QueueInv' /\ CurrentInv' /\ OthersInv'
  BY <1>1 DEF QueueInv, CurrentInv, OthersInv
<1>4. OneJobPerName' /\ WakeMatchesQueue' /\ DoneMeansPublished'
  BY <1>1 DEF OneJobPerName, WakeMatchesQueue, DoneMeansPublished
<1>5. ZipsInv'
  BY <1>1, BoundsAssumption DEF ZipsInv, Folders
<1> QED
  BY <1>2, <1>3, <1>4, <1>5

\* A failure, of the export or of a copy, ends the current job as "error".
LEMMA FailIInv ==
    ASSUME IInv, ExportFails \/ PublishFails
    PROVE  IInv'
<1> USE DEF IInv
<1>1. /\ worker \in {"exporting", "publishing"} /\ worker' = "cleaning"
      /\ SetState("error")
      /\ UNCHANGED <<queue, wake, request, current, folder, zips>>
  BY DEF ExportFails, PublishFails
<1>2. current \in 1..Len(jobs) /\ jobs \in Seq(Job)
  BY <1>1, CurrentExists
<1>3. /\ jobs' \in Seq(Job) /\ Len(jobs') = Len(jobs)
      /\ \A i \in 1..Len(jobs) : jobs'[i].name = jobs[i].name
      /\ \A i \in 1..Len(jobs) : i # current => jobs'[i] = jobs[i]
      /\ jobs'[current].state = "error"
      /\ jobs'[current].finished = jobs[current].finished
  BY <1>1, <1>2, SetStateKeeps DEF Ended
<1>4. TypeOK'
  BY <1>1, <1>3 DEF TypeOK
<1>5. QueueInv' /\ WakeMatchesQueue'
  BY <1>1, <1>3 DEF QueueInv, WakeMatchesQueue
<1>6. CurrentInv'
  BY <1>1, <1>3 DEF CurrentInv, Ended
<1>7. OthersInv'
  BY <1>1, <1>3 DEF OthersInv, TypeOK
<1>8. OneJobPerName'
  BY <1>3 DEF OneJobPerName, Active
<1>9. ZipsInv'
  BY <1>1, <1>3 DEF ZipsInv
<1>10. DoneMeansPublished'
  BY <1>1, <1>3 DEF DoneMeansPublished
<1> QED
  BY <1>4, <1>5, <1>6, <1>7, <1>8, <1>9, <1>10

\* A publication puts the current job's number, the largest, in one folder.
LEMMA PublishIInv ==
    ASSUME IInv, PublishToNext
    PROVE  IInv'
<1> USE DEF IInv
<1>1. /\ worker = "publishing" /\ folder \in Folders /\ folder' = folder + 1
      /\ zips' = [zips EXCEPT ![folder][jobs[current].name] = current]
      /\ UNCHANGED <<jobs, queue, wake, request, worker, current>>
  BY DEF PublishToNext
<1>2. current \in 1..Len(jobs) /\ \A i \in 1..Len(jobs) : jobs[i].name \in Names
  <2>1. current \in 1..Len(jobs) /\ jobs \in Seq(Job)
    BY <1>1, CurrentExists
  <2>2. \A i \in 1..Len(jobs) : jobs[i] \in Job
    BY <2>1
  <2> QED
    BY <2>1, <2>2 DEF Job
<1>3. zips \in [Folders -> [Names -> Nat \cup {NoZip}]]
  BY DEF TypeOK
<1>4. zips' \in [Folders -> [Names -> Nat \cup {NoZip}]]
  BY <1>1, <1>2, <1>3 DEF TypeOK
<1>5. \A d \in Folders, n \in Names :
        zips'[d][n] = IF d = folder /\ n = jobs[current].name THEN current ELSE zips[d][n]
  BY <1>1, <1>2, <1>3
<1>6. TypeOK'
  BY <1>1, <1>4, BoundsAssumption DEF TypeOK, Folders
<1>7. QueueInv' /\ CurrentInv' /\ OthersInv' /\ OneJobPerName' /\ WakeMatchesQueue'
  BY <1>1 DEF QueueInv, CurrentInv, OthersInv, OneJobPerName, WakeMatchesQueue
<1>8. ZipsInv'
  <2>1. \A d \in Folders, n \in Names : zips'[d][n] <= current
    BY <1>2, <1>5 DEF ZipsInv
  <2>2. \A d \in Folders : d < folder + 1 => zips'[d][jobs[current].name] = current
    BY <1>1, <1>2, <1>5 DEF ZipsInv, Folders, TypeOK
  <2> QED
    BY <1>1, <2>1, <2>2 DEF ZipsInv
<1>9. DoneMeansPublished'
  <2> SUFFICES ASSUME NEW i \in 1..Len(jobs), jobs[i].state = "done", NEW d \in Folders
      PROVE  zips'[d][jobs[i].name] >= i
    BY <1>1 DEF DoneMeansPublished
  <2>1. i < current
    <3>1. i # current
      BY <1>1 DEF CurrentInv
    <3>2. ~(i > current)
      BY DEF OthersInv
    <3> QED
      BY <1>2, <3>1, <3>2
  <2>2. zips[d][jobs[i].name] >= i
    BY DEF DoneMeansPublished
  <2> QED
    BY <1>2, <1>5, <2>1, <2>2
<1> QED
  BY <1>6, <1>7, <1>8, <1>9

\* Past the last folder every folder holds the current job's ZIP.
LEMMA PublishedIInv ==
    ASSUME IInv, Published
    PROVE  IInv'
<1> USE DEF IInv
<1>1. /\ worker = "publishing" /\ worker' = "cleaning" /\ SetState("done")
      /\ folder > NumFolders
      /\ UNCHANGED <<queue, wake, request, current, folder, zips>>
  BY DEF Published, AllFoldersDone
<1>2. current \in 1..Len(jobs) /\ jobs \in Seq(Job)
  BY <1>1, CurrentExists
<1>3. /\ jobs' \in Seq(Job) /\ Len(jobs') = Len(jobs)
      /\ \A i \in 1..Len(jobs) : jobs'[i].name = jobs[i].name
      /\ \A i \in 1..Len(jobs) : i # current => jobs'[i] = jobs[i]
      /\ jobs'[current].state = "done"
      /\ jobs'[current].finished = jobs[current].finished
  BY <1>1, <1>2, SetStateKeeps DEF Ended
<1>4. TypeOK'
  BY <1>1, <1>3 DEF TypeOK
<1>5. QueueInv' /\ WakeMatchesQueue'
  BY <1>1, <1>3 DEF QueueInv, WakeMatchesQueue
<1>6. CurrentInv'
  BY <1>1, <1>3 DEF CurrentInv, Ended
<1>7. OthersInv'
  BY <1>1, <1>3 DEF OthersInv, TypeOK
<1>8. OneJobPerName'
  BY <1>3 DEF OneJobPerName, Active
<1>9. ZipsInv'
  BY <1>1, <1>3 DEF ZipsInv
<1>10. DoneMeansPublished'
  <2>1. \A d \in Folders : zips[d][jobs[current].name] = current
    BY <1>1, BoundsAssumption DEF ZipsInv, Folders, TypeOK
  <2> QED
    BY <1>1, <1>2, <1>3, <2>1 DEF DoneMeansPublished
<1> QED
  BY <1>4, <1>5, <1>6, <1>7, <1>8, <1>9, <1>10

\* The end of a job, with the state it had or "error".
LEMMA CleanUpIInv ==
    ASSUME IInv, NEW s \in Ended, CleanUp(s)
    PROVE  IInv'
<1> USE DEF IInv
<1>1. /\ worker = "cleaning" /\ worker' = "waiting" /\ s \in {jobs[current].state, "error"}
      /\ jobs' = [jobs EXCEPT ![current].state = s, ![current].finished = TRUE]
      /\ UNCHANGED <<queue, wake, request, current, folder, zips>>
  BY DEF CleanUp
<1>2. current \in 1..Len(jobs) /\ jobs \in Seq(Job)
  BY <1>1, CurrentExists
<1>3. /\ jobs' \in Seq(Job) /\ Len(jobs') = Len(jobs)
      /\ \A i \in 1..Len(jobs) : jobs'[i].name = jobs[i].name
      /\ \A i \in 1..Len(jobs) : i # current => jobs'[i] = jobs[i]
      /\ jobs'[current].state = s
      /\ jobs'[current].finished
  BY <1>1, <1>2, CleanUpKeeps
<1>4. TypeOK'
  BY <1>1, <1>3 DEF TypeOK
<1>5. QueueInv' /\ WakeMatchesQueue'
  BY <1>1, <1>3 DEF QueueInv, WakeMatchesQueue
<1>6. CurrentInv'
  BY <1>1, <1>3 DEF CurrentInv, Ended, Active
<1>7. OthersInv'
  BY <1>1, <1>3 DEF OthersInv, TypeOK
<1>8. OneJobPerName'
  BY <1>3 DEF OneJobPerName, Active, Ended
<1>9. ZipsInv'
  BY <1>1, <1>3 DEF ZipsInv
<1>10. DoneMeansPublished'
  BY <1>1, <1>2, <1>3 DEF DoneMeansPublished
<1> QED
  BY <1>4, <1>5, <1>6, <1>7, <1>8, <1>9, <1>10

-----------------------------------------------------------------------------
(* The theorems *)

\* The invariant is inductive.
LEMMA NextIInv == IInv /\ [Next]_vars => IInv'
<1> SUFFICES ASSUME IInv, [Next]_vars PROVE IInv'
  OBVIOUS
<1>1. CASE Create
  BY <1>1, CheckIInv, TurnAwayIInv, AcceptIInv DEF Create
<1>2. CASE Worker
  BY <1>2, TakeIInv, StartIInv, ExportWorksIInv, FailIInv, PublishIInv,
     PublishedIInv, CleanUpIInv DEF Worker
<1>3. CASE UNCHANGED vars
  BY <1>3 DEF vars, IInv, TypeOK, QueueInv, CurrentInv, OthersInv, OneJobPerName,
              WakeMatchesQueue, ZipsInv, DoneMeansPublished
<1> QED
  BY <1>1, <1>2, <1>3 DEF Next

\* Every reachable state of the maker satisfies the invariant.
THEOREM Invariance == Spec => []IInv
BY InitIInv, NextIInv, PTL DEF Spec

\* Every variable keeps its type, at any size of the instance.
THEOREM TypeCorrect == Spec => []TypeOK
<1>1. IInv => TypeOK
  BY DEF IInv
<1> QED
  BY <1>1, Invariance, PTL

\* No two jobs of one name are ever waiting or running together, so no two
\* runs of the maker write the same <name>.zip or its .part file.
THEOREM NamesAreExclusive == Spec => []OneJobPerName
<1>1. IInv => OneJobPerName
  BY DEF IInv
<1> QED
  BY <1>1, Invariance, PTL

\* The event is set exactly when a job waits: no accepted job is left in the
\* line with the worker asleep.
THEOREM NoLostWakeup == Spec => []WakeMatchesQueue
<1>1. IInv => WakeMatchesQueue
  BY DEF IInv
<1> QED
  BY <1>1, Invariance, PTL

\* A job reported as done is in every folder, or a later one replaced it.
THEOREM DoneIsPublished == Spec => []DoneMeansPublished
<1>1. IInv => DoneMeansPublished
  BY DEF IInv
<1> QED
  BY <1>1, Invariance, PTL

-----------------------------------------------------------------------------
(* The maker keeps the promise of AvatarJobs *)

\* The mapped state has the shape AvatarJobs works with, and its active jobs
\* are the ones the maker has in an active state.
LEMMA Mapping ==
    ASSUME IInv
    PROVE  /\ Len(AcceptedNames) = Len(jobs) /\ Len(jobs) \in Nat
           /\ EndedJobs \in Nat /\ EndedJobs <= current /\ current <= Len(jobs)
           /\ \A i \in (EndedJobs + 1)..Len(jobs) :
                i \in 1..Len(jobs) /\ jobs[i].state \in Active
<1> USE DEF IInv
<1>1. AcceptedNames \in Seq(Names) /\ Len(AcceptedNames) = Len(jobs) /\ Len(jobs) \in Nat
  <2>1. \A i \in 1..Len(jobs) : jobs[i] \in Job
    BY DEF TypeOK
  <2>2. AcceptedNames \in [1..Len(jobs) -> Names]
    BY <2>1 DEF AcceptedNames, Job
  <2> QED
    BY <2>2 DEF TypeOK, AcceptedNames
<1>2. EndedJobs \in Nat /\ EndedJobs <= current /\ current <= Len(jobs)
  BY DEF EndedJobs, QueueInv, TypeOK
<1>3. \A i \in 1..Len(jobs) : i > current => jobs[i].state \in Active
  BY DEF OthersInv, Active
<1>4. current \notin (EndedJobs + 1)..Len(jobs) \/ jobs[current].state \in Active
  BY DEF EndedJobs, TypeOK
<1>5. \A i \in (EndedJobs + 1)..Len(jobs) : i >= current
  BY <1>1 DEF EndedJobs, TypeOK
<1>6. ASSUME NEW i \in (EndedJobs + 1)..Len(jobs)
      PROVE  i \in 1..Len(jobs) /\ jobs[i].state \in Active
  <2>1. i \in 1..Len(jobs) /\ i >= current
    BY <1>1, <1>2, <1>5
  <2>2. CASE i = current
    BY <1>4, <2>1, <2>2
  <2>3. CASE i > current
    BY <1>3, <2>1, <2>3
  <2> QED
    BY <2>1, <2>2, <2>3, <1>1 DEF TypeOK
<1> QED
  BY <1>1, <1>2, <1>6

\* The initial states map to the initial state of the promise.
LEMMA InitPromise == Init => Promise!Init
BY DEF Init, Promise!Init, AcceptedNames, EndedJobs

\* A step that keeps the number of jobs and their names keeps their list.
LEMMA SameNames ==
    ASSUME Len(jobs') = Len(jobs), \A i \in 1..Len(jobs) : jobs'[i].name = jobs[i].name
    PROVE  AcceptedNames' = AcceptedNames
BY DEF AcceptedNames

\* Accepting a request is the promise's Accept.
LEMMA AcceptPromise ==
    ASSUME IInv, NEW k \in 0..Len(jobs), Accept(k)
    PROVE  \E n \in Names : Promise!Accept(n)
<1> USE DEF IInv
<1> DEFINE new == [name |-> request.name, replace |-> request.replace,
                   state |-> "queued", finished |-> FALSE]
<1>1. /\ Pruned(k) \in Seq(Job)
      /\ Len(Pruned(k)) = Len(jobs)
      /\ \A i \in 1..Len(jobs) : Pruned(k)[i].name = jobs[i].name
  <2>1. jobs \in Seq(Job) /\ k \in Nat
    BY DEF TypeOK
  <2> HIDE DEF IInv, new
  <2> QED
    BY <2>1, PrunedKeeps, Zenon
<1>2. request.name \in Names /\ new \in Job
  BY DEF Accept, TypeOK, Request, Job, Active
<1>3. /\ jobs' = Append(Pruned(k), new) /\ Len(jobs) \in Nat
      /\ UNCHANGED current
  BY DEF Accept, workerVars, TypeOK
<1>4. /\ Len(jobs') = Len(jobs) + 1
      /\ \A i \in 1..Len(jobs) : jobs'[i] = Pruned(k)[i]
      /\ jobs'[Len(jobs) + 1] = new
  BY <1>1, <1>2, <1>3
<1>5. AcceptedNames' = Append(AcceptedNames, request.name)
  <2>1. AcceptedNames' = [i \in 1..(Len(jobs) + 1) |-> jobs'[i].name]
    BY <1>4 DEF AcceptedNames
  <2>2. /\ Len(AcceptedNames) = Len(jobs)
        /\ Append(AcceptedNames, request.name)
             = [i \in 1..(Len(jobs) + 1) |->
                 IF i <= Len(jobs) THEN AcceptedNames[i] ELSE request.name]
    BY <1>3, Mapping DEF AcceptedNames
  <2>3. \A i \in 1..(Len(jobs) + 1) :
          jobs'[i].name = IF i <= Len(jobs) THEN AcceptedNames[i] ELSE request.name
    BY <1>1, <1>3, <1>4 DEF AcceptedNames
  <2> QED
    BY <2>1, <2>2, <2>3
<1>6. EndedJobs' = EndedJobs
  <2>1. CurrentInv' /\ CurrentInv
    BY AcceptIInv
  <2>2. worker' = worker
    BY DEF Accept, workerVars
  <2>3. current > 0 => (jobs'[current].state \in Active <=> jobs[current].state \in Active)
    BY <2>1, <2>2, <1>3 DEF CurrentInv, Active, Ended, TypeOK
  <2> QED
    BY <2>3, <1>3 DEF EndedJobs
<1>7. Len(AcceptedNames) - current < MaxQueue
  BY Mapping, BoundsAssumption DEF Accept, LineIsFull, QueueInv, TypeOK
<1>8. request.name \notin Promise!ActiveNames
  <2> SUFFICES ASSUME NEW i \in (EndedJobs + 1)..Len(AcceptedNames)
      PROVE  AcceptedNames[i] # request.name
    BY DEF Promise!ActiveNames
  <2>1. i \in 1..Len(jobs) /\ jobs[i].state \in Active
    BY Mapping
  <2> QED
    BY <2>1 DEF Accept, BeingMade, AcceptedNames
<1> QED
  BY <1>2, <1>3, <1>5, <1>6, <1>7, <1>8 DEF Promise!Accept

\* Every step of the maker is a step of the promise or a stutter.
LEMMA StepPromise ==
    ASSUME IInv, [Next]_vars
    PROVE  [Promise!Next]_(Promise!vars)
<1> USE DEF IInv
<1>1. ASSUME NEW k \in 0..Len(jobs), Accept(k)
      PROVE  Promise!Next
  BY <1>1, AcceptPromise DEF Promise!Next
<1>2. ASSUME NEW k \in 0..Len(jobs), TurnAway(k)
      PROVE  UNCHANGED Promise!vars
  <2>1. /\ jobs' = Pruned(k) /\ UNCHANGED <<worker, current>>
    BY <1>2 DEF TurnAway, workerVars
  <2>2. AcceptedNames' = AcceptedNames
    BY <2>1, PrunedKeeps, SameNames DEF TypeOK
  <2>3. CurrentInv' /\ CurrentInv
    BY <1>2, TurnAwayIInv
  <2>4. current > 0 => (jobs'[current].state \in Active <=> jobs[current].state \in Active)
    BY <2>1, <2>3 DEF CurrentInv, Active, Ended, TypeOK
  <2>5. EndedJobs' = EndedJobs
    BY <2>1, <2>4 DEF EndedJobs
  <2> QED
    BY <2>1, <2>2, <2>5 DEF Promise!vars
<1>3. CASE UNCHANGED <<jobs, current>>
  BY <1>3 DEF Promise!vars, AcceptedNames, EndedJobs
<1>4. CASE Take
  <2>1. IInv' /\ queue # <<>> /\ current' = Head(queue) /\ UNCHANGED jobs
    BY <1>4, TakeIInv DEF Take, WakeMatchesQueue
  <2>2. worker = "waiting" /\ worker' = "taken"
    BY <1>4, <2>1 DEF Take
  <2>3. current' = current + 1 /\ current < Len(jobs)
    BY <2>1 DEF QueueInv, TypeOK
  <2>4. EndedJobs = current
    BY <2>2 DEF EndedJobs, CurrentInv
  <2>5. EndedJobs' = current
    BY <2>1, <2>2, <2>3 DEF EndedJobs, CurrentInv, Active, TypeOK
  <2>6. AcceptedNames' = AcceptedNames
    BY <2>1 DEF AcceptedNames
  <2>7. Len(AcceptedNames) = Len(jobs)
    BY Mapping
  <2>8. Promise!Start
    BY <2>3, <2>4, <2>5, <2>6, <2>7 DEF Promise!Start
  <2> QED
    BY <2>8 DEF Promise!Next
<1>5. ASSUME worker # "waiting", NEW s \in Active \cup Ended,
             \/ SetState(s)
             \/ jobs' = [jobs EXCEPT ![current].state = s, ![current].finished = TRUE],
             UNCHANGED current
      PROVE  AcceptedNames' = AcceptedNames /\ jobs'[current].state = s /\ current > 0
  <2>1. current \in 1..Len(jobs) /\ jobs \in Seq(Job)
    BY <1>5, CurrentExists
  <2>2. /\ Len(jobs') = Len(jobs) /\ jobs'[current].state = s
        /\ \A i \in 1..Len(jobs) : jobs'[i].name = jobs[i].name
    BY <1>5, <2>1, SetStateKeeps, CleanUpKeeps
  <2> QED
    BY <2>1, <2>2, SameNames DEF TypeOK
<1>6. CASE Start
  <2>1. AcceptedNames' = AcceptedNames /\ jobs'[current].state = "running" /\ current > 0
    BY <1>5, <1>6 DEF Start, Active
  <2>2. EndedJobs' = EndedJobs /\ UNCHANGED current
    BY <1>6, <2>1 DEF Start, EndedJobs, CurrentInv, Active
  <2> QED
    BY <2>1, <2>2 DEF Promise!vars
<1>7. CASE ExportFails \/ PublishFails \/ Published
  <2>1. PICK s \in Ended : SetState(s)
    BY <1>7 DEF ExportFails, PublishFails, Published, Ended
  <2>2. worker \in {"exporting", "publishing"} /\ UNCHANGED current
    BY <1>7 DEF ExportFails, PublishFails, Published
  <2>3. AcceptedNames' = AcceptedNames /\ jobs'[current].state = s /\ current > 0
    BY <1>5, <2>1, <2>2
  <2>4. EndedJobs = current - 1
    BY <2>2, <2>3 DEF EndedJobs, CurrentInv, Active
  <2>5. EndedJobs' = current
    BY <2>2, <2>3 DEF EndedJobs, Active, Ended
  <2>6. Promise!End
    BY <2>2, <2>3, <2>4, <2>5 DEF Promise!End, TypeOK
  <2> QED
    BY <2>6 DEF Promise!Next
<1>8. ASSUME NEW s \in Ended, CleanUp(s)
      PROVE  UNCHANGED Promise!vars
  <2>1. worker = "cleaning" /\ UNCHANGED current
    BY <1>8 DEF CleanUp
  <2>2. AcceptedNames' = AcceptedNames /\ jobs'[current].state = s /\ current > 0
    BY <1>5, <1>8, <2>1 DEF CleanUp
  <2>3. EndedJobs' = EndedJobs
    BY <2>1, <2>2 DEF EndedJobs, CurrentInv, Active, Ended
  <2> QED
    BY <2>1, <2>2, <2>3 DEF Promise!vars
<1>9. CASE Create
  <2>1. CASE UNCHANGED <<jobs, current>>
    BY <1>3, <2>1
  <2> QED
    BY <1>1, <1>2, <1>9, <2>1 DEF Create, Check, Unreadable, workerVars
<1>10. CASE Worker
  <2>1. CASE ExportWorks \/ PublishToNext
    BY <1>3, <2>1 DEF ExportWorks, PublishToNext
  <2> QED
    BY <1>4, <1>6, <1>7, <1>8, <1>10, <2>1 DEF Worker
<1>11. CASE UNCHANGED vars
  BY <1>3, <1>11 DEF vars
<1> QED
  BY <1>9, <1>10, <1>11 DEF Next

\* The maker implements AvatarJobs: one avatar is made at a time, at most
\* MaxQueue wait, they start in the order accepted, and no name is accepted
\* while it is being made, for every size of the instance.
THEOREM Implements == Spec => KeepsPromise
<1>1. Init /\ [][Next]_vars => KeepsPromise
  BY InitPromise, StepPromise, InitIInv, NextIInv, PTL DEF KeepsPromise
<1> QED
  BY <1>1, PTL DEF Spec
=============================================================================
