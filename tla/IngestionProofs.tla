-------------------------- MODULE IngestionProofs --------------------------
(***************************************************************************)
(* Proofs about the ingestion service: the queue of extractions, for any   *)
(* number of jobs, threads and servers that start, stop and die on one     *)
(* directory; and the journal of paid calls, for any number of threads,    *)
(* processes, requests, attempts and waits: what a request costs.          *)
(***************************************************************************)
EXTENDS JobStore, Journal, FiniteSetTheorems, TLAPS

-----------------------------------------------------------------------------
(***************************************************************************)
(* The queue of extractions.  The lock file singles out one server, all    *)
(* threads that exist are its own, so a recovery, which runs when no       *)
(* server holds the lock, takes no job away.                               *)
(***************************************************************************)
OneServer == \A s \in Servers : phase[s] # "down" => lock = s

ThreadsOfServer ==
    \A w \in Workers : worker[w].at # "off" => phase[ServerOf[w]] # "down"

JobsOfThreads ==
    \A w \in Workers :
        /\ worker[w].at \in {"off", "loop", "claiming"} => worker[w].job = NoJob
        /\ worker[w].at \in Holding => worker[w].job \in Jobs
        /\ worker[w].at = "saved" => worker[w].job \in saved

JobsInv ==
    /\ JobsTypeOK
    /\ OneServer
    /\ ThreadsOfServer
    /\ JobsOfThreads
    /\ OneWorkerPerJob
    /\ RunningIsSomeones
    /\ CompletedHasResult

LEMMA JobsInitially == JobsInit => JobsInv
  BY JobStoreAssumption DEF JobsInit, JobsInv, JobsTypeOK, OneServer, ThreadsOfServer, JobsOfThreads,
     OneWorkerPerJob, RunningIsSomeones, CompletedHasResult, Statuses, Threads, At, Holding

LEMMA JobsStepType == JobsInv /\ [JobsNext]_jobVars => JobsTypeOK'
  <1> SUFFICES ASSUME JobsInv, [JobsNext]_jobVars PROVE JobsTypeOK'
    OBVIOUS
  <1> USE JobStoreAssumption DEF JobsInv, JobsTypeOK, Statuses, Threads, At, Moves, Threaded
  <1>1. ASSUME NEW s \in Servers, Start(s) PROVE JobsTypeOK'
    BY <1>1 DEF Start, Recovered
  <1>2. ASSUME NEW s \in Servers, Close(s) \/ Closed(s) \/ Die(s) PROVE JobsTypeOK'
    BY <1>2 DEF Close, Closed, Die
  <1>3. ASSUME NEW s \in Servers, NEW B \in SUBSET Jobs, Submit(s, B) PROVE JobsTypeOK'
    BY <1>3 DEF Submit
  <1>4. ASSUME NEW w \in Workers, Loop(w) \/ ClaimNone(w) \/ ClaimRaises(w)
        PROVE  JobsTypeOK'
    BY <1>4 DEF Loop, ClaimNone, ClaimRaises
  <1>5. ASSUME NEW w \in Workers, Claim(w) PROVE JobsTypeOK'
    BY <1>5 DEF Claim, NextJobs
  <1>6. ASSUME NEW w \in Workers, Extract(w) \/ Raise(w) \/ FinishRaises(w)
        PROVE  JobsTypeOK'
    BY <1>6 DEF Extract, Raise, FinishRaises, JobsOfThreads, Holding
  <1>7. ASSUME NEW w \in Workers, Finish(w) PROVE JobsTypeOK'
    BY <1>7 DEF Finish
  <1>8. CASE UNCHANGED jobVars
    BY <1>8 DEF jobVars
  <1> QED
    BY <1>1, <1>2, <1>3, <1>4, <1>5, <1>6, <1>7, <1>8 DEF JobsNext, Works

-----------------------------------------------------------------------------
(* The life of a server.                                                   *)

LEMMA AllOff ==
    ASSUME JobsInv, lock = NoServer
    PROVE  \A w \in Workers : worker[w].at = "off"
  BY JobStoreAssumption DEF JobsInv, OneServer, ThreadsOfServer

LEMMA StartKeeps ==
    ASSUME JobsInv, JobsTypeOK', NEW s \in Servers, Start(s)
    PROVE  JobsInv'
  <1> USE JobStoreAssumption DEF JobsInv, JobsTypeOK, Start, Locks, Threaded, At
  <1>1. \A w \in Workers :
           worker'[w] = IF ServerOf[w] = s THEN [at |-> "loop", job |-> NoJob]
                        ELSE worker[w]
    OBVIOUS
  <1>2. \A w \in Workers : worker'[w].at \in {"off", "loop"} /\ worker'[w].job = NoJob
    BY <1>1, AllOff DEF JobsOfThreads
  <1>3. \A j \in Jobs : status'[j] # "RUNNING"
    BY DEF Recovered
  <1>4. OneServer'
    BY DEF OneServer
  <1>5. ThreadsOfServer'
    BY <1>1, AllOff DEF ThreadsOfServer
  <1>6. JobsOfThreads' /\ OneWorkerPerJob'
    BY <1>2 DEF JobsOfThreads, OneWorkerPerJob, Holding
  <1>7. RunningIsSomeones' /\ CompletedHasResult'
    BY <1>3 DEF RunningIsSomeones, CompletedHasResult, Recovered
  <1> QED
    BY <1>4, <1>5, <1>6, <1>7

LEMMA CloseKeeps ==
    ASSUME JobsInv, JobsTypeOK', NEW s \in Servers, Close(s)
    PROVE  JobsInv'
  <1> USE DEF JobsInv, JobsTypeOK, Close
  <1>1. OneServer' /\ ThreadsOfServer'
    BY JobStoreAssumption DEF OneServer, ThreadsOfServer
  <1>2. JobsOfThreads' /\ OneWorkerPerJob' /\ RunningIsSomeones' /\ CompletedHasResult'
    BY DEF JobsOfThreads, OneWorkerPerJob, RunningIsSomeones, CompletedHasResult
  <1> QED
    BY <1>1, <1>2

\* A server stops, in whatever way: its lock and its threads are gone.
LEMMA StopKeeps ==
    ASSUME JobsInv, JobsTypeOK', NEW s \in Servers, Closed(s) \/ Die(s)
    PROVE  JobsInv'
  <1> USE JobStoreAssumption DEF JobsInv, JobsTypeOK, Closed, Die, Threaded, At
  <1>1. lock = s /\ lock' = NoServer /\ UNCHANGED <<status, saved>>
    BY DEF OneServer
  <1>2. \A w \in Workers :
           worker'[w] = IF ServerOf[w] = s THEN [at |-> "off", job |-> NoJob]
                        ELSE worker[w]
    OBVIOUS
  <1>3. \A w \in Workers : worker'[w].at = "off" /\ worker'[w].job = NoJob
    BY <1>1, <1>2 DEF OneServer, ThreadsOfServer, JobsOfThreads
  <1>4. OneServer'
    BY <1>1 DEF OneServer
  <1>5. ThreadsOfServer' /\ JobsOfThreads' /\ OneWorkerPerJob'
    BY <1>3 DEF ThreadsOfServer, JobsOfThreads, OneWorkerPerJob, Holding
  <1>6. RunningIsSomeones' /\ CompletedHasResult'
    BY <1>1 DEF RunningIsSomeones, CompletedHasResult
  <1> QED
    BY <1>4, <1>5, <1>6

LEMMA SubmitKeeps ==
    ASSUME JobsInv, JobsTypeOK', NEW s \in Servers, NEW B \in SUBSET Jobs, Submit(s, B)
    PROVE  JobsInv'
  <1> USE DEF JobsInv, JobsTypeOK, Submit
  <1>1. OneServer' /\ ThreadsOfServer' /\ JobsOfThreads'
    BY DEF OneServer, ThreadsOfServer, JobsOfThreads
  <1>2. OneWorkerPerJob'
    BY DEF OneWorkerPerJob, JobsOfThreads
  <1>3. RunningIsSomeones' /\ CompletedHasResult'
    BY DEF RunningIsSomeones, CompletedHasResult
  <1> QED
    BY <1>1, <1>2, <1>3

-----------------------------------------------------------------------------
(* The loop of a worker.                                                   *)

\* What every step of a thread leaves to show: its effect on the jobs.
LEMMA ThreadKeeps ==
    ASSUME JobsInv, JobsTypeOK', NEW w \in Workers, Works(w)
    PROVE  OneServer' /\ ThreadsOfServer'
  <1>1. /\ worker[w].at # "off" /\ UNCHANGED <<phase, lock>>
        /\ \A v \in Workers \ {w} : worker'[v] = worker[v]
    BY DEF Works, Loop, Claim, ClaimNone, ClaimRaises, Extract, Raise, Finish,
       FinishRaises, Moves, JobsInv, JobsTypeOK
  <1> QED
    BY <1>1, JobStoreAssumption DEF JobsInv, JobsTypeOK, OneServer, ThreadsOfServer

\* A thread that has no job before the step and none after it.
LEMMA IdleKeeps ==
    ASSUME JobsInv, JobsTypeOK', NEW w \in Workers,
           Loop(w) \/ ClaimNone(w) \/ ClaimRaises(w)
    PROVE  JobsInv'
  <1> USE DEF JobsInv, JobsTypeOK
  <1>1. /\ worker[w].job = NoJob /\ worker'[w].job = NoJob
        /\ worker'[w].at \in {"off", "loop", "claiming", "dead"}
        /\ \A v \in Workers \ {w} : worker'[v] = worker[v]
        /\ UNCHANGED <<status, saved, lock>>
    BY DEF Loop, ClaimNone, ClaimRaises, Moves, At, JobsOfThreads
  <1>2. OneServer' /\ ThreadsOfServer'
    BY ThreadKeeps DEF Works
  <1>3. JobsOfThreads' /\ OneWorkerPerJob'
    BY <1>1 DEF JobsOfThreads, OneWorkerPerJob, Holding
  <1>4. RunningIsSomeones'
    BY <1>1 DEF RunningIsSomeones
  <1>5. CompletedHasResult'
    BY <1>1 DEF CompletedHasResult
  <1> QED
    BY <1>2, <1>3, <1>4, <1>5

LEMMA ClaimKeeps ==
    ASSUME JobsInv, JobsTypeOK', NEW w \in Workers, Claim(w)
    PROVE  JobsInv'
  <1> USE JobStoreAssumption DEF JobsInv, JobsTypeOK
  <1>1. PICK j \in Jobs :
           /\ status[j] = "QUEUED"
           /\ status' = [status EXCEPT ![j] = "RUNNING"]
           /\ worker' = [worker EXCEPT ![w] = At("extracting", j)]
    BY DEF Claim, NextJobs, Moves
  <1>2. /\ worker'[w].at = "extracting" /\ worker'[w].job = j
        /\ \A v \in Workers \ {w} : worker'[v] = worker[v]
        /\ UNCHANGED <<saved, lock, phase>>
    BY <1>1 DEF Claim, At
  <1>3. OneServer' /\ ThreadsOfServer'
    BY ThreadKeeps DEF Works
  <1>4. JobsOfThreads'
    BY <1>1, <1>2 DEF JobsOfThreads, Holding
  <1>5. OneWorkerPerJob'
    BY <1>1, <1>2 DEF JobsOfThreads, OneWorkerPerJob, Holding
  <1>6. ServerOf[w] = lock /\ worker[w].job = NoJob
    BY DEF Claim, OneServer, ThreadsOfServer, JobsOfThreads
  <1>7. RunningIsSomeones'
    BY <1>1, <1>2, <1>6 DEF RunningIsSomeones
  <1>8. CompletedHasResult'
    BY <1>1, <1>2 DEF CompletedHasResult
  <1> QED
    BY <1>3, <1>4, <1>5, <1>7, <1>8

LEMMA HoldingKeeps ==
    ASSUME JobsInv, JobsTypeOK', NEW w \in Workers,
           Extract(w) \/ Raise(w) \/ FinishRaises(w)
    PROVE  JobsInv'
  <1> USE DEF JobsInv, JobsTypeOK
  <1>1. /\ worker[w].at \in Holding /\ worker'[w].job = worker[w].job
        /\ worker'[w].at \in {"saved", "raised", "dead"}
        /\ worker'[w].at = "saved" => worker[w].job \in saved'
        /\ saved \subseteq saved'
        /\ \A v \in Workers \ {w} : worker'[v] = worker[v]
        /\ UNCHANGED <<status, lock>>
    BY DEF Extract, Raise, FinishRaises, Moves, At, Holding
  <1>2. OneServer' /\ ThreadsOfServer'
    BY ThreadKeeps DEF Works
  <1>3. JobsOfThreads' /\ OneWorkerPerJob'
    BY <1>1 DEF JobsOfThreads, OneWorkerPerJob, Holding
  <1>4. RunningIsSomeones'
    BY <1>1 DEF RunningIsSomeones
  <1>5. CompletedHasResult'
    BY <1>1 DEF CompletedHasResult
  <1> QED
    BY <1>2, <1>3, <1>4, <1>5

LEMMA FinishKeeps ==
    ASSUME JobsInv, JobsTypeOK', NEW w \in Workers, Finish(w)
    PROVE  JobsInv'
  <1> DEFINE j == worker[w].job
  <1> USE DEF JobsInv, JobsTypeOK
  <1>1. /\ worker[w].at \in Holding /\ j \in Jobs
        /\ status'[j] \in Finished /\ (status'[j] = "COMPLETED" => j \in saved)
        /\ \A i \in Jobs \ {j} : status'[i] = status[i]
        /\ worker'[w].at = "loop" /\ worker'[w].job = NoJob
        /\ \A v \in Workers \ {w} : worker'[v] = worker[v]
        /\ UNCHANGED <<saved, lock>>
    BY DEF Finish, Moves, At, Holding, JobsOfThreads, Finished
  <1>2. OneServer' /\ ThreadsOfServer'
    BY ThreadKeeps DEF Works
  <1>3. JobsOfThreads'
    BY <1>1 DEF JobsOfThreads, Holding
  <1>4. OneWorkerPerJob'
    BY <1>1 DEF JobsOfThreads, OneWorkerPerJob, Holding
  <1>5. RunningIsSomeones'
    BY <1>1 DEF RunningIsSomeones, Finished
  <1>6. CompletedHasResult'
    BY <1>1 DEF CompletedHasResult
  <1> QED
    BY <1>2, <1>3, <1>4, <1>5, <1>6

LEMMA JobsKept == JobsInv /\ [JobsNext]_jobVars => JobsInv'
  <1> SUFFICES ASSUME JobsInv, [JobsNext]_jobVars PROVE JobsInv'
    OBVIOUS
  <1>1. JobsTypeOK'
    BY JobsStepType
  <1>2. CASE UNCHANGED jobVars
    BY <1>2 DEF jobVars, JobsInv, JobsTypeOK, OneServer, ThreadsOfServer, JobsOfThreads,
       OneWorkerPerJob, RunningIsSomeones, CompletedHasResult
  <1>3. ASSUME NEW w \in Workers, Works(w) PROVE JobsInv'
    BY <1>1, <1>3, IdleKeeps, ClaimKeeps, HoldingKeeps, FinishKeeps DEF Works
  <1> QED
    BY <1>1, <1>2, <1>3, StartKeeps, CloseKeeps, StopKeeps, SubmitKeeps DEF JobsNext

LEMMA JobsInvariance == JobsSpec => []JobsInv
  BY JobsInitially, JobsKept, PTL DEF JobsSpec

-----------------------------------------------------------------------------
\* The types, whatever starts, stops and fails.
THEOREM JobsTyped == JobsSpec => []JobsTypeOK
  <1>1. JobsInv => JobsTypeOK
    BY DEF JobsInv
  <1> QED
    BY <1>1, JobsInvariance, PTL

\* Why the lock file is needed: with it, recover never takes a job from a
\* thread that lives, and claim never hands one to two.
THEOREM JobHasOneWorker == JobsSpec => []OneWorkerPerJob
  <1>1. JobsInv => OneWorkerPerJob
    BY DEF JobsInv
  <1> QED
    BY <1>1, JobsInvariance, PTL

\* recover leaves no job running that nobody works on.
THEOREM NoJobIsLost == JobsSpec => []RunningIsSomeones
  <1>1. JobsInv => RunningIsSomeones
    BY DEF JobsInv
  <1> QED
    BY <1>1, JobsInvariance, PTL

\* The order of save and finish: what a batch reports completed can be fetched.
THEOREM CompletedCanBeFetched == JobsSpec => []CompletedHasResult
  <1>1. JobsInv => CompletedHasResult
    BY DEF JobsInv
  <1> QED
    BY <1>1, JobsInvariance, PTL

\* A batch that was reported finished stays finished.
THEOREM EndedStays == JobsSpec => EndedForGood
  <1>1. ASSUME JobsInv, [JobsNext]_jobVars, NEW j \in Jobs, status[j] \in Finished
        PROVE  status'[j] = status[j]
    <2> USE <1>1 DEF JobsInv, JobsTypeOK, Finished
    <2>1. ASSUME NEW w \in Workers, Finish(w) PROVE status'[j] = status[j]
      <3>1. status[worker[w].job] = "RUNNING"
        BY <2>1 DEF Finish, OneWorkerPerJob, Holding
      <3> QED
        BY <2>1, <3>1 DEF Finish
    <2>2. ASSUME NEW w \in Workers, Claim(w) PROVE status'[j] = status[j]
      BY <2>2 DEF Claim, NextJobs
    <2>3. ASSUME NEW s \in Servers, Start(s) PROVE status'[j] = status[j]
      BY <2>3 DEF Start, Recovered
    <2>4. ASSUME NEW s \in Servers, NEW B \in SUBSET Jobs, Submit(s, B)
          PROVE  status'[j] = status[j]
      BY <2>4 DEF Submit
    <2> QED
      BY <2>1, <2>2, <2>3, <2>4 DEF JobsNext, Works, Close, Closed, Die, Loop,
         ClaimNone, ClaimRaises, Extract, Raise, FinishRaises, jobVars
  <1>2. JobsInv /\ [JobsNext]_jobVars =>
           [\A j \in Jobs : status[j] \in Finished => status'[j] = status[j]]_jobVars
    BY <1>1
  <1> QED
    BY <1>2, JobsInvariance, PTL DEF JobsSpec, EndedForGood

-----------------------------------------------------------------------------
(***************************************************************************)
(* Refinement: whatever servers do, the queue is the board of JobBoard.    *)
(* What a step does to the threads of one server, or to one thread, is a   *)
(* step of the board or changes nothing on it.                             *)
(***************************************************************************)
OnJob(j) == {w \in Workers : worker[w].at \in Holding /\ worker[w].job = j}

LEMMA DoingIs == Doing = [j \in Jobs |-> OnJob(j)] /\ Doing' = [j \in Jobs |-> OnJob(j)']
  BY DEF Doing, OnJob

\* Where only some threads change, the others stay on their jobs.
LEMMA OthersStay ==
    ASSUME NEW W \in SUBSET Workers, \A v \in Workers \ W : worker'[v] = worker[v],
           NEW j \in Jobs
    PROVE  OnJob(j)' \ W = OnJob(j) \ W
  BY DEF OnJob

LEMMA OneOnJob ==
    ASSUME JobsInv, NEW w \in Workers, worker[w].at \in Holding
    PROVE  worker[w].job \in Jobs /\ OnJob(worker[w].job) = {w}
           /\ status[worker[w].job] = "RUNNING"
  BY DEF JobsInv, JobsOfThreads, OneWorkerPerJob, OnJob

\* A thread that has nothing before and after its step.
LEMMA NothingDone ==
    ASSUME JobsInv, NEW w \in Workers, worker[w].at \notin Holding, worker'[w].at \notin Holding,
           \A v \in Workers \ {w} : worker'[v] = worker[v]
    PROVE  Doing' = Doing
  <1>1. ASSUME NEW j \in Jobs PROVE OnJob(j)' = OnJob(j)
    BY DEF OnJob
  <1> QED
    BY <1>1, DoingIs

LEMMA InitialBoard == JobsInit => Board!Init
  BY JobStoreAssumption DEF JobsInit, Board!Init, Board!Nobody, Doing, At, Holding

LEMMA StartIsRecovery ==
    ASSUME JobsInv, NEW s \in Servers, Start(s)
    PROVE  Board!Recover
  <1>1. \A w \in Workers : worker[w].at = "off"
    BY AllOff DEF Start, Locks
  <1>2. \A w \in Workers : worker'[w] = worker[w] \/ worker'[w].at = "loop"
    BY DEF Start, Threaded, At, JobsInv, JobsTypeOK
  <1>3. \A j \in Jobs : OnJob(j) = {} /\ OnJob(j)' = {}
    BY <1>1, <1>2 DEF OnJob, Holding
  <1>4. Doing = Board!Nobody /\ Doing' = Doing
    BY <1>3, DoingIs DEF Board!Nobody
  <1>5. /\ status' = [j \in Jobs |-> IF status[j] = "RUNNING" THEN "QUEUED" ELSE status[j]]
        /\ UNCHANGED <<batch, batches, saved>>
    BY DEF Start, Recovered
  <1> QED
    BY <1>4, <1>5 DEF Board!Recover

LEMMA StopIsVanishing ==
    ASSUME JobsInv, NEW s \in Servers, Closed(s) \/ Die(s)
    PROVE  Board!Vanish({w \in Workers : ServerOf[w] = s})
  <1> DEFINE W == {w \in Workers : ServerOf[w] = s}
  <1>1. /\ \A w \in W : worker'[w].at = "off"
        /\ \A w \in Workers \ W : worker'[w] = worker[w]
        /\ UNCHANGED <<status, batch, batches, saved>>
    BY DEF Closed, Die, Threaded, At
  <1> HIDE DEF W
  <1>2. ASSUME NEW j \in Jobs PROVE OnJob(j)' = OnJob(j) \ W
    BY <1>1 DEF OnJob, Holding
  <1>3. Doing' = [j \in Jobs |-> Doing[j] \ W]
    BY <1>2, DoingIs
  <1>4. Board!Vanish(W)
    BY <1>1, <1>3 DEF Board!Vanish
  <1> QED
    BY <1>4 DEF W

LEMMA SameCount == \A S : Board!Cardinality(S) = Cardinality(S)
  BY Zenon DEF Board!Cardinality, Cardinality

LEMMA SubmitIsSubmission ==
    ASSUME NEW s \in Servers, NEW B \in SUBSET Jobs, Submit(s, B)
    PROVE  Board!Submit(B)
  <1>1. Pending = Board!Unfinished
    BY DEF Pending, Unfinished, Board!Unfinished
  <1>2. Doing' = Doing
    BY DEF Submit, Doing
  <1> QED
    <2>1. B # {} /\ (\A j \in B : status[j] = "NEW") /\ UNCHANGED saved
          /\ Board!Cardinality(Board!Unfinished) + Board!Cardinality(B) <= Limit
      <3>1. Cardinality(Board!Unfinished) + Cardinality(B) <= Limit
        BY <1>1 DEF Submit, Fits
      <3> QED
        BY <3>1, SameCount DEF Submit
    <2>2. /\ batches' = batches + 1
          /\ status' = [j \in Jobs |-> IF j \in B THEN "QUEUED" ELSE status[j]]
          /\ batch' = [j \in Jobs |-> IF j \in B THEN batches' ELSE batch[j]]
      BY DEF Submit
    <2>3. UNCHANGED <<saved, Doing>>
      BY <1>2, <2>1
    <2> QED
      BY <2>1, <2>2, <2>3, Zenon DEF Board!Submit

LEMMA ClaimIsTaking ==
    ASSUME JobsInv, NEW w \in Workers, Claim(w)
    PROVE  \E j \in Jobs : Board!Take(w, j)
  <1>1. PICK j \in NextJobs :
           /\ status' = [status EXCEPT ![j] = "RUNNING"]
           /\ worker' = [worker EXCEPT ![w] = At("extracting", j)]
           /\ UNCHANGED <<batch, batches, saved>>
    BY DEF Claim, Moves
  <1>2. j \in Jobs /\ status[j] = "QUEUED"
        /\ \A i \in Jobs : status[i] = "QUEUED" => batch[j] <= batch[i]
    BY DEF NextJobs
  <1>3. j \in Board!Waiting /\ \A i \in Board!Waiting : batch[j] <= batch[i]
    BY <1>2 DEF Board!Waiting
  <1>4. /\ worker[w].at \notin Holding /\ worker'[w].at \in Holding /\ worker'[w].job = j
        /\ \A v \in Workers \ {w} : worker'[v] = worker[v]
    BY <1>1 DEF Claim, At, Holding, JobsInv, JobsTypeOK
  <1>5. \A i \in Jobs : w \notin OnJob(i)
    BY <1>4 DEF OnJob
  <1>6. OnJob(j) = {}
    BY <1>2, OneOnJob DEF OnJob
  <1>7. ASSUME NEW i \in Jobs PROVE OnJob(i)' = IF i = j THEN {w} ELSE OnJob(i)
    BY <1>4, <1>6 DEF OnJob
  <1>8. Doing' = [Doing EXCEPT ![j] = {w}]
    BY <1>7, DoingIs
  <1>9. Doing[j] = {} /\ \A i \in Jobs : w \notin Doing[i]
    BY <1>2, <1>5, <1>6, DoingIs
  <1> QED
    BY <1>1, <1>2, <1>3, <1>8, <1>9 DEF Board!Take

LEMMA ThreadIsWorker ==
    ASSUME JobsInv, NEW w \in Workers, Works(w)
    PROVE  [Board!Next]_Board!boardVars
  <1>1. ASSUME Loop(w) \/ ClaimNone(w) \/ ClaimRaises(w) PROVE UNCHANGED Board!boardVars
    <2>1. /\ worker[w].at \notin Holding /\ worker'[w].at \notin Holding
          /\ \A v \in Workers \ {w} : worker'[v] = worker[v]
      BY <1>1 DEF Loop, ClaimNone, ClaimRaises, Moves, At, Holding, JobsInv, JobsTypeOK
    <2>2. UNCHANGED <<status, batch, batches, saved>>
      BY <1>1 DEF Loop, ClaimNone, ClaimRaises
    <2> QED
      BY <2>1, <2>2, NothingDone DEF Board!boardVars
  <1>2. ASSUME Claim(w) PROVE Board!Next
    BY <1>2, ClaimIsTaking DEF Board!Next
  <1>3. ASSUME worker[w].at \in Holding PROVE Doing[worker[w].job] = {w} /\ worker[w].job \in Jobs
    BY <1>3, OneOnJob, DoingIs
  <1>4. ASSUME Extract(w) \/ Raise(w) PROVE Doing' = Doing /\ UNCHANGED <<status, batch, batches>>
    <2>1. /\ worker[w].at \in Holding /\ worker'[w].at \in Holding /\ worker'[w].job = worker[w].job
          /\ \A v \in Workers \ {w} : worker'[v] = worker[v]
          /\ UNCHANGED <<status, batch, batches>>
      BY <1>4 DEF Extract, Raise, Moves, At, Holding, JobsInv, JobsTypeOK
    <2>2. ASSUME NEW j \in Jobs PROVE OnJob(j)' = OnJob(j)
      BY <2>1 DEF OnJob
    <2> QED
      BY <2>1, <2>2, DoingIs
  <1>5. ASSUME Extract(w) PROVE Board!Next
    <2>1. worker[w].at \in Holding /\ saved' = saved \union {worker[w].job}
      BY <1>5 DEF Extract, Holding
    <2>2. Board!Store(w, worker[w].job)
      BY <1>3, <1>4, <1>5, <2>1 DEF Board!Store
    <2> QED
      BY <1>3, <2>1, <2>2 DEF Board!Next
  <1>6. ASSUME Raise(w) PROVE UNCHANGED Board!boardVars
    BY <1>4, <1>6 DEF Raise, Board!boardVars
  <1>7. ASSUME Finish(w) PROVE Board!Next
    <2> DEFINE j == worker[w].job
               end == IF worker[w].at = "saved" THEN "COMPLETED" ELSE "FAILED"
    <2>1. /\ worker[w].at \in Holding /\ j \in Jobs /\ status[j] = "RUNNING" /\ Doing[j] = {w}
          /\ end \in {"COMPLETED", "FAILED"}
          /\ end = "COMPLETED" => j \in saved
      BY <1>3, <1>7, OneOnJob DEF Finish, Holding, JobsInv, JobsOfThreads
    <2>2. status' = [status EXCEPT ![j] = end] /\ UNCHANGED <<batch, batches, saved>>
      BY <1>7 DEF Finish
    <2>3. /\ worker'[w].at \notin Holding
          /\ \A v \in Workers \ {w} : worker'[v] = worker[v]
      BY <1>7 DEF Finish, Moves, At, Holding, JobsInv, JobsTypeOK
    <2> HIDE DEF j, end
    <2>4. ASSUME NEW i \in Jobs PROVE OnJob(i)' = IF i = j THEN {} ELSE OnJob(i)
      <3>1. OnJob(j) = {w} /\ \A k \in Jobs \ {j} : w \notin OnJob(k)
        BY <2>1, DoingIs DEF OnJob, j
      <3> QED
        BY <2>3, <3>1 DEF OnJob
    <2>5. Doing' = [Doing EXCEPT ![j] = {}]
      BY <2>4, DoingIs
    <2>6. Board!End(w, j)
      <3>1. \E e \in {"COMPLETED", "FAILED"} :
               (e = "COMPLETED" => j \in saved) /\ status' = [status EXCEPT ![j] = e]
        BY <2>1, <2>2
      <3>2. UNCHANGED <<batch, batches, saved>>
        BY <2>2
      <3> QED
        BY <2>1, <2>5, <3>1, <3>2, Zenon DEF Board!End
    <2> QED
      BY <2>1, <2>6 DEF Board!Next
  <1>8. ASSUME FinishRaises(w) PROVE Board!Next
    <2>1. /\ worker'[w].at \notin Holding /\ UNCHANGED <<status, batch, batches, saved>>
          /\ \A v \in Workers \ {w} : worker'[v] = worker[v]
      BY <1>8 DEF FinishRaises, Moves, At, Holding, JobsInv, JobsTypeOK
    <2>2. ASSUME NEW j \in Jobs PROVE OnJob(j)' = OnJob(j) \ {w}
      BY <2>1 DEF OnJob
    <2>3. Doing' = [j \in Jobs |-> Doing[j] \ {w}]
      BY <2>2, DoingIs
    <2>4. Board!Vanish({w})
      BY <2>1, <2>3 DEF Board!Vanish
    <2> QED
      BY <2>4 DEF Board!Next
  <1> QED
    BY <1>1, <1>2, <1>5, <1>6, <1>7, <1>8 DEF Works

LEMMA StepIsOfBoard ==
    JobsInv /\ [JobsNext]_jobVars => [Board!Next]_Board!boardVars
  <1> SUFFICES ASSUME JobsInv, [JobsNext]_jobVars PROVE [Board!Next]_Board!boardVars
    OBVIOUS
  <1>1. ASSUME NEW s \in Servers, Start(s) PROVE Board!Next
    BY <1>1, StartIsRecovery DEF Board!Next
  <1>2. ASSUME NEW s \in Servers, Closed(s) \/ Die(s) PROVE Board!Next
    BY <1>2, StopIsVanishing DEF Board!Next
  <1>3. ASSUME NEW s \in Servers, NEW B \in SUBSET Jobs, Submit(s, B) PROVE Board!Next
    BY <1>3, SubmitIsSubmission DEF Board!Next
  <1>4. ASSUME UNCHANGED <<status, batch, batches, saved, worker>> PROVE UNCHANGED Board!boardVars
    BY <1>4 DEF Board!boardVars, Doing
  <1>5. ASSUME NEW s \in Servers, Close(s) PROVE UNCHANGED Board!boardVars
    BY <1>4, <1>5 DEF Close
  <1>6. ASSUME UNCHANGED jobVars PROVE UNCHANGED Board!boardVars
    BY <1>4, <1>6 DEF jobVars
  <1> QED
    BY <1>1, <1>2, <1>3, <1>5, <1>6, ThreadIsWorker DEF JobsNext

\* The queue, over servers, a lock file, threads and crashes, is the board.
THEOREM QueueRefinesBoard == JobsSpec => QueueIsBoard
  <1>1. JobsInit => Board!Init
    BY InitialBoard
  <1> QED
    BY <1>1, StepIsOfBoard, JobsInvariance, PTL DEF JobsSpec, QueueIsBoard, Board!Spec

-----------------------------------------------------------------------------
(***************************************************************************)
(* What the board promises follows from the board alone: these lemmas use  *)
(* nothing of servers and threads, and never open Doing.                   *)
(***************************************************************************)
BoardTyped == status \in [Jobs -> Board!Statuses] /\ Doing \in [Jobs -> SUBSET Workers]

Orderly == Board!OneWorkerEach /\ Board!CompletedIsStored

BoardInv == BoardTyped /\ Orderly /\ Board!WithinLimit

LEMMA BoardInitially == Board!Init => BoardInv
  <1> SUFFICES ASSUME Board!Init PROVE BoardInv
    OBVIOUS
  <1>1. BoardTyped
    BY DEF BoardTyped, Board!Init, Board!Statuses, Board!Nobody
  <1>2. Board!Unfinished = {}
    BY DEF Board!Init, Board!Unfinished
  <1>3. Board!WithinLimit
    BY <1>2, SameCount, FS_EmptySet, JobStoreAssumption DEF Board!WithinLimit
  <1>4. Orderly
    BY DEF Orderly, Board!OneWorkerEach, Board!CompletedIsStored, Board!Init, Board!Nobody
  <1> QED
    BY <1>1, <1>3, <1>4 DEF BoardInv

\* Only a submission adds to what is unfinished, and it looks at the limit.
LEMMA BoardLimit ==
    ASSUME BoardInv, Board!Next
    PROVE  Board!WithinLimit'
  <1> DEFINE U == Board!Unfinished
  <1>1. IsFiniteSet(U) /\ Cardinality(U) \in Nat /\ Cardinality(U) <= Limit
    <2>1. U \subseteq Jobs
      BY DEF Board!Unfinished
    <2>2. Cardinality(U) <= Limit
      BY SameCount DEF BoardInv, Board!WithinLimit
    <2> HIDE DEF U
    <2> QED
      BY <2>1, <2>2, JobStoreAssumption, FS_Subset, FS_CardinalityType
  <1>2. CASE U' \subseteq U
    <2> HIDE DEF U
    <2>1. Cardinality(U') \in Nat /\ Cardinality(U') <= Cardinality(U)
      BY <1>1, <1>2, FS_Subset, FS_CardinalityType
    <2> QED
      BY <1>1, <2>1, SameCount, JobStoreAssumption DEF U, Board!WithinLimit
  <1>3. ASSUME NEW B \in SUBSET Jobs, Board!Submit(B)
        PROVE  Board!WithinLimit'
    <2>1. U' = U \union B
      BY <1>3 DEF Board!Submit, Board!Unfinished, BoardInv, BoardTyped
    <2>2. Cardinality(U) + Cardinality(B) <= Limit
      BY <1>3, SameCount DEF Board!Submit
    <2> HIDE DEF U
    <2>3. IsFiniteSet(B) /\ Cardinality(B) \in Nat
      BY JobStoreAssumption, FS_Subset, FS_CardinalityType
    <2>4. IsFiniteSet(U \intersect B) /\ Cardinality(U \intersect B) \in Nat
      BY <1>1, FS_Intersection, FS_CardinalityType
    <2>5. Cardinality(U \union B) = Cardinality(U) + Cardinality(B) - Cardinality(U \intersect B)
      BY <1>1, <2>3, FS_Union
    <2>6. Cardinality(U') <= Limit
      BY <1>1, <2>1, <2>2, <2>3, <2>4, <2>5, JobStoreAssumption
    <2> QED
      BY <2>6, SameCount DEF U, Board!WithinLimit
  <1>4. ASSUME NEW w \in Workers, NEW j \in Jobs,
               Board!Take(w, j) \/ Board!Store(w, j) \/ Board!End(w, j)
        PROVE  U' \subseteq U
    BY <1>4 DEF Board!Take, Board!Store, Board!End, Board!Waiting, Board!Unfinished,
         BoardInv, BoardTyped
  <1>5. ASSUME Board!Recover PROVE U' \subseteq U
    BY <1>5 DEF Board!Recover, Board!Unfinished
  <1>6. ASSUME NEW gone \in SUBSET Workers, Board!Vanish(gone) PROVE U' \subseteq U
    BY <1>6 DEF Board!Vanish, Board!Unfinished
  <1> QED
    BY <1>2, <1>3, <1>4, <1>5, <1>6 DEF Board!Next

LEMMA WorkersKeep ==
    ASSUME BoardTyped, Orderly, NEW w \in Workers, NEW j \in Jobs,
           Board!Take(w, j) \/ Board!Store(w, j) \/ Board!End(w, j)
    PROVE  BoardTyped' /\ Orderly'
  <1> USE DEF BoardTyped, Board!Statuses
  <1>1. CASE Board!Take(w, j)
    <2>1. /\ status[j] = "QUEUED" /\ \A i \in Jobs : w \notin Doing[i]
          /\ status' = [status EXCEPT ![j] = "RUNNING"] /\ Doing' = [Doing EXCEPT ![j] = {w}]
          /\ saved' = saved
      BY <1>1 DEF Board!Take, Board!Waiting
    <2>2. BoardTyped'
      BY <2>1
    <2>3. \A i \in Jobs : Doing'[i] = IF i = j THEN {w} ELSE Doing[i]
      BY <2>1
    <2>4. \A i \in Jobs : status'[i] = IF i = j THEN "RUNNING" ELSE status[i]
      BY <2>1
    <2> QED
      BY <2>1, <2>2, <2>3, <2>4 DEF Orderly, Board!OneWorkerEach, Board!CompletedIsStored
  <1>2. CASE Board!Store(w, j)
    BY <1>2 DEF Board!Store, Orderly, Board!OneWorkerEach, Board!CompletedIsStored
  <1>3. CASE Board!End(w, j)
    <2>1. PICK end \in {"COMPLETED", "FAILED"} :
             (end = "COMPLETED" => j \in saved) /\ status' = [status EXCEPT ![j] = end]
      BY <1>3 DEF Board!End
    <2>2. Doing[j] = {w} /\ Doing' = [Doing EXCEPT ![j] = {}] /\ saved' = saved
      BY <1>3 DEF Board!End
    <2>3. BoardTyped'
      BY <2>1, <2>2
    <2>4. \A i \in Jobs : Doing'[i] = IF i = j THEN {} ELSE Doing[i]
      BY <2>2
    <2>5. \A i \in Jobs : status'[i] = IF i = j THEN end ELSE status[i]
      BY <2>1
    <2> QED
      BY <2>1, <2>2, <2>3, <2>4, <2>5 DEF Orderly, Board!OneWorkerEach, Board!CompletedIsStored
  <1> QED
    BY <1>1, <1>2, <1>3

LEMMA BoardStep == BoardInv /\ [Board!Next]_Board!boardVars => BoardInv'
  <1> SUFFICES ASSUME BoardInv, [Board!Next]_Board!boardVars PROVE BoardInv'
    OBVIOUS
  <1>1. BoardTyped /\ Orderly
    BY DEF BoardInv
  <1>2. CASE UNCHANGED Board!boardVars
    BY <1>2 DEF Board!boardVars, BoardInv, BoardTyped, Orderly, Board!OneWorkerEach,
       Board!CompletedIsStored, Board!WithinLimit, Board!Unfinished
  <1>3. CASE Board!Next
    <2>1. Board!WithinLimit'
      BY <1>3, BoardLimit
    <2>2. ASSUME NEW B \in SUBSET Jobs, Board!Submit(B) PROVE BoardTyped' /\ Orderly'
      <3>1. /\ \A j \in B : status[j] = "NEW"
            /\ status' = [j \in Jobs |-> IF j \in B THEN "QUEUED" ELSE status[j]]
            /\ UNCHANGED <<saved, Doing>>
        BY <2>2, Zenon DEF Board!Submit
      <3> QED
        BY <1>1, <3>1 DEF BoardTyped, Orderly, Board!OneWorkerEach,
             Board!CompletedIsStored, Board!Statuses
    <2>3. ASSUME NEW gone \in SUBSET Workers, Board!Vanish(gone) PROVE BoardTyped' /\ Orderly'
      <3>1. /\ \A j \in Jobs : Doing'[j] = Doing[j] \ gone
            /\ Doing' = [j \in Jobs |-> Doing[j] \ gone] /\ UNCHANGED <<status, saved>>
        BY <2>3 DEF Board!Vanish
      <3>2. BoardTyped'
        BY <1>1, <3>1 DEF BoardTyped
      <3>3. ASSUME NEW j \in Jobs, NEW w \in Doing'[j]
            PROVE  /\ status'[j] = "RUNNING" /\ Doing'[j] = {w}
                   /\ \A i \in Jobs \ {j} : w \notin Doing'[i]
        <4>1. w \in Doing[j] /\ w \notin gone
          BY <3>1, <3>3
        <4>2. /\ status[j] = "RUNNING" /\ Doing[j] = {w}
              /\ \A i \in Jobs \ {j} : w \notin Doing[i]
          BY <1>1, <4>1 DEF Orderly, Board!OneWorkerEach, Board!CompletedIsStored
        <4> QED
          BY <3>1, <4>1, <4>2
      <3> QED
        BY <1>1, <3>1, <3>2, <3>3 DEF Orderly, Board!OneWorkerEach, Board!CompletedIsStored
    <2>4. ASSUME Board!Recover PROVE BoardTyped' /\ Orderly'
      <3>1. \A j \in Jobs : Doing'[j] = {}
        BY <2>4 DEF Board!Recover, Board!Nobody
      <3>2. /\ status' = [j \in Jobs |-> IF status[j] = "RUNNING" THEN "QUEUED" ELSE status[j]]
            /\ UNCHANGED <<saved, Doing>>
        BY <2>4 DEF Board!Recover
      <3> QED
        BY <1>1, <3>1, <3>2 DEF BoardTyped, Orderly, Board!OneWorkerEach,
             Board!CompletedIsStored, Board!Statuses
    <2>5. BoardTyped' /\ Orderly'
      BY <1>1, <1>3, <2>2, <2>3, <2>4, WorkersKeep DEF Board!Next
    <2> QED
      BY <2>1, <2>5 DEF BoardInv
  <1> QED
    BY <1>2, <1>3

\* Whatever implements the board keeps its order.
THEOREM BoardIsOrderly == QueueIsBoard => []Board!BoardKeepsOrder
  <1>1. BoardInv => Board!BoardKeepsOrder
    BY DEF BoardInv, Orderly, Board!BoardKeepsOrder
  <1> QED
    BY <1>1, BoardInitially, BoardStep, PTL DEF QueueIsBoard, Board!Spec

\* The queue keeps it because it is the board: nothing of this needs servers again.
THEOREM QueueKeepsOrder == JobsSpec => []Board!BoardKeepsOrder
  BY QueueRefinesBoard, BoardIsOrderly, PTL

\* The check in submit_batch bounds the queue at every limit, across restarts: it bounds the board.
THEOREM QueueBounded == JobsSpec => []QueueWithinLimit
  <1>1. Board!BoardKeepsOrder => QueueWithinLimit
    <2>1. Pending = Board!Unfinished
      BY DEF Pending, Unfinished, Board!Unfinished
    <2> QED
      BY <2>1, SameCount DEF Board!BoardKeepsOrder, Board!WithinLimit, QueueWithinLimit
  <1> QED
    BY <1>1, QueueKeepsOrder, PTL

-----------------------------------------------------------------------------
(***************************************************************************)
(* The journal of paid calls.  Between opening the file and writing the    *)
(* outcome a thread holds the lock of its request, so what it found when   *)
(* it opened the file, that the provider may take the request once more,   *)
(* still holds when it sends.                                              *)
(***************************************************************************)
Busy == {"opening", "queued", "sending", "replied"}

HoldsLock == \A c \in Callers : call[c].at \in Busy => holder[call[c].req] = c

FileOfHolder ==
    \A c \in Callers :
        /\ call[c].at = "opening" => record[call[c].req].state = "torn"
        /\ call[c].at \in {"queued", "sending", "replied"} =>
              record[call[c].req].state = "started"

\* The thread may still send, or what it sent was not taken.
Unspent(k) ==
    \/ k.at \in {"opening", "queued"}
    \/ k.at = "sending" /\ k.answer = 0
    \/ k.at = "replied" /\ k.reply \in {"busy", "refused"}

Licensed ==
    \A c \in Callers : Unspent(call[c]) =>
        accepted[call[c].req] + orphans[call[c].req] <= forced[call[c].req]

AnswersGiven ==
    \A c \in Callers :
        /\ call[c].at \in {"sending", "replied"} =>
              call[c].answer <= accepted[call[c].req]
        /\ call[c].at \in {"waiting", "opening", "queued", "sleeping"} =>
              call[c].answer = 0
        /\ call[c].at = "replied" =>
              /\ call[c].reply # "none"
              /\ call[c].reply = "answer" => call[c].answer # 0

Spent == \A r \in Requests : accepted[r] + orphans[r] <= 1 + forced[r]

IInv ==
    /\ TypeOK
    /\ HoldsLock
    /\ FileOfHolder
    /\ Licensed
    /\ AnswersGiven
    /\ Spent
    /\ RefusedMeansUnpaid
    /\ WaitsWithinBudget

-----------------------------------------------------------------------------
LEMMA WaitsAreNumbers ==
    ASSUME NEW attempt \in Nat \ {0}
    PROVE  Waits(attempt) \subseteq Nat
  <1>1. Exponential(attempt) \in Nat
    BY DEF Exponential
  <1> QED
    BY <1>1, JournalAssumption DEF Waits

LEMMA NewIsCall ==
    ASSUME NEW r \in Requests, NEW force \in BOOLEAN
    PROVE  NewCall(r, force) \in Calls
  BY JournalAssumption DEF NewCall, Calls

LEMMA OutcomeIsRecord ==
    ASSUME NEW c \in Callers, call[c] \in Calls
    PROVE  Outcome(c) \in Records
  BY DEF Outcome, Records, NewRecord, Calls

LEMMA InitType == Init => TypeOK
  BY JournalAssumption DEF Init, TypeOK, Records, NewRecord

LEMMA StepType == TypeOK /\ [Next]_vars => TypeOK'
  <1> SUFFICES ASSUME TypeOK, [Next]_vars PROVE TypeOK'
    OBVIOUS
  <1> USE JournalAssumption DEF TypeOK
  <1>0. ASSUME NEW c \in Callers, call[c].at # "idle" PROVE call[c] \in Calls
    BY <1>0 DEF Idle
  <1>1. ASSUME NEW c \in Callers, NEW r \in Requests, NEW force \in BOOLEAN,
               Begin(c, r, force)
        PROVE  TypeOK'
    BY <1>1, NewIsCall DEF Begin
  <1>2. ASSUME NEW c \in Callers, LockTimeout(c) \/ Settled(c)
        PROVE  TypeOK'
    BY <1>2 DEF LockTimeout, Settled, Ended
  <1>3. ASSUME NEW c \in Callers, Open(c) PROVE TypeOK'
    <2>1. call[c] \in Calls
      BY <1>0, <1>3 DEF Open
    <2>2. call' \in [Callers -> Calls \union {Idle}]
      BY <1>3, <2>1 DEF Open, Calls
    <2>3. record' \in [Requests -> Records]
      BY <1>3, <2>1 DEF Open, Calls, Records, NewRecord
    <2>4. forced' \in [Requests -> Nat]
      BY <1>3, <2>1 DEF Open, Calls
    <2>5. holder' \in [Requests -> Callers \union {NoCaller}]
      BY <1>3, <2>1 DEF Open, Calls
    <2> QED
      BY <1>3, <2>2, <2>3, <2>4, <2>5 DEF Open
  <1>4. ASSUME NEW c \in Callers, WriteStarted(c) PROVE TypeOK'
    <2>1. call[c] \in Calls
      BY <1>0, <1>4 DEF WriteStarted
    <2> QED
      BY <1>4, <2>1 DEF WriteStarted, Records, NewRecord, Calls
  <1>5. ASSUME NEW c \in Callers, WriteStartedFails(c) PROVE TypeOK'
    BY <1>5 DEF WriteStartedFails, Released, Ended
  <1>6. ASSUME NEW c \in Callers, TakeSlot(c) PROVE TypeOK'
    <2>1. call[c] \in Calls
      BY <1>0, <1>6 DEF TakeSlot
    <2> QED
      BY <1>6, <2>1 DEF TakeSlot, Calls
  <1>7. ASSUME NEW c \in Callers, Accept(c) PROVE TypeOK'
    <2>1. call[c] \in Calls
      BY <1>0, <1>7 DEF Accept
    <2> QED
      BY <1>7, <2>1 DEF Accept, Calls
  <1>8. ASSUME NEW r \in Requests, AcceptLate(r) PROVE TypeOK'
    BY <1>8 DEF AcceptLate
  <1>9. ASSUME NEW c \in Callers, NEW reply \in {"busy", "refused", "uncertain", "answer"},
               Reply(c, reply)
        PROVE  TypeOK'
    <2>1. call[c] \in Calls
      BY <1>0, <1>9 DEF Reply
    <2>2. orphans' \in [Requests -> Nat]
      BY <1>9 DEF Reply, Orphaned
    <2> QED
      BY <1>9, <2>1, <2>2 DEF Reply, Calls
  <1>10. ASSUME NEW c \in Callers, Record(c) PROVE TypeOK'
    <2>1. call[c] \in Calls
      BY <1>0, <1>10 DEF Record
    <2>2. record' \in [Requests -> Records]
      BY <1>10, <2>1, OutcomeIsRecord DEF Record
    <2>3. call' \in [Callers -> Calls \union {Idle}]
      <3>1. CASE Retry(c)
        <4>1. PICK wait \in Waits(call[c].attempt) :
                 call' = [call EXCEPT ![c].at = "sleeping", ![c].answer = 0,
                                      ![c].reply = "none", ![c].waited = @ + wait]
          BY <3>1 DEF Retry
        <4>2. wait \in Nat
          BY <2>1, WaitsAreNumbers DEF Calls
        <4>3. ASSUME NEW k \in Calls, NEW n \in Nat PROVE [k EXCEPT !.waited = n] \in Calls
          BY DEF Calls
        <4>4. [call[c] EXCEPT !.at = "sleeping", !.answer = 0, !.reply = "none"] \in Calls
          BY <2>1 DEF Calls
        <4>5. call[c].waited + wait \in Nat
          BY <2>1, <4>2 DEF Calls
        <4>6. [[call[c] EXCEPT !.at = "sleeping", !.answer = 0, !.reply = "none"]
                  EXCEPT !.waited = call[c].waited + wait] \in Calls
          BY <4>3, <4>4, <4>5
        <4>7. [call[c] EXCEPT !.at = "sleeping", !.answer = 0, !.reply = "none",
                              !.waited = @ + wait] \in Calls
          BY <4>6, <2>1 DEF Calls
        <4> QED
          BY <4>1, <4>7
      <3>2. CASE GiveUp(c)
        BY <3>2 DEF GiveUp, Ended
      <3> QED
        BY <1>10, <3>1, <3>2 DEF Record
    <2> QED
      BY <1>10, <2>2, <2>3 DEF Record, Released
  <1>11. ASSUME NEW c \in Callers, Wake(c) PROVE TypeOK'
    <2>1. call[c] \in Calls
      BY <1>0, <1>11 DEF Wake
    <2>2. call' \in [Callers -> Calls \union {Idle}]
      BY <1>11, <2>1 DEF Wake, Ended, Calls
    <2> QED
      BY <1>11, <2>2 DEF Wake
  <1>12. ASSUME NEW p \in Processes, Crash(p) PROVE TypeOK'
    <2>1. orphans' \in [Requests -> Nat]
      BY <1>12 DEF Crash, Orphaned
    <2> QED
      BY <1>12, <2>1 DEF Crash
  <1>13. CASE UNCHANGED vars
    BY <1>13 DEF vars
  <1> QED
    BY <1>1, <1>2, <1>3, <1>4, <1>5, <1>6, <1>7, <1>8, <1>9, <1>10, <1>11, <1>12,
       <1>13 DEF Next, Advance

\* The types, whatever dies and whatever the provider does.
THEOREM TypeCorrect == Spec => []TypeOK
  BY InitType, StepType, PTL DEF Spec

-----------------------------------------------------------------------------
LEMMA InitIInv == Init => IInv
  <1> SUFFICES ASSUME Init PROVE IInv
    OBVIOUS
  <1>1. TypeOK
    BY InitType
  <1> QED
    BY <1>1 DEF Init, Idle, IInv, HoldsLock, FileOfHolder, Licensed, Unspent,
       AnswersGiven, Spent, RefusedMeansUnpaid, WaitsWithinBudget, Busy, NewRecord

\* A step that only ends the call of c, or lets it wait, and at most frees its
\* lock, disturbs nothing.
LEMMA Quiet ==
    ASSUME IInv, TypeOK', NEW c \in Callers,
           \A d \in Callers \ {c} : call'[d] = call[d],
           call'[c].at \in {"idle", "waiting", "sleeping"},
           call'[c] # Idle => call'[c].waited <= Budget /\ call'[c].answer = 0,
           \A r \in Requests : holder'[r] = holder[r] \/ holder[r] = c,
           UNCHANGED <<record, accepted, orphans, forced>>
    PROVE  IInv'
  <1> USE DEF IInv, TypeOK, Busy
  <1>1. HoldsLock'
    BY DEF HoldsLock, Calls, Idle
  <1>2. FileOfHolder'
    BY DEF FileOfHolder
  <1>3. Licensed'
    BY DEF Licensed, Unspent
  <1>4. AnswersGiven'
    BY DEF AnswersGiven, Idle
  <1>5. Spent' /\ RefusedMeansUnpaid'
    BY DEF Spent, RefusedMeansUnpaid
  <1>6. WaitsWithinBudget'
    BY DEF WaitsWithinBudget
  <1> QED
    BY <1>1, <1>2, <1>3, <1>4, <1>5, <1>6

\* Two threads never hold the lock of one request.
LEMMA Alone ==
    ASSUME IInv, NEW c \in Callers, NEW d \in Callers, c # d,
           call[c].at \in Busy, call[d].at \in Busy
    PROVE  call[c].req # call[d].req
  BY DEF IInv, HoldsLock

LEMMA OpenKeeps ==
    ASSUME IInv, TypeOK', NEW c \in Callers, Open(c)
    PROVE  IInv'
  <1> DEFINE r == call[c].req
  <1> USE DEF IInv, TypeOK, Open, Busy
  <1>1. /\ call[c] \in Calls /\ r \in Requests
        /\ \A d \in Callers \ {c} : call'[d] = call[d]
        /\ call'[c].at = "opening" /\ call'[c].req = r
        /\ call'[c].waited = call[c].waited /\ call'[c].answer = call[c].answer
    BY DEF Calls, Idle
  <1>2. \A d \in Callers : call[d].at \in Busy => call[d].req # r
    BY <1>1, JournalAssumption DEF HoldsLock
  <1>3. /\ record'[r].state = "torn" /\ holder'[r] = c
        /\ \A q \in Requests \ {r} : record'[q] = record[q] /\ holder'[q] = holder[q]
    BY <1>1 DEF NewRecord
  <1>4. accepted[r] + orphans[r] <= forced'[r]
    <2>1. CASE call[c].force
      BY <1>1, <2>1 DEF Spent
    <2>2. CASE ~call[c].force
      BY <1>1, <2>2 DEF Sendable, RefusedMeansUnpaid
    <2> QED
      BY <2>1, <2>2
  <1>5. \A q \in Requests : forced[q] <= forced'[q] /\ (q # r => forced'[q] = forced[q])
    BY <1>1
  <1>6. \A d \in Callers : call[d].at \in Busy => call[d].req \in Requests
    BY DEF Calls, Idle
  <1>7. HoldsLock'
    BY <1>1, <1>2, <1>3, <1>6 DEF HoldsLock
  <1>8. FileOfHolder'
    BY <1>1, <1>2, <1>3, <1>6 DEF FileOfHolder
  <1>9. Licensed'
    BY <1>1, <1>2, <1>4, <1>5, <1>6 DEF Licensed, Unspent
  <1>10. AnswersGiven'
    BY <1>1 DEF AnswersGiven, Calls
  <1>11. Spent'
    BY <1>1, <1>4, <1>5 DEF Spent
  <1>12. RefusedMeansUnpaid'
    BY <1>1, <1>3, <1>5 DEF RefusedMeansUnpaid
  <1>13. WaitsWithinBudget'
    BY <1>1 DEF WaitsWithinBudget, Idle
  <1> QED
    BY <1>7, <1>8, <1>9, <1>10, <1>11, <1>12, <1>13

LEMMA WriteStartedKeeps ==
    ASSUME IInv, TypeOK', NEW c \in Callers, WriteStarted(c)
    PROVE  IInv'
  <1> DEFINE r == call[c].req
  <1> USE DEF IInv, TypeOK, WriteStarted, Busy
  <1>1. /\ call[c] \in Calls /\ r \in Requests
        /\ \A d \in Callers \ {c} : call'[d] = call[d]
        /\ call'[c].at = "queued" /\ call'[c].req = r
        /\ call'[c].waited = call[c].waited /\ call'[c].answer = call[c].answer
    BY DEF Calls, Idle
  <1>2. \A d \in Callers \ {c} : call[d].at \in Busy => call[d].req # r
    BY <1>1, Alone
  <1>3. /\ record'[r].state = "started"
        /\ \A q \in Requests \ {r} : record'[q] = record[q]
    BY <1>1 DEF NewRecord
  <1>4. HoldsLock'
    BY <1>1 DEF HoldsLock
  <1>5. FileOfHolder'
    <2>1. \A d \in Callers : call[d].at \in Busy => call[d].req \in Requests
      BY DEF Calls, Idle
    <2> QED
      BY <1>1, <1>2, <1>3, <2>1 DEF FileOfHolder
  <1>6. Licensed'
    BY <1>1 DEF Licensed, Unspent
  <1>7. AnswersGiven'
    BY <1>1 DEF AnswersGiven, Calls
  <1>8. Spent'
    BY DEF Spent
  <1>9. RefusedMeansUnpaid'
    BY <1>1, <1>3 DEF RefusedMeansUnpaid
  <1>10. WaitsWithinBudget'
    BY <1>1 DEF WaitsWithinBudget, Idle
  <1> QED
    BY <1>4, <1>5, <1>6, <1>7, <1>8, <1>9, <1>10

LEMMA TakeSlotKeeps ==
    ASSUME IInv, TypeOK', NEW c \in Callers, TakeSlot(c)
    PROVE  IInv'
  <1> USE DEF IInv, TypeOK, TakeSlot, Busy
  <1>1. /\ call[c] \in Calls
        /\ \A d \in Callers \ {c} : call'[d] = call[d]
        /\ call'[c].at = "sending" /\ call'[c].req = call[c].req
        /\ call'[c].waited = call[c].waited /\ call'[c].answer = 0
    BY DEF Calls, Idle, AnswersGiven
  <1>2. HoldsLock' /\ FileOfHolder' /\ Licensed'
    BY <1>1 DEF HoldsLock, FileOfHolder, Licensed, Unspent
  <1>3. AnswersGiven'
    <2>1. 0 <= accepted[call[c].req]
      BY <1>1 DEF Calls
    <2> QED
      BY <1>1, <2>1 DEF AnswersGiven
  <1>4. Spent' /\ RefusedMeansUnpaid'
    BY DEF Spent, RefusedMeansUnpaid
  <1>5. WaitsWithinBudget'
    BY <1>1 DEF WaitsWithinBudget, Idle
  <1> QED
    BY <1>2, <1>3, <1>4, <1>5

LEMMA AcceptKeeps ==
    ASSUME IInv, TypeOK', NEW c \in Callers, Accept(c)
    PROVE  IInv'
  <1> DEFINE r == call[c].req
  <1> USE DEF IInv, TypeOK, Accept, Busy
  <1>1. /\ call[c] \in Calls /\ r \in Requests
        /\ \A d \in Callers \ {c} : call'[d] = call[d]
        /\ call'[c].at = "sending" /\ call'[c].req = r
        /\ call'[c].waited = call[c].waited /\ call'[c].answer = accepted[r] + 1
    BY DEF Calls, Idle
  <1>2. /\ accepted'[r] = accepted[r] + 1
        /\ \A q \in Requests \ {r} : accepted'[q] = accepted[q]
    BY <1>1
  <1>3. \A d \in Callers \ {c} : call[d].at \in Busy => call[d].req # r
    BY <1>1, Alone
  <1>4. \A d \in Callers : call[d].at \in Busy => call[d].req \in Requests
    BY DEF Calls, Idle
  <1>5. accepted[r] + orphans[r] <= forced[r] /\ record[r].state = "started"
    BY <1>1 DEF Licensed, Unspent, FileOfHolder
  <1>6. HoldsLock' /\ FileOfHolder'
    BY <1>1 DEF HoldsLock, FileOfHolder
  <1>7. Licensed'
    BY <1>1, <1>2, <1>3, <1>4 DEF Licensed, Unspent
  <1>8. AnswersGiven'
    BY <1>1, <1>2, <1>3, <1>4 DEF AnswersGiven
  <1>9. Spent'
    BY <1>1, <1>2, <1>5 DEF Spent
  <1>10. RefusedMeansUnpaid'
    BY <1>1, <1>2, <1>5 DEF RefusedMeansUnpaid
  <1>11. WaitsWithinBudget'
    BY <1>1 DEF WaitsWithinBudget, Idle
  <1> QED
    BY <1>6, <1>7, <1>8, <1>9, <1>10, <1>11

LEMMA AcceptLateKeeps ==
    ASSUME IInv, TypeOK', NEW r \in Requests, AcceptLate(r)
    PROVE  IInv'
  <1> USE DEF IInv, TypeOK, AcceptLate, Busy
  <1>1. \A q \in Requests :
           /\ accepted'[q] + orphans'[q] = accepted[q] + orphans[q]
           /\ accepted[q] <= accepted'[q]
    OBVIOUS
  <1>2. \A d \in Callers : call[d].at \in Busy => call[d].req \in Requests
    BY DEF Calls, Idle
  <1>3. HoldsLock' /\ FileOfHolder' /\ WaitsWithinBudget'
    BY DEF HoldsLock, FileOfHolder, WaitsWithinBudget
  <1>4. Licensed'
    BY <1>1, <1>2 DEF Licensed, Unspent
  <1>5. AnswersGiven'
    <2>1. ASSUME NEW d \in Callers, call[d].at \in {"sending", "replied"}
          PROVE  call[d].answer <= accepted'[call[d].req]
      <3>1. call[d] \in Calls /\ call[d].req \in Requests
        BY <2>1 DEF Calls, Idle
      <3>2. call[d].answer \in Nat
        BY <3>1 DEF Calls
      <3> QED
        BY <1>1, <2>1, <3>1, <3>2 DEF AnswersGiven
    <2> QED
      BY <2>1 DEF AnswersGiven
  <1>6. Spent'
    BY <1>1 DEF Spent
  <1>7. RefusedMeansUnpaid'
    <2>1. \A q \in Requests : record[q].answer \in Nat
      BY DEF Records
    <2> QED
      BY <1>1, <2>1 DEF RefusedMeansUnpaid
  <1> QED
    BY <1>3, <1>4, <1>5, <1>6, <1>7

LEMMA ReplyKeeps ==
    ASSUME IInv, TypeOK', NEW c \in Callers,
           NEW reply \in {"busy", "refused", "uncertain", "answer"}, Reply(c, reply)
    PROVE  IInv'
  <1> DEFINE r == call[c].req
  <1> USE DEF IInv, TypeOK, Busy
  <1>1. /\ call[c] \in Calls /\ r \in Requests /\ call[c].at = "sending"
        /\ \A d \in Callers \ {c} : call'[d] = call[d]
        /\ call'[c].at = "replied" /\ call'[c].req = r /\ call'[c].reply = reply
        /\ call'[c].waited = call[c].waited /\ call'[c].answer = call[c].answer
    BY DEF Reply, Calls, Idle
  <1>0. UNCHANGED <<record, holder, accepted, forced>>
    BY DEF Reply
  <1>2. /\ \A q \in Requests \ {r} : orphans'[q] = orphans[q]
        /\ orphans'[r] \in {orphans[r], orphans[r] + 1}
        /\ orphans'[r] # orphans[r] => reply = "uncertain" /\ call[c].answer = 0
    BY <1>1 DEF Reply, Orphaned
  <1>3. \A d \in Callers \ {c} : call[d].at \in Busy => call[d].req # r
    BY <1>1, Alone
  <1>4. \A d \in Callers : call[d].at \in Busy => call[d].req \in Requests
    BY DEF Calls, Idle
  <1>5. /\ call[c].answer = 0 => accepted[r] + orphans[r] <= forced[r]
        /\ record[r].state = "started"
    BY <1>1 DEF Reply, Licensed, Unspent, FileOfHolder
  <1>6. HoldsLock' /\ FileOfHolder'
    BY <1>0, <1>1, <1>5 DEF Reply, HoldsLock, FileOfHolder
  <1>7. Licensed'
    <2>1. ASSUME NEW d \in Callers \ {c}, Unspent(call[d])
          PROVE  accepted[call[d].req] + orphans'[call[d].req] <= forced[call[d].req]
      <3>1. call[d].at \in Busy /\ call[d].req \in Requests \ {r}
        BY <1>3, <1>4, <2>1 DEF Unspent
      <3> QED
        BY <1>2, <2>1, <3>1 DEF Licensed
    <2>2. CASE ~Unspent(call'[c])
      BY <1>0, <1>1, <2>1, <2>2 DEF Licensed
    <2>3. CASE Unspent(call'[c])
      <3>1. reply \in {"busy", "refused"} /\ call[c].answer = 0
        BY <1>1, <2>3 DEF Unspent, Reply
      <3>2. orphans'[r] = orphans[r]
        BY <1>2, <3>1
      <3> QED
        BY <1>0, <1>1, <1>5, <2>1, <3>1, <3>2 DEF Licensed
    <2> QED
      BY <2>2, <2>3
  <1>8. AnswersGiven'
    BY <1>0, <1>1 DEF Reply, AnswersGiven
  <1>9. Spent'
    <2>1. accepted[r] + orphans'[r] <= 1 + forced[r]
      BY <1>1, <1>2, <1>5 DEF Spent
    <2> QED
      BY <1>0, <1>2, <2>1 DEF Spent
  <1>10. RefusedMeansUnpaid'
    BY <1>0, <1>1, <1>2, <1>5 DEF RefusedMeansUnpaid
  <1>11. WaitsWithinBudget'
    BY <1>1 DEF WaitsWithinBudget, Idle
  <1> QED
    BY <1>6, <1>7, <1>8, <1>9, <1>10, <1>11

LEMMA RecordKeeps ==
    ASSUME IInv, TypeOK', NEW c \in Callers, Record(c)
    PROVE  IInv'
  <1> DEFINE r == call[c].req
  <1> USE DEF IInv, TypeOK, Busy
  <1>1. /\ call[c] \in Calls /\ r \in Requests /\ call[c].at = "replied"
        /\ holder' = Released(r) /\ UNCHANGED <<accepted, orphans, forced>>
    BY DEF Record, Calls, Idle
  <1>2. /\ \A d \in Callers \ {c} : call'[d] = call[d]
        /\ call'[c].at \in {"idle", "sleeping"}
        /\ call'[c] # Idle => call'[c].waited <= Budget /\ call'[c].answer = 0
    <2>1. CASE Retry(c)
      <3>1. PICK wait \in Waits(call[c].attempt) :
               /\ Afforded(c, wait)
               /\ call' = [call EXCEPT ![c].at = "sleeping", ![c].answer = 0,
                                       ![c].reply = "none", ![c].waited = @ + wait]
        BY <2>1 DEF Retry
      <3>2. /\ call'[c].at = "sleeping" /\ call'[c].answer = 0
            /\ call'[c].waited = call[c].waited + wait
        BY <1>1, <3>1 DEF Calls
      <3> QED
        BY <3>1, <3>2 DEF Afforded
    <2>2. CASE GiveUp(c)
      BY <2>2 DEF GiveUp, Ended, Idle
    <2> QED
      BY <2>1, <2>2 DEF Record
  <1>3. \A d \in Callers \ {c} : call[d].at \in Busy => call[d].req # r
    BY <1>1, Alone
  <1>4. \A d \in Callers : call[d].at \in Busy => call[d].req \in Requests
    BY DEF Calls, Idle
  <1>5. /\ \A q \in Requests \ {r} : record'[q] = record[q] /\ holder'[q] = holder[q]
        /\ record'[r] \in {record[r], Outcome(c)}
    BY <1>1 DEF Record, Released
  <1>6. HoldsLock' /\ FileOfHolder'
    BY <1>2, <1>3, <1>4, <1>5 DEF HoldsLock, FileOfHolder
  <1>7. Licensed'
    BY <1>1, <1>2 DEF Licensed, Unspent
  <1>8. AnswersGiven'
    BY <1>1, <1>2 DEF AnswersGiven, Idle
  <1>9. Spent'
    BY <1>1 DEF Spent
  <1>10. RefusedMeansUnpaid'
    <2>1. CASE record'[r] = record[r]
      BY <1>1, <1>5, <2>1 DEF RefusedMeansUnpaid
    <2>2. CASE record'[r] = Outcome(c)
      <3>1. CASE call[c].reply = "answer"
        <4>1. record'[r] = NewRecord("complete", call[c].answer)
          BY <2>2, <3>1 DEF Outcome
        <4>2. call[c].answer \in 1 .. accepted[r]
          BY <1>1, <3>1 DEF AnswersGiven, Calls
        <4> QED
          BY <1>1, <1>5, <4>1, <4>2 DEF RefusedMeansUnpaid, NewRecord
      <3>2. CASE call[c].reply = "uncertain"
        <4>1. record'[r] = NewRecord("uncertain", 0)
          BY <2>2, <3>2 DEF Outcome
        <4> QED
          BY <1>1, <1>5, <4>1 DEF RefusedMeansUnpaid, NewRecord
      <3>3. CASE call[c].reply \in {"busy", "refused"}
        <4>1. record'[r] = NewRecord("refused", 0)
          BY <2>2, <3>3 DEF Outcome
        <4>2. accepted[r] + orphans[r] <= forced[r]
          BY <1>1, <3>3 DEF Licensed, Unspent
        <4> QED
          BY <1>1, <1>5, <4>1, <4>2 DEF RefusedMeansUnpaid, NewRecord
      <3>4. call[c].reply # "none"
        BY <1>1 DEF AnswersGiven
      <3> QED
        BY <1>1, <3>1, <3>2, <3>3, <3>4 DEF Calls
    <2> QED
      BY <1>5, <2>1, <2>2
  <1>11. WaitsWithinBudget'
    BY <1>2 DEF WaitsWithinBudget
  <1> QED
    BY <1>6, <1>7, <1>8, <1>9, <1>10, <1>11

LEMMA CrashKeeps ==
    ASSUME IInv, TypeOK', NEW p \in Processes, Crash(p)
    PROVE  IInv'
  <1> DEFINE dead == {c \in Callers : ProcessOf[c] = p}
  <1> USE DEF IInv, TypeOK, Busy
  <1>1. /\ \A c \in Callers : call'[c] = IF c \in dead THEN Idle ELSE call[c]
        /\ \A r \in Requests :
              holder'[r] = IF holder[r] \in dead THEN NoCaller ELSE holder[r]
        /\ orphans' = Orphaned(dead)
        /\ UNCHANGED <<record, accepted, forced>>
    BY DEF Crash
  <1>2. \A c \in Callers : call[c].at \in Busy => call[c].req \in Requests
    BY DEF Calls, Idle
  <1>3. ASSUME NEW r \in Requests
        PROVE  \/ orphans'[r] = orphans[r]
               \/ /\ orphans'[r] = orphans[r] + 1
                  /\ accepted[r] + orphans[r] <= forced[r]
                  /\ record[r].state = "started"
                  /\ holder[r] \in dead
    BY <1>1 DEF Orphaned, Licensed, Unspent, FileOfHolder, HoldsLock
  <1>4. HoldsLock' /\ FileOfHolder'
    BY <1>1, <1>2 DEF HoldsLock, FileOfHolder, Idle
  <1>5. Licensed'
    <2>1. ASSUME NEW c \in Callers \ dead, Unspent(call[c])
          PROVE  accepted[call[c].req] + orphans'[call[c].req] <= forced[call[c].req]
      <3>1. call[c].req \in Requests /\ holder[call[c].req] = c
        BY <1>2, <2>1 DEF Unspent, HoldsLock
      <3>2. orphans'[call[c].req] = orphans[call[c].req]
        BY <1>3, <2>1, <3>1
      <3> QED
        BY <2>1, <3>2 DEF Licensed
    <2> QED
      BY <1>1, <2>1 DEF Licensed, Unspent, Idle
  <1>6. AnswersGiven'
    BY <1>1 DEF AnswersGiven, Idle
  <1>7. Spent'
    BY <1>1, <1>3 DEF Spent
  <1>8. RefusedMeansUnpaid'
    BY <1>1, <1>3 DEF RefusedMeansUnpaid
  <1>9. WaitsWithinBudget'
    BY <1>1 DEF WaitsWithinBudget
  <1> QED
    BY <1>4, <1>5, <1>6, <1>7, <1>8, <1>9

LEMMA StepIInv == IInv /\ [Next]_vars => IInv'
  <1> SUFFICES ASSUME IInv, [Next]_vars PROVE IInv'
    OBVIOUS
  <1>0. TypeOK'
    BY StepType DEF IInv
  <1>1. ASSUME NEW c \in Callers, NEW r \in Requests, NEW force \in BOOLEAN,
               Begin(c, r, force)
        PROVE  IInv'
    <2>1. call' = [call EXCEPT ![c] = NewCall(r, force)]
      BY <1>1 DEF Begin
    <2>2. /\ call'[c].at = "waiting" /\ call'[c].waited = 0 /\ call'[c].answer = 0
          /\ \A d \in Callers \ {c} : call'[d] = call[d]
      BY <2>1 DEF NewCall, IInv, TypeOK
    <2> QED
      BY <1>0, <1>1, <2>2, Quiet, JournalAssumption DEF Begin
  <1>2. ASSUME NEW c \in Callers, LockTimeout(c) \/ Settled(c) \/ WriteStartedFails(c)
        PROVE  IInv'
    <2>1. /\ call'[c] = Idle /\ \A d \in Callers \ {c} : call'[d] = call[d]
          /\ UNCHANGED <<record, accepted, orphans, forced>>
      BY <1>2 DEF LockTimeout, Settled, WriteStartedFails, Ended, IInv, TypeOK
    <2>2. \A r \in Requests : holder'[r] = holder[r] \/ holder[r] = c
      BY <1>2 DEF LockTimeout, Settled, WriteStartedFails, Released, IInv, TypeOK,
         HoldsLock, Busy
    <2>3. call'[c].at = "idle"
      BY <2>1 DEF Idle
    <2> QED
      BY <1>0, <2>1, <2>2, <2>3, Quiet
  <1>3. ASSUME NEW c \in Callers, Open(c) PROVE IInv'
    BY <1>0, <1>3, OpenKeeps
  <1>4. ASSUME NEW c \in Callers, WriteStarted(c) PROVE IInv'
    BY <1>0, <1>4, WriteStartedKeeps
  <1>5. ASSUME NEW c \in Callers, TakeSlot(c) PROVE IInv'
    BY <1>0, <1>5, TakeSlotKeeps
  <1>6. ASSUME NEW c \in Callers, Accept(c) PROVE IInv'
    BY <1>0, <1>6, AcceptKeeps
  <1>7. ASSUME NEW r \in Requests, AcceptLate(r) PROVE IInv'
    BY <1>0, <1>7, AcceptLateKeeps
  <1>8. ASSUME NEW c \in Callers, NEW reply \in {"busy", "refused", "uncertain", "answer"},
               Reply(c, reply)
        PROVE  IInv'
    BY <1>0, <1>8, ReplyKeeps
  <1>9. ASSUME NEW c \in Callers, Record(c) PROVE IInv'
    BY <1>0, <1>9, RecordKeeps
  <1>10. ASSUME NEW c \in Callers, Wake(c) PROVE IInv'
    <2>1. call[c] \in Calls /\ call[c].at = "sleeping" /\ call[c] # Idle
      BY <1>10 DEF Wake, IInv, TypeOK, Idle, Calls
    <2>2. /\ call'[c].at \in {"idle", "waiting"}
          /\ call'[c] # Idle => call'[c].waited = call[c].waited /\ call'[c].answer = 0
          /\ \A d \in Callers \ {c} : call'[d] = call[d]
      BY <1>10, <2>1 DEF Wake, Ended, Idle, IInv, TypeOK, AnswersGiven, Calls
    <2>3. call[c].waited <= Budget
      BY <2>1 DEF IInv, WaitsWithinBudget
    <2> QED
      BY <1>0, <1>10, <2>2, <2>3, Quiet DEF Wake
  <1>11. ASSUME NEW p \in Processes, Crash(p) PROVE IInv'
    BY <1>0, <1>11, CrashKeeps
  <1>12. CASE UNCHANGED vars
    <2> USE <1>12 DEF vars
    <2>1. HoldsLock' /\ FileOfHolder'
      BY DEF IInv, HoldsLock, FileOfHolder, Busy
    <2>2. Licensed' /\ AnswersGiven'
      BY DEF IInv, Licensed, Unspent, AnswersGiven
    <2>3. Spent' /\ RefusedMeansUnpaid' /\ WaitsWithinBudget'
      BY DEF IInv, Spent, RefusedMeansUnpaid, WaitsWithinBudget
    <2> QED
      BY <1>0, <2>1, <2>2, <2>3 DEF IInv
  <1> QED
    BY <1>1, <1>2, <1>3, <1>4, <1>5, <1>6, <1>7, <1>8, <1>9, <1>10, <1>11, <1>12
       DEF Next, Advance

LEMMA Invariance == Spec => []IInv
  BY InitIInv, StepIInv, PTL DEF Spec

-----------------------------------------------------------------------------
\* The header's promise of journal.py: no request is paid for twice, unless it
\* was repeated on purpose, whatever dies, fails or arrives late.
THEOREM PaidOnce == Spec => []DeliveredOnce
  <1>1. IInv => DeliveredOnce
    <2> SUFFICES ASSUME IInv, NEW r \in Requests PROVE accepted[r] <= 1 + forced[r]
      BY DEF DeliveredOnce
    <2>1. accepted[r] \in Nat /\ orphans[r] \in Nat /\ forced[r] \in Nat
      BY DEF IInv, TypeOK
    <2> QED
      BY <2>1 DEF IInv, Spent
  <1> QED
    BY <1>1, Invariance, PTL

\* The write that precedes the sending: the file blocks whoever comes next.
THEOREM JournaledBeforeSent == Spec => []SentIsJournaled
  <1>1. IInv => SentIsJournaled
    BY DEF IInv, HoldsLock, FileOfHolder, SentIsJournaled, Busy
  <1> QED
    BY <1>1, Invariance, PTL

\* What the journal says of a request agrees with what it cost.
THEOREM JournalAgrees == Spec => []RefusedMeansUnpaid
  <1>1. IInv => RefusedMeansUnpaid
    BY DEF IInv
  <1> QED
    BY <1>1, Invariance, PTL

\* The waits of a call stay in its budget, for every budget and provider.
THEOREM WaitsBounded == Spec => []WaitsWithinBudget
  <1>1. IInv => WaitsWithinBudget
    BY DEF IInv
  <1> QED
    BY <1>1, Invariance, PTL

\* A recorded answer leaves the journal only when it is asked for again.
THEOREM AnswersStay == Spec => AnswerKept
  <1>1. ASSUME IInv, [Next]_vars, NEW r \in Requests,
               record[r].state = "complete", record'[r] # record[r]
        PROVE  forced'[r] = forced[r] + 1
    <2> USE <1>1 DEF IInv, TypeOK
    <2>1. ASSUME NEW c \in Callers, Open(c) PROVE forced'[r] = forced[r] + 1
      <3>1. call[c].req = r /\ ~(record[r].state \in {"none", "refused"})
        BY <2>1 DEF Open
      <3>2. call[c].force
        BY <2>1, <3>1 DEF Open, Sendable
      <3> QED
        BY <2>1, <3>1, <3>2 DEF Open
    <2>2. ASSUME NEW c \in Callers, WriteStarted(c) PROVE FALSE
      <3>1. call[c].req = r
        BY <2>2 DEF WriteStarted
      <3> QED
        BY <2>2, <3>1 DEF WriteStarted, FileOfHolder
    <2>3. ASSUME NEW c \in Callers, Record(c) PROVE FALSE
      <3>1. call[c].req = r /\ call[c].at = "replied"
        BY <2>3 DEF Record
      <3> QED
        BY <3>1 DEF FileOfHolder
    <2> QED
      BY <2>1, <2>2, <2>3 DEF Next, Advance, Begin, LockTimeout, Settled,
         WriteStartedFails, TakeSlot, Accept, AcceptLate, Reply, Wake, Crash, vars
  <1>2. IInv /\ [Next]_vars =>
           [\A r \in Requests :
              record[r].state = "complete" /\ record'[r] # record[r] =>
                  forced'[r] = forced[r] + 1]_vars
    BY <1>1
  <1> QED
    BY <1>2, Invariance, PTL DEF Spec, AnswerKept

=============================================================================
