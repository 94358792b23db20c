------------------------------ MODULE JobStore ------------------------------
(***************************************************************************)
(* The queue of extractions, ingestion/store.py and the worker threads of  *)
(* ingestion/service.py: batches are submitted to a SQLite file, threads   *)
(* claim the jobs, store what they extracted and finish them.  A server    *)
(* may die at any step and be started again, another may be started by     *)
(* mistake on the same directory, and a write may fail (a busy database).  *)
(*                                                                         *)
(* What is extracted is data: a job has a stored result or none.  The time *)
(* a job was created is the ordinal of its batch; jobs of one batch are    *)
(* claimed in any order.                                                   *)
(***************************************************************************)
EXTENDS Naturals, FiniteSets

CONSTANTS
    Jobs,
    Servers,
    Workers,   \* the threads of all servers
    ServerOf,  \* the server of each thread
    Limit,     \* max_queued_files
    NoServer,
    NoJob

ASSUME JobStoreAssumption ==
    /\ IsFiniteSet(Jobs) /\ NoJob \notin Jobs
    /\ ServerOf \in [Workers -> Servers] /\ NoServer \notin Servers
    /\ Limit \in Nat

VARIABLES
    status,   \* the status of each job, "NEW" before it is submitted
    batch,    \* the ordinal of the batch it was submitted in
    batches,  \* the number of batches
    saved,    \* the jobs with a row in results
    lock,     \* which server holds server.lock
    phase,    \* what each server is doing
    worker    \* what each thread is doing

jobVars == <<status, batch, batches, saved, lock, phase, worker>>

Statuses == {"NEW", "QUEUED", "RUNNING", "COMPLETED", "FAILED"}
Unfinished == {"QUEUED", "RUNNING"}
Finished == {"COMPLETED", "FAILED"}

(***************************************************************************)
(* A thread: "off" when it does not exist; "loop" before it looks at the   *)
(* stop flag and "claiming" after; extracting; "saved" or "raised" when it *)
(* is to finish the job; "dead" when an exception left its loop, in which  *)
(* case "job" is the one it still had.                                     *)
(***************************************************************************)
Threads == [at : {"off", "loop", "claiming", "extracting", "saved", "raised", "dead"},
            job : Jobs \union {NoJob}]

At(where, j) == [at |-> where, job |-> j]
Holding == {"extracting", "saved", "raised"}

-----------------------------------------------------------------------------
JobsTypeOK ==
    /\ status \in [Jobs -> Statuses]
    /\ batch \in [Jobs -> Nat]
    /\ batches \in Nat
    /\ saved \subseteq Jobs
    /\ lock \in Servers \union {NoServer}
    /\ phase \in [Servers -> {"down", "up", "closing"}]
    /\ worker \in [Workers -> Threads]

JobsInit ==
    /\ status = [j \in Jobs |-> "NEW"]
    /\ batch = [j \in Jobs |-> 0]
    /\ batches = 0
    /\ saved = {}
    /\ lock = NoServer
    /\ phase = [s \in Servers |-> "down"]
    /\ worker = [w \in Workers |-> At("off", NoJob)]

-----------------------------------------------------------------------------
(***************************************************************************)
(* The life of a server                                                    *)
(***************************************************************************)

\* recover: nobody works on what was running when the last server stopped.
Recovered(j) == IF status[j] = "RUNNING" THEN "QUEUED" ELSE status[j]

\* Mutant: nothing stops a second server on the same directory.
LocksNothing == TRUE

Locks == lock = NoServer

Threaded(s, thread) ==
    [w \in Workers |-> IF ServerOf[w] = s THEN thread ELSE worker[w]]

\* The lifespan of the application takes server.lock, then start.
Start(s) ==
    /\ phase[s] = "down" /\ Locks
    /\ lock' = s
    /\ phase' = [phase EXCEPT ![s] = "up"]
    /\ status' = [j \in Jobs |-> Recovered(j)]
    /\ worker' = Threaded(s, At("loop", NoJob))
    /\ UNCHANGED <<batch, batches, saved>>

\* close: the stop flag is set; what is being extracted is finished.
Close(s) ==
    /\ phase[s] = "up"
    /\ phase' = [phase EXCEPT ![s] = "closing"]
    /\ UNCHANGED <<status, batch, batches, saved, lock, worker>>

Gone(w) == worker[w].at \in {"off", "dead"}

\* Every thread was joined and the lock is released.
Closed(s) ==
    /\ phase[s] = "closing"
    /\ \A w \in Workers : ServerOf[w] = s => Gone(w)
    /\ phase' = [phase EXCEPT ![s] = "down"]
    /\ lock' = NoServer
    /\ worker' = Threaded(s, At("off", NoJob))
    /\ UNCHANGED <<status, batch, batches, saved>>

\* The server dies; its lock goes with it.
Die(s) ==
    /\ phase[s] # "down"
    /\ phase' = [phase EXCEPT ![s] = "down"]
    /\ lock' = IF lock = s THEN NoServer ELSE lock
    /\ worker' = Threaded(s, At("off", NoJob))
    /\ UNCHANGED <<status, batch, batches, saved>>

-----------------------------------------------------------------------------
(***************************************************************************)
(* submit_batch and the loop of a worker                                   *)
(***************************************************************************)

Pending == {j \in Jobs : status[j] \in Unfinished}

Fits(B) == Cardinality(Pending) + Cardinality(B) <= Limit

\* A batch is taken whole, or refused.
Submit(s, B) ==
    /\ phase[s] = "up" /\ B # {}
    /\ \A j \in B : status[j] = "NEW"
    /\ Fits(B)
    /\ batches' = batches + 1
    /\ status' = [j \in Jobs |-> IF j \in B THEN "QUEUED" ELSE status[j]]
    /\ batch' = [j \in Jobs |-> IF j \in B THEN batches' ELSE batch[j]]
    /\ UNCHANGED <<saved, lock, phase, worker>>

Moves(w, where, j) == worker' = [worker EXCEPT ![w] = At(where, j)]

\* The stop flag, read before each claim.
Loop(w) ==
    /\ worker[w].at = "loop"
    /\ Moves(w, IF phase[ServerOf[w]] = "up" THEN "claiming" ELSE "off", NoJob)
    /\ UNCHANGED <<status, batch, batches, saved, lock, phase>>

\* ORDER BY created.
NextJobs ==
    {j \in Jobs : /\ status[j] = "QUEUED"
                  /\ \A i \in Jobs : status[i] = "QUEUED" => batch[j] <= batch[i]}

\* claim, in one transaction that takes the write lock first.
Claim(w) ==
    /\ worker[w].at = "claiming"
    /\ \E j \in NextJobs :
          /\ status' = [status EXCEPT ![j] = "RUNNING"]
          /\ Moves(w, "extracting", j)
    /\ UNCHANGED <<batch, batches, saved, lock, phase>>

\* Nothing is queued: look again in a while.
ClaimNone(w) ==
    /\ worker[w].at = "claiming" /\ NextJobs = {}
    /\ Moves(w, "loop", NoJob)
    /\ UNCHANGED <<status, batch, batches, saved, lock, phase>>

\* The database stays busy: claim raises outside the try, the thread ends.
ClaimRaises(w) ==
    /\ worker[w].at = "claiming"
    /\ Moves(w, "dead", NoJob)
    /\ UNCHANGED <<status, batch, batches, saved, lock, phase>>

\* extract stores the result of the job before it returns.
Extract(w) ==
    /\ worker[w].at = "extracting"
    /\ saved' = saved \union {worker[w].job}
    /\ Moves(w, "saved", worker[w].job)
    /\ UNCHANGED <<status, batch, batches, lock, phase>>

\* extract, or the finish that follows it, raises.
Raise(w) ==
    /\ worker[w].at \in {"extracting", "saved"}
    /\ Moves(w, "raised", worker[w].job)
    /\ UNCHANGED <<status, batch, batches, saved, lock, phase>>

\* finish, with the result or with the error.
Finish(w) ==
    /\ worker[w].at \in {"saved", "raised"}
    /\ status' = [status EXCEPT ![worker[w].job] =
                     IF worker[w].at = "saved" THEN "COMPLETED" ELSE "FAILED"]
    /\ Moves(w, "loop", NoJob)
    /\ UNCHANGED <<batch, batches, saved, lock, phase>>

\* Mutant: the job of a thread that ends is forgotten as if it were done.
FinishRaisesQuietly(w) ==
    /\ worker[w].at = "raised"
    /\ Moves(w, "loop", NoJob)
    /\ UNCHANGED <<status, batch, batches, saved, lock, phase>>

\* The finish with the error raises too: the thread ends, its job is RUNNING.
FinishRaises(w) ==
    /\ worker[w].at = "raised"
    /\ Moves(w, "dead", worker[w].job)
    /\ UNCHANGED <<status, batch, batches, saved, lock, phase>>

Works(w) ==
    \/ Loop(w)
    \/ Claim(w)
    \/ ClaimNone(w)
    \/ ClaimRaises(w)
    \/ Extract(w)
    \/ Raise(w)
    \/ Finish(w)
    \/ FinishRaises(w)

JobsNext ==
    \/ \E s \in Servers : Start(s) \/ Close(s) \/ Closed(s) \/ Die(s)
    \/ \E s \in Servers, B \in SUBSET Jobs : Submit(s, B)
    \/ \E w \in Workers : Works(w)

JobsSpec == JobsInit /\ [][JobsNext]_jobVars

\* Threads are scheduled, and the readers an extraction calls time out.  No
\* more is assumed of servers: they may never be started, or always crash.
FairJobsSpec == JobsSpec /\ \A w \in Workers : WF_jobVars(Works(w))

-----------------------------------------------------------------------------
(***************************************************************************)
(* Properties                                                              *)
(***************************************************************************)

\* No two threads, of whatever server, work on one job, and what a thread works
\* on is running: a recovery never takes a job away from a thread that lives.
OneWorkerPerJob ==
    \A w \in Workers : worker[w].at \in Holding =>
        /\ status[worker[w].job] = "RUNNING"
        /\ \A v \in Workers \ {w} :
              worker[v].at \in Holding => worker[v].job # worker[w].job

\* While a server is up every running job is some thread's, if only one that
\* died on it: no job is left running by a server of the past.
RunningIsSomeones ==
    lock # NoServer =>
        \A j \in Jobs : status[j] = "RUNNING" =>
            \E w \in Workers :
                /\ ServerOf[w] = lock
                /\ worker[w].job = j

\* A completed job has a result to fetch, also when a crash fell between
\* storing it and finishing the job.
CompletedHasResult == \A j \in Jobs : status[j] = "COMPLETED" => j \in saved

\* The queue holds its limit, whatever is recovered and whoever submits.
QueueWithinLimit == Cardinality(Pending) <= Limit

\* A job that has ended never changes again: a batch reported finished stays
\* finished, across restarts.
EndedForGood ==
    [][\A j \in Jobs : status[j] \in Finished => status'[j] = status[j]]_jobVars

\* The queue as its users see it: the threads that hold a job work on it, whichever
\* server they belong to.
Doing == [j \in Jobs |-> {w \in Workers : worker[w].at \in Holding /\ worker[w].job = j}]

Board == INSTANCE JobBoard WITH stored <- saved, doing <- Doing

\* "One service process per data directory; this is not a distributed queue"
\* (docs/ingestion/architecture.md:39): with servers that are started twice, stop, die and
\* start again over one file, the queue is the board of module JobBoard.  A recovery never
\* takes a job from a thread that lives, whatever order locks, claims and ends come in.
QueueIsBoard == Board!Spec

Healthy ==
    \E s \in Servers :
        /\ phase[s] = "up"
        /\ \A w \in Workers : ServerOf[w] = s => worker[w].at # "dead"

\* Once some server stays up and none of its threads dies, every job ends.
JobsEnd ==
    (<>[]Healthy) =>
        \A j \in Jobs : status[j] = "QUEUED" ~> status[j] \in Finished
=============================================================================
