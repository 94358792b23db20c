------------------------------ MODULE JobBoard ------------------------------
(***************************************************************************)
(* What the queue of extractions promises whoever submits a batch, and     *)
(* nothing about servers, lock files or the loops of threads: batches are  *)
(* taken whole and in turn, a job is done by one worker at a time, and its *)
(* end stands.  Workers may vanish at any moment; what they had begun goes *)
(* back to the queue, but only when nobody is at work.                     *)
(***************************************************************************)
EXTENDS Naturals, FiniteSets

CONSTANTS
    Jobs,
    Workers,
    Limit      \* how many jobs may wait or run

VARIABLES
    status,    \* as a batch reports it, "NEW" before it is submitted
    batch,     \* the ordinal of the batch of each job
    batches,   \* the number of batches
    stored,    \* the jobs whose result can be fetched
    doing      \* the workers at work on each job

boardVars == <<status, batch, batches, stored, doing>>

Statuses == {"NEW", "QUEUED", "RUNNING", "COMPLETED", "FAILED"}

Waiting == {j \in Jobs : status[j] = "QUEUED"}
Unfinished == {j \in Jobs : status[j] \in {"QUEUED", "RUNNING"}}

Nobody == [j \in Jobs |-> {}]

Init ==
    /\ status = [j \in Jobs |-> "NEW"]
    /\ batch = [j \in Jobs |-> 0]
    /\ batches = 0
    /\ stored = {}
    /\ doing = Nobody

-----------------------------------------------------------------------------
\* A batch is taken whole, after the earlier ones, or refused.
Submit(B) ==
    /\ B # {} /\ \A j \in B : status[j] = "NEW"
    /\ Cardinality(Unfinished) + Cardinality(B) <= Limit
    /\ batches' = batches + 1
    /\ batch' = [j \in Jobs |-> IF j \in B THEN batches' ELSE batch[j]]
    /\ status' = [j \in Jobs |-> IF j \in B THEN "QUEUED" ELSE status[j]]
    /\ UNCHANGED <<stored, doing>>

\* A worker without a job takes one of the oldest batch that waits; nobody is on it.
Take(w, j) ==
    /\ j \in Waiting /\ \A i \in Waiting : batch[j] <= batch[i]
    /\ doing[j] = {} /\ \A i \in Jobs : w \notin doing[i]
    /\ status' = [status EXCEPT ![j] = "RUNNING"]
    /\ doing' = [doing EXCEPT ![j] = {w}]
    /\ UNCHANGED <<batch, batches, stored>>

\* The result of what a worker does, alone, can be fetched from now on.
Store(w, j) ==
    /\ doing[j] = {w}
    /\ stored' = stored \union {j}
    /\ UNCHANGED <<status, batch, batches, doing>>

\* The job ends by the hand of the one worker on it, completed if its result is stored.
End(w, j) ==
    /\ doing[j] = {w} /\ status[j] = "RUNNING"
    /\ \E end \in {"COMPLETED", "FAILED"} :
          /\ end = "COMPLETED" => j \in stored
          /\ status' = [status EXCEPT ![j] = end]
    /\ doing' = [doing EXCEPT ![j] = {}]
    /\ UNCHANGED <<batch, batches, stored>>

\* Some workers are no more; what they did stays running for now.
Vanish(gone) ==
    /\ doing' = [j \in Jobs |-> doing[j] \ gone]
    /\ UNCHANGED <<status, batch, batches, stored>>

\* What is left running goes back to the queue.
Recover ==
    /\ doing = Nobody
    /\ status' = [j \in Jobs |-> IF status[j] = "RUNNING" THEN "QUEUED" ELSE status[j]]
    /\ UNCHANGED <<batch, batches, stored, doing>>

Next ==
    \/ \E B \in SUBSET Jobs : Submit(B)
    \/ \E w \in Workers, j \in Jobs : Take(w, j) \/ Store(w, j) \/ End(w, j)
    \/ \E gone \in SUBSET Workers : Vanish(gone)
    \/ Recover

Spec == Init /\ [][Next]_boardVars

-----------------------------------------------------------------------------
\* The board is enough for what its users rely on.  Nobody works on a job that is not
\* running, no job has two workers and no worker two jobs.
OneWorkerEach ==
    \A j \in Jobs : \A w \in doing[j] :
        /\ status[j] = "RUNNING" /\ doing[j] = {w}
        /\ \A i \in Jobs \ {j} : w \notin doing[i]

\* What a batch reports completed can be fetched.
CompletedIsStored == \A j \in Jobs : status[j] = "COMPLETED" => j \in stored

\* The queue keeps its limit.
WithinLimit == Cardinality(Unfinished) <= Limit

\* All three: what a batch can rely on.
BoardKeepsOrder == OneWorkerEach /\ CompletedIsStored /\ WithinLimit
=============================================================================
