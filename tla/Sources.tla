------------------------------ MODULE Sources ------------------------------
(***************************************************************************)
(* The sources of truth of one process and what the runs read of them:     *)
(* sources/service.py, sources/workbook.py and the inputs of an execution  *)
(* (decisions/service.py, versions/execution.py).  A sync downloads first, *)
(* without any lock, and stores one load under the lock of the process; a  *)
(* run syncs the live sources in the same way and then reads, under that   *)
(* lock, the latest load of each source that is not down.  Rows are known  *)
(* by the state of the remote they were read in; how a download works is   *)
(* module Connector.                                                       *)
(***************************************************************************)
EXTENDS Naturals, FiniteSets, SequencesExt

CONSTANTS
    Http,       \* the sources that are synced
    Live,       \* those of them that every run syncs first
    Books,      \* the sources that a workbook brings
    Requests,   \* the requests of the API, each made once
    None,       \* no request
    MaxRemote   \* bound on the changes of a remote

ASSUME SourcesAssumption ==
    /\ Live \subseteq Http /\ Http \intersect Books = {} /\ IsFiniteSet(Books)
    /\ None \notin Requests
    /\ MaxRemote \in Nat

VARIABLES
    remote,      \* how often each remote has changed
    loads,       \* the rows of `sources`, by id
    status,      \* the latest sync_source span of each source
    clock,       \* of the database, one tick a transaction
    request,     \* what each request does and has read
    holder,      \* the run that holds the lock of the process
    executions   \* the captured executions that were committed

vars == <<remote, loads, status, clock, request, holder, executions>>

-----------------------------------------------------------------------------
Names == Http \union Books

\* A load: its source, the state of the remote, when its transaction began.
LoadRows == [name : Names, got : 0 .. MaxRemote, loaded_at : Nat]

Idle == [kind |-> "none", stage |-> "new", left |-> {}, name |-> None, begun |-> 0, got |-> 0,
         since |-> 0, seen |-> [n \in Http |-> 0], failed |-> {}, down |-> {},
         marked |-> {}, shown |-> << >>, reads |-> << >>]

TypeOK ==
    /\ remote \in [Http -> 0 .. MaxRemote]
    /\ loads \in Seq(LoadRows)
    /\ status \in [Http -> {"never", "ok", "down"}]
    /\ clock \in Nat
    /\ \A r \in Requests :
          /\ request[r].kind \in {"none", "sync", "run", "upload"}
          /\ request[r].stage \in {"new", "next", "download", "landing", "capture", "commit", "done"}
          /\ request[r].left \subseteq Live /\ request[r].failed \subseteq Live
          /\ request[r].down \subseteq Names /\ request[r].name \in Http \union {None}
    /\ holder \in Requests \union {None}
    /\ \A e \in executions : e.down \subseteq Names /\ DOMAIN e.reads \subseteq Names

Init ==
    /\ remote = [n \in Http |-> 0]
    /\ loads = << >> /\ status = [n \in Http |-> "never"] /\ clock = 0
    /\ request = [r \in Requests |-> Idle]
    /\ holder = None /\ executions = {}

-----------------------------------------------------------------------------
\* The current load of a source is its latest by id.
Current(n) ==
    CHOOSE i \in DOMAIN loads :
        /\ loads[i].name = n
        /\ \A j \in DOMAIN loads : loads[j].name = n => j <= i

\* The load the agents work on is the latest by time.
ReadByCompiler(n) ==
    CHOOSE i \in DOMAIN loads :
        /\ loads[i].name = n
        /\ \A j \in DOMAIN loads : loads[j].name = n => loads[j].loaded_at <= loads[i].loaded_at

Loaded == {loads[i].name : i \in DOMAIN loads}

RemoteChanges(n) ==
    /\ remote[n] < MaxRemote
    /\ remote' = [remote EXCEPT ![n] = @ + 1]
    /\ UNCHANGED <<loads, status, clock, request, holder, executions>>

-----------------------------------------------------------------------------
(***************************************************************************)
(* A sync, by itself or for a run                                          *)
(***************************************************************************)

StartSync(r, n) ==
    /\ request[r].stage = "new"
    /\ request' = [request EXCEPT ![r] = [@ EXCEPT !.kind = "sync", !.stage = "download",
                                                   !.name = n, !.begun = clock + 1]]
    /\ clock' = clock + 1
    /\ UNCHANGED <<remote, loads, status, holder, executions>>

\* A run and a reprocess look the process up and then sync source by source.
StartRun(r) ==
    /\ request[r].stage = "new"
    /\ request' = [request EXCEPT ![r] = [@ EXCEPT !.kind = "run", !.stage = "next", !.left = Live,
                       !.begun = clock + 1, !.since = Len(loads), !.seen = remote]]
    /\ clock' = clock + 1
    /\ UNCHANGED <<remote, loads, status, holder, executions>>

NextSync(r, n) ==
    /\ request[r].stage = "next" /\ n \in request[r].left
    /\ request' = [request EXCEPT ![r] = [@ EXCEPT !.stage = "download", !.name = n,
                                                   !.left = request[r].left \ {n}]]
    /\ UNCHANGED <<remote, loads, status, clock, holder, executions>>

Download(r) ==
    /\ request[r].stage = "download"
    /\ request' = [request EXCEPT ![r] = [@ EXCEPT !.stage = "landing",
                                                   !.got = remote[request[r].name]]]
    /\ UNCHANGED <<remote, loads, status, clock, holder, executions>>

\* What follows a sync: nothing, or the next of a run.
After(r, failed) ==
    IF request[r].kind = "run"
    THEN [request[r] EXCEPT !.stage = "next", !.begun = 0, !.got = 0, !.name = None,
                            !.failed = IF failed THEN @ \union {request[r].name} ELSE @]
    ELSE [request[r] EXCEPT !.stage = "done", !.begun = 0, !.got = 0, !.name = None]

\* The configuration, the download or the schema fails: nothing is stored.
SyncFails(r) ==
    /\ request[r].stage \in {"download", "landing"}
    /\ status' = [status EXCEPT ![request[r].name] = "down"]
    /\ request' = [request EXCEPT ![r] = After(r, TRUE)]
    /\ UNCHANGED <<remote, loads, clock, holder, executions>>

\* The load is stored under the lock.  Its time is that of its transaction, which
\* began before the download, or with the lock when an earlier sync of the same run
\* ended the one before.  Whatever fails after the commit, in the detection of stale
\* decisions, fails the sync for the run.  Its status is written at once here; the code
\* records those of a run together, when the outermost span of the run ends.
SyncLands(r) ==
    /\ request[r].stage = "landing" /\ holder = None
    /\ clock' = IF request[r].begun = 0 THEN clock + 1 ELSE clock
    /\ loads' = Append(loads, [name |-> request[r].name, got |-> request[r].got,
                               loaded_at |-> IF request[r].begun = 0 THEN clock + 1
                                             ELSE request[r].begun])
    /\ status' = [status EXCEPT ![request[r].name] = "ok"]
    /\ \E failed \in BOOLEAN : request' = [request EXCEPT ![r] = After(r, failed)]
    /\ UNCHANGED <<remote, holder, executions>>

\* A workbook brings all its tables in one transaction.
Upload(r) ==
    /\ request[r].stage = "new" /\ holder = None
    /\ clock' = clock + 1
    /\ loads' = loads \o SetToSeq({[name |-> n, got |-> 0, loaded_at |-> clock + 1] : n \in Books})
    /\ request' = [request EXCEPT ![r] = [@ EXCEPT !.kind = "upload", !.stage = "done"]]
    /\ UNCHANGED <<remote, status, holder, executions>>

-----------------------------------------------------------------------------
(***************************************************************************)
(* What a run reads                                                        *)
(***************************************************************************)

\* sync_status and list_sources: what the API lists as down, by the latest sync of anybody.
Marked == {n \in Http : status[n] = "down"}

\* Mutant: a source is down while its latest sync, of whichever request, failed.
DownNow(r) == (Live \intersect Marked) \union (Names \ Loaded)

\* The sources whose sync failed for this run, and those that were never loaded.
Down(r) == request[r].failed \union (Names \ Loaded)

\* Mutant: the lock is taken when there is something to write.
RunReadsAnyway(r) ==
    /\ request[r].stage = "next" /\ request[r].left = {}
    /\ request' = [request EXCEPT ![r] = [@ EXCEPT !.stage = "capture", !.down = Down(r),
                       !.marked = Marked,
                       !.shown = [n \in Loaded \ Down(r) |-> Current(n)]]]
    /\ UNCHANGED <<remote, loads, status, clock, holder, executions>>

\* Under the lock: the loads that the reviewer will be shown.
RunLocks(r) ==
    /\ request[r].stage = "next" /\ request[r].left = {} /\ holder = None
    /\ holder' = r
    /\ request' = [request EXCEPT ![r] = [@ EXCEPT !.stage = "capture", !.down = Down(r),
                       !.marked = Marked,
                       !.shown = [n \in Loaded \ Down(r) |-> Current(n)]]]
    /\ UNCHANGED <<remote, loads, status, clock, executions>>

\* The inputs of the execution read the current loads once more, and keep of them the
\* ones shown when a source is down.
RunCaptures(r) ==
    LET kept == IF request[r].down = {} THEN Loaded ELSE
                {n \in Loaded : /\ n \in DOMAIN request[r].shown
                                /\ Current(n) = request[r].shown[n]}
    IN  /\ request[r].stage = "capture"
        /\ request' = [request EXCEPT ![r] = [@ EXCEPT !.stage = "commit",
                                                       !.reads = [n \in kept |-> Current(n)]]]
        /\ UNCHANGED <<remote, loads, status, clock, holder, executions>>

Executed(r) ==
    [since |-> request[r].since, seen |-> request[r].seen, failed |-> request[r].failed,
     down |-> request[r].down, marked |-> request[r].marked,
     shown |-> request[r].shown, reads |-> request[r].reads]

RunCommits(r) ==
    /\ request[r].stage = "commit"
    /\ executions' = executions \union {Executed(r)}
    /\ holder' = None
    /\ request' = [request EXCEPT ![r] = [Idle EXCEPT !.kind = "run", !.stage = "done"]]
    /\ UNCHANGED <<remote, loads, status, clock>>

RunFails(r) ==
    /\ request[r].stage \in {"capture", "commit"}
    /\ holder' = None
    /\ request' = [request EXCEPT ![r] = [Idle EXCEPT !.kind = "run", !.stage = "done"]]
    /\ UNCHANGED <<remote, loads, status, clock, executions>>

-----------------------------------------------------------------------------
Steps(r) ==
    \/ \E n \in request[r].left : NextSync(r, n)
    \/ Download(r) \/ SyncFails(r) \/ SyncLands(r)
    \/ RunLocks(r) \/ RunCaptures(r) \/ RunCommits(r) \/ RunFails(r)

Starts(r) == (\E n \in Http : StartSync(r, n)) \/ StartRun(r) \/ Upload(r)

Next ==
    \/ \E n \in Http : RemoteChanges(n)
    \/ \E r \in Requests : Starts(r) \/ Steps(r)

Spec == Init /\ [][Next]_vars

-----------------------------------------------------------------------------
\* A run reads of a live source only what was loaded since the run began, by itself
\* or by another request, and never an older load: sources/service.py, lines 5 to 8.
ReadsLoadedSince ==
    \A e \in executions : \A n \in Live \intersect DOMAIN e.reads : e.reads[n] > e.since

\* A source whose sync failed for a run is not read by it, though another request loads
\* it before the run takes the lock (decisions/service.py, _inputs).
FailedIsNotRead == \A e \in executions : e.failed \intersect DOMAIN e.reads = {}

\* Every source is read or known to be down, so a rule that does not run has a reason
\* and a replay, which takes the down sources from the inputs, has it as well.
ReadOrDown ==
    \A e \in executions :
        /\ DOMAIN e.reads \union e.down = Names
        /\ DOMAIN e.reads \intersect e.down = {}

\* Of each source, a run reads a load of its own time, or knows it as down.
ReadsAreAccountedFor == TypeOK /\ ReadsLoadedSince /\ FailedIsNotRead /\ ReadOrDown

\* The reviewer is shown the very loads that the rules have read, though both look up
\* the current loads and other requests land theirs in between.
ReviewedAsRead == \A e \in executions : e.shown = e.reads

\* What the module promises of a live source: it is synced at the start of every run and
\* no rule runs on an older snapshot; the rows are those of the remote then, or later.
ReadsFresh ==
    \A e \in executions : \A n \in Live \intersect DOMAIN e.reads :
        loads[e.reads[n]].got >= e.seen[n]

\* The agents compile and test a rule on the loads that the engine would read.
CompiledOnCurrent == \A n \in Loaded : loads[ReadByCompiler(n)].got = loads[Current(n)].got

\* A source whose latest sync failed is not read by a run.
MarkedDownIsNotRead == \A e \in executions : e.marked \intersect DOMAIN e.reads = {}
=============================================================================
