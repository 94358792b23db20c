------------------------------ MODULE Decisions ------------------------------
(***************************************************************************)
(* The life of a case, decisions/service.py with the writes other parts    *)
(* make to the same rows: cases are uploaded, read, decided by the engine, *)
(* decided again, resolved by a person and exported, by requests that run  *)
(* side by side and take the process row (versions.lock) where the code    *)
(* does.  A request is one database transaction: nothing it wrote is seen  *)
(* before its commit, and an exception or a crash before it leaves nothing.*)
(*                                                                         *)
(* Steps: what a request does between taking the lock and committing reads *)
(* and writes rows that only holders of the lock write, so it is two       *)
(* steps, lock and commit.  What is read before or without the lock (the   *)
(* row of a case in reextract_document, the two queries of export) is a    *)
(* step of its own.                                                        *)
(*                                                                         *)
(* The verdict of the engine is any decision type of the version: module   *)
(* Engine says which.  Sources, executions and traces are left out here.   *)
(***************************************************************************)
EXTENDS Naturals, Sequences

CONSTANTS
    Instances,      \* the cases, by id: numbers, in the order of their upload
    Names,          \* file names
    NameOf,         \* the name of each case; two cases may share one
    Requests,       \* the requests in flight
    NoRequest,      \* nobody holds the lock
    DecisionTypes,  \* everything any version can conclude
    Versions,       \* the versions of the process, by number
    First,          \* the version active at the start
    TypesOf,        \* the decision types of each version
    Reviewed,       \* the versions that configure decision_review
    Readings,       \* what the extraction of a document may read
    NoReading,      \* a case without symbols
    MaxRows         \* bound: rows in the history of each case

ASSUME DecisionsAssumption ==
    /\ Instances \subseteq Nat
    /\ NameOf \in [Instances -> Names]
    /\ NoRequest \notin Requests
    /\ Versions \subseteq Nat /\ First \in Versions
    /\ TypesOf \in [Versions -> SUBSET DecisionTypes]
    /\ NoReading \notin Readings
    /\ MaxRows \in [Instances -> Nat]

Statuses == {"ABSENT", "PENDING", "DECIDED"}
Ops == {"idle", "run", "reprocess", "resolve", "reading", "extract", "export"}

VARIABLES
    status,     \* Instance.status
    symbols,    \* Instance.symbols, the evidence a case is decided on
    history,    \* the decisions of each case, oldest first
    active,     \* Process.active_version_id
    lock,       \* who holds the process row FOR UPDATE
    req,        \* what each request has read so far
    delivered   \* the lines of the last export

History == INSTANCE DecisionLog WITH log <- history

vars == <<status, symbols, history, active, lock, req, delivered>>

Rows == History!Rows
Latest(h) == History!Latest(h)

Idle == [op |-> "idle", picked |-> {}, version |-> First, cached |-> "ABSENT"]

Present == {i \in Instances : status[i] # "ABSENT"}

TypeOK ==
    /\ status \in [Instances -> Statuses]
    /\ symbols \in [Instances -> Readings \union {NoReading}]
    /\ history \in [Instances -> Seq(Rows)]
    /\ active \in Versions
    /\ lock \in Requests \union {NoRequest}
    /\ req \in [Requests -> [op : Ops, picked : SUBSET Instances,
                             version : Versions, cached : Statuses]]
    /\ delivered \subseteq [instance : Instances, row : Rows]

Init ==
    /\ status = [i \in Instances |-> "ABSENT"]
    /\ symbols = [i \in Instances |-> NoReading]
    /\ history = [i \in Instances |-> <<>>]
    /\ active = First
    /\ lock = NoRequest
    /\ req = [r \in Requests |-> Idle]
    /\ delivered = {}

-----------------------------------------------------------------------------
(* The process row: versions.lock, held until the transaction ends.        *)

Begin(r, op, picked) ==
    /\ req[r].op = "idle"
    /\ lock = NoRequest
    /\ lock' = r
    /\ req' = [req EXCEPT ![r] = [@ EXCEPT !.op = op, !.picked = picked,
                                           !.version = active]]

End(r, op) ==
    /\ req[r].op = op
    /\ lock' = IF lock = r THEN NoRequest ELSE lock
    /\ req' = [req EXCEPT ![r] = Idle]

\* attach_document: a file becomes a case, with what the extraction read, under
\* the lock.  A file uploaded before changes nothing.
Upload(i) ==
    /\ lock = NoRequest
    /\ status[i] = "ABSENT"
    /\ \A j \in Instances : j < i => status[j] # "ABSENT"
    /\ status' = [status EXCEPT ![i] = "PENDING"]
    /\ \E s \in Readings \union {NoReading} :
          symbols' = [symbols EXCEPT ![i] = s]
    /\ UNCHANGED <<history, active, lock, req, delivered>>

\* publish_snapshot: a newer version is activated under the lock.
Publish ==
    /\ lock = NoRequest
    /\ \E v \in Versions : v > active /\ active' = v
    /\ UNCHANGED <<status, symbols, history, lock, req, delivered>>

-----------------------------------------------------------------------------
(* The engine decides: run and reprocess.                                  *)

\* What _append may write for a case: any verdict of the version, with the
\* assessment the reviewer gives it where the version asks for one.
EngineRows(v) ==
    {row \in Rows : /\ row.author = "engine"
                    /\ row.version = v
                    /\ row.decision \in TypesOf[v]
                    /\ row.review = "none" <=> v \notin Reviewed}

Room(i) == Len(history[i]) < MaxRows[i]

\* Mutant: a run takes every case it can read, decided or not.
RunLockAll(r) ==
    LET pending == {i \in Present : symbols[i] # NoReading}
    IN  /\ pending # {}
        /\ \A i \in pending : Room(i)
        /\ Begin(r, "run", pending)
        /\ UNCHANGED <<status, symbols, history, active, delivered>>

RunLock(r) ==
    LET pending == {i \in Instances : status[i] = "PENDING"
                                      /\ symbols[i] # NoReading}
    IN  /\ pending # {}
        /\ \A i \in pending : Room(i)
        /\ Begin(r, "run", pending)
        /\ UNCHANGED <<status, symbols, history, active, delivered>>

RunCommit(r) ==
    /\ End(r, "run")
    /\ \E verdict \in [req[r].picked -> EngineRows(req[r].version)] :
          history' = [i \in Instances |->
                        IF i \in req[r].picked
                          THEN Append(history[i], verdict[i])
                          ELSE history[i]]
    /\ status' = [i \in Instances |-> IF i \in req[r].picked THEN "DECIDED"
                                      ELSE status[i]]
    /\ UNCHANGED <<symbols, active, delivered>>

\* `names` limits a reprocess to some cases.
ReprocessLock(r, names) ==
    LET selected == {i \in Instances : /\ status[i] = "DECIDED"
                                       /\ symbols[i] # NoReading
                                       /\ NameOf[i] \in names}
    IN  /\ selected # {}
        /\ \A i \in selected : Room(i)
        /\ Begin(r, "reprocess", selected)
        /\ UNCHANGED <<status, symbols, history, active, delivered>>

\* Mutant: a person's decision is replaced where the engine disagrees.
OverridesPersons(h, row) ==
    /\ row.decision # Latest(h).decision
    /\ Latest(h).review # "human"

\* The verdict is written over the latest decision: it changes it, and neither
\* a person nor a pending review stands in the way.  Otherwise it is counted
\* as unchanged or reported as a conflict.
Overrides(h, row) ==
    /\ row.decision # Latest(h).decision
    /\ Latest(h).author = "engine"
    /\ Latest(h).review # "human"

ReprocessCommit(r) ==
    /\ End(r, "reprocess")
    /\ \E verdict \in [req[r].picked -> EngineRows(req[r].version)] :
          history' = [i \in Instances |->
                        IF i \in req[r].picked /\ Overrides(history[i], verdict[i])
                          THEN Append(history[i], verdict[i])
                          ELSE history[i]]
    /\ UNCHANGED <<status, symbols, active, delivered>>

-----------------------------------------------------------------------------
(* A person decides: resolve.                                              *)

ResolveLock(r, i) ==
    /\ i \in Present
    /\ Room(i)
    /\ Begin(r, "resolve", {i})
    /\ UNCHANGED <<status, symbols, history, active, delivered>>

\* The version a person's row belongs to: that of the decision it answers.
ResolvesIn(h, v) == IF h = <<>> THEN v ELSE Latest(h).version

PersonRows(h, v) ==
    {[author |-> "person", decision |-> d, version |-> ResolvesIn(h, v),
      review |-> "none"] : d \in TypesOf[ResolvesIn(h, v)]}

ResolveCommit(r) ==
    /\ End(r, "resolve")
    /\ \E i \in req[r].picked : \E row \in PersonRows(history[i], req[r].version) :
          /\ history' = [history EXCEPT ![i] = Append(@, row)]
          /\ status' = [status EXCEPT ![i] = "DECIDED"]
    /\ UNCHANGED <<symbols, active, delivered>>

-----------------------------------------------------------------------------
(* The evidence of a case is read again: reextract_document.               *)

\* session.get loads the row of the case into the session, without a lock.
ExtractRead(r, i) ==
    /\ req[r].op = "idle"
    /\ i \in Present
    /\ req' = [req EXCEPT ![r] = [@ EXCEPT !.op = "reading", !.picked = {i},
                                           !.cached = status[i]]]
    /\ UNCHANGED <<status, symbols, history, active, lock, delivered>>

\* The lock is granted.  The row is selected again FOR UPDATE, but without
\* populate_existing the session returns the object it has, and its status is
\* the one read before: the guard looks at that.
ExtractLock(r) ==
    /\ req[r].op = "reading"
    /\ lock = NoRequest
    /\ req[r].cached = "PENDING"
    /\ lock' = r
    /\ req' = [req EXCEPT ![r] = [@ EXCEPT !.op = "extract"]]
    /\ UNCHANGED <<status, symbols, history, active, delivered>>

ExtractCommit(r) ==
    /\ End(r, "extract")
    /\ \E i \in req[r].picked, s \in Readings \union {NoReading} :
          symbols' = [symbols EXCEPT ![i] = s]
    /\ UNCHANGED <<status, history, active, delivered>>

-----------------------------------------------------------------------------
(* The delivery: export, two queries and no lock.                          *)

\* The most recent case of each name.
Chosen(names) ==
    {i \in Present : /\ NameOf[i] \in names
                     /\ \A j \in Present : NameOf[j] = NameOf[i] => j <= i}

\* The first query: a case that is pending stops the export.
ExportScan(r, names) ==
    /\ req[r].op = "idle"
    /\ Chosen(names) # {}
    /\ \A i \in Chosen(names) : status[i] = "DECIDED"
    /\ req' = [req EXCEPT ![r] = [@ EXCEPT !.op = "export",
                                           !.picked = Chosen(names)]]
    /\ UNCHANGED <<status, symbols, history, active, lock, delivered>>

\* The place of the latest row of an author, 0 when there is none.
LatestBy(h, author) ==
    CHOOSE n \in 0 .. Len(h) :
        /\ n > 0 => h[n].author = author
        /\ \A m \in (n + 1) .. Len(h) : h[m].author # author

\* Mutant: a questioned decision is exported while it waits.
AwaitingNever(h) == FALSE

\* The engine's latest decision was questioned and no person answered yet.
Awaiting(h) ==
    LET e == LatestBy(h, "engine")
    IN  e > 0 /\ h[e].review = "human" /\ LatestBy(h, "person") < e

\* The row that is exported: the engine's where there is one, but a person's
\* answer to a reviewed decision.
Exported(h) ==
    LET e == LatestBy(h, "engine")
        p == LatestBy(h, "person")
    IN  IF e = 0 \/ (h[e].review # "none" /\ p > e) THEN p ELSE e

\* The second query, decisions and their reviews, and the lines.
ExportRead(r) ==
    /\ End(r, "export")
    /\ \A i \in req[r].picked :
          ~Awaiting(history[i]) /\ Exported(history[i]) > 0
    /\ delivered' = {[instance |-> i, row |-> history[i][Exported(history[i])]] :
                        i \in req[r].picked}
    /\ UNCHANGED <<status, symbols, history, active>>

-----------------------------------------------------------------------------
\* An error answer, an exception, a lost connection or a dry run: the
\* transaction is rolled back and its locks are released.
Abort(r) ==
    /\ req[r].op # "idle"
    /\ End(r, req[r].op)
    /\ UNCHANGED <<status, symbols, history, active, delivered>>

\* The server stops: every transaction in flight is rolled back.
Crash ==
    /\ req' = [r \in Requests |-> Idle]
    /\ lock' = NoRequest
    /\ UNCHANGED <<status, symbols, history, active, delivered>>

Next ==
    \/ \E i \in Instances : Upload(i)
    \/ Publish
    \/ \E r \in Requests :
          \/ RunLock(r)
          \/ RunCommit(r)
          \/ \E names \in SUBSET Names : ReprocessLock(r, names)
          \/ ReprocessCommit(r)
          \/ \E i \in Instances : ResolveLock(r, i)
          \/ ResolveCommit(r)
          \/ \E i \in Instances : ExtractRead(r, i)
          \/ ExtractLock(r)
          \/ ExtractCommit(r)
          \/ \E names \in SUBSET Names : ExportScan(r, names)
          \/ ExportRead(r)
          \/ Abort(r)
    \/ Crash

Spec == Init /\ [][Next]_vars

-----------------------------------------------------------------------------
(***************************************************************************)
(* Properties                                                              *)
(***************************************************************************)

\* Model.py's promise on the table `decisions`, "append-only history", with the
\* rules of module DecisionLog on who may speak after whom: what service.py
\* does to the histories, requests interleaved, is what the log allows.
HistoryIsLog == History!Spec

\* The parts of that promise, on the histories themselves.
PersonStands == History!PersonStands
ReviewAnswered == History!ReviewAnswered
EngineRowsChange == History!EngineRowsChange
OutcomeOfItsVersion == History!OutcomeOfItsVersion

\* Instance.status and the table `decisions` tell the same: a case is DECIDED
\* when it has a decision, and only then.  reprocess indexes latest[instance.id]
\* and export reads rows on the strength of the status alone.
DecidedIffHistory ==
    \A i \in Instances : status[i] = "DECIDED" <=> history[i] # <<>>

\* The engine decides by the version that is active when the decision becomes
\* visible, never by one that a publication replaced meanwhile.
DecidedByActiveVersion ==
    [][\A i \in Instances :
          (history'[i] # history[i] /\ Latest(history'[i]).author = "engine")
              => Latest(history'[i]).version = active']_vars

\* ADR 0021: no line of an export is a decision still waiting for its review.
ExportAwaitsReview ==
    \A line \in delivered :
        line.row.author = "engine" => line.row.review # "human"

\* _export's docstring: "engine-first", but "a later human resolution when
\* present" where decisions are reviewed.  A line is the last word on its case,
\* unless it is an automatic decision nobody was asked to review.
ExportsLastWord ==
    [][\A line \in delivered' :
          \/ line \in delivered
          \/ line.row = Latest(history[line.instance])
          \/ line.row.author = "engine" /\ line.row.review = "none"]_vars

\* Between the two queries of an export nothing it chose loses its decision:
\* the branch "undecided instances" of _export is never taken.
ExportFindsDecisions ==
    \A r \in Requests : req[r].op = "export" =>
        \A i \in req[r].picked : Exported(history[i]) > 0

\* process_extraction.py:278-279: "Neither operation can change the evidence
\* after the other has decided the instance."
EvidenceFrozen ==
    [][\A i \in Instances : status[i] = "DECIDED" => symbols'[i] = symbols[i]]_vars
=============================================================================
