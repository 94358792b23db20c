----------------------------- MODULE Documents -----------------------------
(***************************************************************************)
(* The evidence of a case, ingestion/process_service.py and                *)
(* process_extraction.py: a document is read once, when it is uploaded,    *)
(* and again only if what the process asks of it, how it is read or the    *)
(* rows it is checked against have changed.  Reading takes long and costs  *)
(* money, so duplicate uploads queue behind an advisory lock, and readings *)
(* of one case behind its row; uploads take the row before the process,    *)
(* re-extractions and runs after it.                                       *)
(*                                                                         *)
(* A reading is what it was made with: values, warnings and metrics are    *)
(* data.  Every version has fields; ocr_force_recompute is off.            *)
(***************************************************************************)
EXTENDS Naturals, Sequences

CONSTANTS
    Docs,         \* the documents: a name and a content each
    Requests,     \* the requests of the API
    None,         \* nobody holds a lock
    Contracts,    \* the published versions, in their order
    Rows,         \* the states of the rows of the sources
    MaxLoads,     \* bound on the loads of the sources
    MaxReadings   \* bound on the readings of a document

\* A version: its plan is the fields and the code of the rules, its execution says how
\* documents are read, payment is whether the fields have those of a payable invoice, and
\* extra whether they have others too.
ASSUME DocumentsAssumption ==
    /\ None \notin Requests \union Docs
    /\ Contracts # << >> /\ Contracts \in Seq({Contracts[v] : v \in DOMAIN Contracts})
    /\ \A v \in DOMAIN Contracts :
          /\ DOMAIN Contracts[v] = {"fields", "rules", "execution", "ocr", "payment", "extra"}
          /\ {Contracts[v].ocr, Contracts[v].payment, Contracts[v].extra} \subseteq BOOLEAN
    /\ {MaxLoads, MaxReadings} \subseteq Nat \ {0}

VARIABLES
    version,    \* the active version
    loads,      \* the rows of each load, the last one is current
    status,     \* the status of each case, "none" before its upload
    evidence,   \* the evidence events of each case, oldest first
    process,    \* who holds the row of the process
    row,        \* who holds the row of each case
    queue,      \* who holds the advisory lock of each document
    request     \* what each request is doing

vars == <<version, loads, status, evidence, process, row, queue, request>>

-----------------------------------------------------------------------------
Last(s) == s[Len(s)]

\* cache_key: how a document is read, by the execution of a version and the options left.
Readings == [execution : {Contracts[v].execution : v \in DOMAIN Contracts}, ocr : BOOLEAN]

\* for_process: the settings of the version now, on options that an earlier version may
\* have restricted already.
Configured(ocr) ==
    [execution |-> Contracts[version].execution, ocr |-> Contracts[version].ocr /\ ocr]

\* payment_state: the plan, and the loads of the sources when they check the document.
Reading(reader) ==
    LET now == Contracts[version] IN
    [reader |-> reader, plan |-> <<now.fields, now.rules>>,
     adapter |-> <<now.fields, now.payment>>, extra |-> now.payment /\ now.extra, load |-> IF now.payment THEN Len(loads) ELSE 0]

\* equivalent_sources: another load with the same rows changes nothing.
Equivalent(old, new) ==
    \/ old = new
    \/ old # 0 /\ new # 0 /\ loads[old] = loads[new]

\* Two readings made with the same reader, for the same plan, against the same rows.
Same(old, new) ==
    /\ old.plan = new.plan /\ old.adapter = new.adapter /\ old.reader = new.reader
    /\ Equivalent(old.load, new.load)

\* Whether a reading keeps the cache key of its request.  Reading the extra fields of an
\* invoice writes their key over it (extract_schema); the key is kept only when the rows
\* called for a second look, since the first reading is stored beside it then.
KeysKept(reading) == {~reading.extra, TRUE}

\* What reusable_evidence may answer from: a reading without errors whose key it knows.
Recognised(e) == e.clean /\ e.keyed

\* reusable_evidence: the evidence of a decided case, and that of a pending one which a
\* new reading would only repeat.
Reusable(d, seen, reader) ==
    \/ seen = "DECIDED"
    \/ Recognised(Last(evidence[d])) /\ Same(Last(evidence[d]).reading, Reading(reader))

-----------------------------------------------------------------------------
Idle == [op |-> "none", stage |-> "idle", doc |-> None, seen |-> "none",
         reader |-> [execution |-> None, ocr |-> TRUE], reading |-> None]

TypeOK ==
    /\ version \in DOMAIN Contracts
    /\ loads \in Seq(Rows) /\ Len(loads) \in 1 .. MaxLoads
    /\ status \in [Docs -> {"none", "PENDING", "DECIDED"}]
    /\ \A d \in Docs :
          /\ Len(evidence[d]) <= MaxReadings
          /\ status[d] = "none" <=> evidence[d] = << >>
    /\ process \in Requests \union {None}
    /\ {row, queue} \subseteq [Docs -> Requests \union {None}]
    /\ \A r \in Requests :
          request[r].stage \in {"idle", "queue", "find", "read", "lock", "row", "reread", "decide"}

Init ==
    /\ version = 1
    /\ \E rows \in Rows : loads = <<rows>>
    /\ status = [d \in Docs |-> "none"]
    /\ evidence = [d \in Docs |-> << >>]
    /\ process = None
    /\ row = [d \in Docs |-> None] /\ queue = [d \in Docs |-> None]
    /\ request = [r \in Requests |-> Idle]

\* A commit or a rollback releases every lock of the request.
Ends(r) ==
    /\ request' = [request EXCEPT ![r] = Idle]
    /\ process' = IF process = r THEN None ELSE process
    /\ row' = [d \in Docs |-> IF row[d] = r THEN None ELSE row[d]]
    /\ queue' = [d \in Docs |-> IF queue[d] = r THEN None ELSE queue[d]]

\* The request goes on to another stage with what it knows now.
Goes(r, stage, seen, reader, reading) ==
    request' = [request EXCEPT ![r] = [request[r] EXCEPT !.stage = stage, !.seen = seen,
                                                         !.reader = reader, !.reading = reading]]

At(r, stage) == request[r].stage = stage
Doc(r) == request[r].doc

-----------------------------------------------------------------------------
(***************************************************************************)
(* An upload                                                               *)
(***************************************************************************)

\* upload_document stores the file and resolves how the process reads, without a lock.
Upload(r, d) ==
    /\ At(r, "idle")
    /\ request' = [request EXCEPT ![r] = [Idle EXCEPT !.op = "upload", !.stage = "queue",
                                            !.doc = d, !.reader = Configured(TRUE)]]
    /\ UNCHANGED <<version, loads, status, evidence, process, row, queue>>

\* Mutant: duplicate uploads do not wait for each other.
QueueAside(r) ==
    /\ At(r, "queue")
    /\ request' = [request EXCEPT ![r].stage = "find"]
    /\ UNCHANGED <<version, loads, status, evidence, process, row, queue>>

\* existing_document: duplicate uploads queue behind each other.
Queue(r) ==
    /\ At(r, "queue") /\ queue[Doc(r)] = None
    /\ queue' = [queue EXCEPT ![Doc(r)] = r]
    /\ request' = [request EXCEPT ![r].stage = "find"]
    /\ UNCHANGED <<version, loads, status, evidence, process, row>>

\* The document is new: it is read, for the plan and the sources of this moment.
FindNothing(r) ==
    /\ At(r, "find") /\ status[Doc(r)] = "none"
    /\ Goes(r, "read", "none", request[r].reader, Reading(request[r].reader))
    /\ UNCHANGED <<version, loads, status, evidence, process, row, queue>>

\* There is a case already: its row is locked, and its evidence answers the upload, or it
\* will be read again.
FindCase(r) ==
    /\ At(r, "find") /\ status[Doc(r)] # "none" /\ row[Doc(r)] = None
    /\ IF Reusable(Doc(r), status[Doc(r)], request[r].reader)
       THEN Ends(r)
       ELSE /\ row' = [row EXCEPT ![Doc(r)] = r]
            /\ Goes(r, "lock", status[Doc(r)], request[r].reader, None)
            /\ UNCHANGED <<process, queue>>
    /\ UNCHANGED <<version, loads, status, evidence>>

\* attach_document: under the lock of the process, the case and its reading are inserted.
\* A case that is there already keeps its symbols.
Attach(r) ==
    /\ At(r, "read") /\ process = None
    /\ Len(evidence[Doc(r)]) < MaxReadings
    /\ \E clean \in BOOLEAN, keyed \in KeysKept(request[r].reading) :
          evidence' = [evidence EXCEPT ![Doc(r)] =
              Append(@, [reading |-> request[r].reading, clean |-> clean, keyed |-> keyed])]
    /\ status' = [status EXCEPT ![Doc(r)] = IF @ = "none" THEN "PENDING" ELSE @]
    /\ Ends(r)
    /\ UNCHANGED <<version, loads>>

-----------------------------------------------------------------------------
(***************************************************************************)
(* A re-extraction, by itself or as the end of an upload                   *)
(***************************************************************************)

\* reextract_document fetches the case, and keeps the status it saw.
Reextract(r, d) ==
    /\ At(r, "idle") /\ status[d] # "none"
    /\ request' = [request EXCEPT ![r] = [Idle EXCEPT !.op = "reextract", !.stage = "lock",
                                            !.doc = d, !.seen = status[d]]]
    /\ UNCHANGED <<version, loads, status, evidence, process, row, queue>>

\* Mutant: it only looks at the process.
LockNothing(r) ==
    /\ At(r, "lock") /\ process = None
    /\ Goes(r, "row", request[r].seen, Configured(request[r].reader.ocr), None)
    /\ UNCHANGED <<version, loads, status, evidence, process, row, queue>>

\* It locks the process, and resolves how the process reads now.
Lock(r) ==
    /\ At(r, "lock") /\ process = None
    /\ process' = r
    /\ Goes(r, "row", request[r].seen, Configured(request[r].reader.ocr), None)
    /\ UNCHANGED <<version, loads, status, evidence, row, queue>>

\* It locks the row of the case: what was decided when it was fetched is refused, what
\* would be read to no use is answered from the evidence, the rest is read.
LockRow(r) ==
    /\ At(r, "row") /\ row[Doc(r)] \in {None, r}
    /\ IF request[r].seen = "DECIDED" \/ Reusable(Doc(r), request[r].seen, request[r].reader)
       THEN Ends(r)
       ELSE /\ row' = [row EXCEPT ![Doc(r)] = r]
            /\ Goes(r, "reread", request[r].seen, request[r].reader, Reading(request[r].reader))
            /\ UNCHANGED <<process, queue>>
    /\ UNCHANGED <<version, loads, status, evidence>>

\* The new reading replaces the symbols of the case.
Reread(r) ==
    /\ At(r, "reread")
    /\ Len(evidence[Doc(r)]) < MaxReadings
    /\ \E clean \in BOOLEAN, keyed \in KeysKept(request[r].reading) :
          evidence' = [evidence EXCEPT ![Doc(r)] =
              Append(@, [reading |-> request[r].reading, clean |-> clean, keyed |-> keyed])]
    /\ Ends(r)
    /\ UNCHANGED <<version, loads, status>>

-----------------------------------------------------------------------------
(***************************************************************************)
(* What else takes the same locks                                          *)
(***************************************************************************)

\* A run (module Decisions) locks the process, and then the pending cases.
Run(r) ==
    /\ At(r, "idle") /\ process = None
    /\ process' = r
    /\ request' = [request EXCEPT ![r] = [Idle EXCEPT !.op = "run", !.stage = "decide"]]
    /\ UNCHANGED <<version, loads, status, evidence, row, queue>>

Pending == {d \in Docs : status[d] = "PENDING"}

Decide(r) ==
    /\ At(r, "decide") /\ \A d \in Pending : row[d] = None
    /\ status' = [d \in Docs |-> IF d \in Pending THEN "DECIDED" ELSE status[d]]
    /\ Ends(r)
    /\ UNCHANGED <<version, loads, evidence>>

\* A publication (module Versions) and a load of rows (module Sources).
Publish ==
    /\ process = None /\ version < Len(Contracts)
    /\ version' = version + 1
    /\ UNCHANGED <<loads, status, evidence, process, row, queue, request>>

Load ==
    /\ process = None /\ Len(loads) < MaxLoads
    /\ \E rows \in Rows : loads' = Append(loads, rows)
    /\ UNCHANGED <<version, status, evidence, process, row, queue, request>>

\* Requests that wait for each other: the holder of the process for a row, the holder of
\* a row for the process.
Deadlocked(r) ==
    \/ /\ At(r, "lock")
       /\ \E q \in Requests : /\ process = q
                              /\ \/ At(q, "row") /\ row[Doc(q)] = r
                                 \/ At(q, "decide") /\ \E d \in Pending : row[d] = r
    \/ /\ process = r
       /\ \E q \in Requests : /\ At(q, "lock")
                              /\ \/ At(r, "row") /\ row[Doc(r)] = q
                                 \/ At(r, "decide") /\ \E d \in Pending : row[d] = q

\* PostgreSQL ends one of them, and a reader that raises ends its request.
Fails(r) ==
    /\ Deadlocked(r) \/ At(r, "read") \/ At(r, "reread")
    /\ Ends(r)
    /\ UNCHANGED <<version, loads, status, evidence>>

Next ==
    \/ Publish \/ Load
    \/ \E r \in Requests :
          \/ \E d \in Docs : Upload(r, d) \/ Reextract(r, d)
          \/ Queue(r) \/ FindNothing(r) \/ FindCase(r) \/ Attach(r)
          \/ Lock(r) \/ LockRow(r) \/ Reread(r)
          \/ Run(r) \/ Decide(r)
          \/ Fails(r)

Spec == Init /\ [][Next]_vars

-----------------------------------------------------------------------------
(***************************************************************************)
(* Properties                                                              *)
(***************************************************************************)

\* Nothing that was read is read again: after a reading without errors that kept its key,
\* the next one of the document differs in its reader, its plan or the rows it is checked
\* against, whoever uploads it again or re-extracts it meanwhile (existing_document,
\* reusable_evidence).
NothingReadTwice ==
    \A d \in Docs : \A k \in 1 .. Len(evidence[d]) - 1 :
        Recognised(evidence[d][k]) => ~Same(evidence[d][k].reading, evidence[d][k + 1].reading)

\* Every reading without errors is recognised.  Not so: a pending invoice whose process
\* asks for further fields is read again by each upload and re-extraction, because
\* reusable_evidence looks for the key that extract_schema has written over.
CleanIsNotRepeated ==
    \A d \in Docs : \A k \in 1 .. Len(evidence[d]) - 1 :
        evidence[d][k].clean => ~Same(evidence[d][k].reading, evidence[d][k + 1].reading)

\* A step that reads a case again reads it by what holds now.
ReadOfNow ==
    \A d \in Docs :
        LET new == Last(evidence'[d]) IN
        (Len(evidence[d]) > 0 /\ evidence'[d] # evidence[d]) =>
            \E reader \in Readings : Same(new.reading, Reading(reader))

\* A pending case that is read again is read by what the process has published and loaded
\* when the reading is stored, however long the reader took (reextract_document).
RereadIsCurrent == [][ReadOfNow]_vars

\* The cases of an upload wait for nobody that waits for them: not so, an upload of a
\* case locks its row before the process, a re-extraction and a run after it.
NobodyWaitsInACircle == \A r \in Requests : ~Deadlocked(r)

\* A pending case is read again as the published version says.  Not so: reextract_document
\* restricts options that upload_document restricted before by the version it saw.
RereadAsPublished ==
    [][\A d \in Docs :
          LET new == Last(evidence'[d]) IN
          (Len(evidence[d]) > 0 /\ evidence'[d] # evidence[d]) =>
              new.reading.reader = Configured(TRUE)]_vars
=============================================================================
