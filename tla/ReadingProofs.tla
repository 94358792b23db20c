--------------------------- MODULE ReadingProofs ---------------------------
(***************************************************************************)
(* Proofs about reading, for any documents, requests, versions, readers,   *)
(* pages and deployments.  Each part has an invariant of its own:          *)
(* EvidenceInv, IdentifierInv, FieldInv and BindingInv.                    *)
(***************************************************************************)
EXTENDS MCReading, SequenceTheorems, FiniteSetTheorems, WellFoundedInduction, TLAPS

-----------------------------------------------------------------------------
(***************************************************************************)
(* Numbers and counts                                                      *)
(***************************************************************************)
LEMMA LeastNumber ==
    ASSUME NEW S \in SUBSET Nat, S # {}
    PROVE  \E i \in S : \A j \in S : i <= j
  <1>1. PICK i \in S : \A j \in S : ~ (<<j, i>> \in OpToRel(<, Nat))
    BY NatLessThanWellFounded, WFMin
  <1>2. \A j \in S : ~ (j < i)
    BY <1>1 DEF OpToRel
  <1> QED
    BY <1>2

\* A set that counts for one has a member, and one that counts for two has two.
LEMMA Counts ==
    ASSUME NEW S
    PROVE  /\ Cardinality(S) = 1 => S # {} /\ (CHOOSE v \in S : TRUE) \in S
           /\ Cardinality(S) >= 2 => \E x, y \in S : x # y
  <1>1. Cardinality({}) = 0 /\ \A x : Cardinality({x}) = 1
    BY FS_EmptySet, FS_Singleton
  <1>2. ASSUME Cardinality(S) >= 2 PROVE \E x, y \in S : x # y
    <2> SUFFICES ASSUME \A x, y \in S : x = y PROVE FALSE
      OBVIOUS
    <2>1. S # {}
      BY <1>1, <1>2
    <2>2. PICK x : S = {x}
      BY <2>1
    <2>3. Cardinality(S) = 1
      BY <1>1, <2>2
    <2> QED
      BY <1>2, <2>3
  <1> QED
    BY <1>1, <1>2

-----------------------------------------------------------------------------
(***************************************************************************)
(* The evidence of a case (module Documents).  A request that found no     *)
(* case holds the queue of its document, so the case it inserts is its     *)
(* first reading; one that reads again holds the process, so that neither  *)
(* version, loads nor evidence change under its reading.                   *)
(***************************************************************************)
IsSequence(s) == Len(s) \in Nat /\ s \in Seq({s[k] : k \in 1 .. Len(s)})

Evidenced ==
    /\ version \in DOMAIN Contracts /\ loads \in Seq(Rows)
    /\ DOMAIN status = Docs /\ DOMAIN evidence = Docs
    /\ DOMAIN queue = Docs
    /\ \A d \in Docs :
          /\ IsSequence(evidence[d])
          /\ status[d] = "none" <=> Len(evidence[d]) = 0
          /\ \A k \in 1 .. Len(evidence[d]) : evidence[d][k].reading.load \in 0 .. Len(loads)

Shaped ==
    /\ DOMAIN request = Requests
    /\ \A r \in Requests :
          DOMAIN request[r] = {"op", "stage", "doc", "seen", "reader", "reading"}

\* What a request knows and holds.
Holds(r) ==
    LET q == request[r] IN
    /\ q.stage \in {"queue", "find", "read", "lock", "row", "reread"} => q.doc \in Docs
    /\ q.stage \in {"find", "read"} => queue[q.doc] = r
    /\ q.stage = "read" => status[q.doc] = "none" /\ q.reading.load \in 0 .. Len(loads)
    /\ q.stage \in {"lock", "row", "reread"} => status[q.doc] # "none"
    /\ q.stage \in {"row", "reread", "decide"} => process = r
    /\ q.stage \in {"row", "reread"} => q.reader \in Readings
    /\ q.stage = "reread" =>
          /\ q.reading = Reading(q.reader)
          /\ ~(Recognised(Last(evidence[q.doc])) /\ Same(Last(evidence[q.doc]).reading, q.reading))

EvidenceInv ==
    /\ Evidenced /\ Shaped
    /\ \A r \in Requests : Holds(r)
    /\ NothingReadTwice

LEMMA Appended ==
    ASSUME NEW s, IsSequence(s), NEW e
    PROVE  /\ IsSequence(Append(s, e)) /\ Len(Append(s, e)) = Len(s) + 1
           /\ Append(s, e)[Len(s) + 1] = e
           /\ \A k \in 1 .. Len(s) : Append(s, e)[k] = s[k]
  <1> DEFINE S == {s[k] : k \in 1 .. Len(s)}
             T == S \union {e}
             t == Append(s, e)
  <1>1. s \in Seq(T) /\ e \in T
    BY DEF IsSequence
  <1>2. /\ t \in Seq(T) /\ Len(t) = Len(s) + 1 /\ t[Len(s) + 1] = e
        /\ \A k \in 1 .. Len(s) : t[k] = s[k]
    <2> HIDE DEF S, T
    <2> QED BY <1>1
  <1>3. t \in Seq({t[k] : k \in 1 .. Len(t)})
    <2> HIDE DEF S, T, t
    <2> DEFINE V == {t[k] : k \in 1 .. Len(t)}
    <2>1. /\ t = [k \in 1 .. Len(t) |-> t[k]] /\ Len(t) \in Nat
          /\ \A k \in 1 .. Len(t) : t[k] \in V
      BY <1>2
    <2> HIDE DEF V
    <2>2. t \in [1 .. Len(t) -> V]
      BY <2>1
    <2>3. t \in Seq(V)
      BY <2>1, <2>2
    <2> QED
      BY <2>3 DEF V
  <1>4. IsSequence(t)
    <2> HIDE DEF T, t
    <2> QED
      BY <1>2, <1>3 DEF IsSequence
  <1>5. t = Append(s, e)
    OBVIOUS
  <1> HIDE DEF t
  <1> QED
    BY <1>2, <1>4, <1>5

\* Contracts are what DocumentsAssumption says.
LEMMA ReadingFacts ==
    ASSUME Evidenced, NEW o
    PROVE  /\ Configured(o) \in Readings
           /\ Reading(o).load \in 0 .. Len(loads)
  <1>1. PICK b \in BOOLEAN : b = (Contracts[version].ocr /\ o)
    BY Zenon
  <1>2. Configured(o) \in Readings
    BY <1>1 DEF Configured, Readings, Evidenced
  <1>3. Len(loads) \in Nat
    BY DEF Evidenced
  <1>4. Reading(o).load = IF Contracts[version].payment THEN Len(loads) ELSE 0
    BY DEF Reading
  <1> QED
    BY <1>2, <1>3, <1>4

LEMMA Sooner ==
    ASSUME NEW r \in Requests, Shaped, Holds(r), NEW s, NEW n, NEW o, NEW g, Goes(r, s, n, o, g)
    PROVE  /\ Shaped'
           /\ request'[r].stage = s /\ request'[r].doc = request[r].doc
           /\ request'[r].reader = o /\ request'[r].reading = g
           /\ \A q \in Requests \ {r} : request'[q] = request[q]
  BY DEF Shaped, Goes

LEMMA IdleIs ==
    /\ DOMAIN Idle = {"op", "stage", "doc", "seen", "reader", "reading"}
    /\ Idle.stage = "idle"
  BY DEF Idle

LEMMA Ended ==
    ASSUME NEW r \in Requests, Shaped, Evidenced, Ends(r)
    PROVE  /\ Shaped' /\ DOMAIN queue' = Docs
           /\ request'[r].stage = "idle"
           /\ \A q \in Requests \ {r} :
                 /\ request'[q] = request[q]
                 /\ process = q => process' = q
                 /\ \A d \in Docs : queue[d] = q => queue'[d] = q
  BY IdleIs DEF Shaped, Evidenced, Ends

-----------------------------------------------------------------------------
\* Who is where another cannot be.
LEMMA Apart ==
    ASSUME EvidenceInv, NEW q \in Requests, NEW r \in Requests \ {q}
    PROVE  /\ request[q].stage \in {"row", "reread", "decide"} => process # r /\ process # None
           /\ (request[q].stage \in {"find", "read"} /\ request[r].stage \in {"find", "read"}) =>
                 request[q].doc # request[r].doc
  BY DocumentsAssumption DEF EvidenceInv, Holds

LEMMA HoldsStill ==
    ASSUME NEW q \in Requests, Holds(q), request'[q] = request[q],
           UNCHANGED <<version, loads, status, evidence>>,
           process = q => process' = q,
           \A d \in Docs : queue[d] = q => queue'[d] = q
    PROVE  Holds(q)'
  BY DEF Holds, Reading, Same, Equivalent, Last, Recognised

LEMMA NothingStill ==
    ASSUME NothingReadTwice, UNCHANGED <<loads, evidence>>
    PROVE  NothingReadTwice'
  BY DEF NothingReadTwice, Same, Equivalent, Recognised

\* A step of one request that changes no evidence.
LEMMA QuietStep ==
    ASSUME EvidenceInv, NEW r \in Requests,
           UNCHANGED <<version, loads, status, evidence>>,
           Shaped', Holds(r)', DOMAIN queue' = Docs,
           \A q \in Requests \ {r} :
              /\ request'[q] = request[q]
              /\ process = q => process' = q
              /\ \A d \in Docs : queue[d] = q => queue'[d] = q
    PROVE  EvidenceInv'
  <1>1. \A q \in Requests : Holds(q)'
    BY HoldsStill DEF EvidenceInv
  <1>2. Evidenced'
    <2>1. Evidenced
      BY DEF EvidenceInv
    <2>2. /\ version' \in DOMAIN Contracts /\ loads' \in Seq(Rows)
          /\ DOMAIN status' = Docs /\ DOMAIN evidence' = Docs
      BY <2>1 DEF Evidenced
    <2>3. ASSUME NEW d \in Docs
          PROVE  /\ IsSequence(evidence'[d])
                 /\ status'[d] = "none" <=> Len(evidence'[d]) = 0
                 /\ \A k \in 1 .. Len(evidence'[d]) :
                       evidence'[d][k].reading.load \in 0 .. Len(loads')
      BY <2>1 DEF Evidenced
    <2> QED
      BY <2>2, <2>3 DEF Evidenced, IsSequence
  <1> QED
    BY <1>1, <1>2, NothingStill DEF EvidenceInv

LEMMA PublishKeeps ==
    ASSUME EvidenceInv, Publish
    PROVE  EvidenceInv'
  <1>1. Evidenced'
    <2>1. version + 1 \in DOMAIN Contracts
      BY DocumentsAssumption DEF Publish, EvidenceInv, Evidenced
    <2> QED
      BY <2>1 DEF Publish, EvidenceInv, Evidenced, IsSequence
  <1>2. ASSUME NEW q \in Requests PROVE Holds(q)'
    <2>1. request[q].stage \notin {"row", "reread", "decide"}
      BY DocumentsAssumption DEF EvidenceInv, Holds, Publish
    <2> QED
      BY <2>1 DEF Publish, EvidenceInv, Holds
  <1> QED
    BY <1>1, <1>2, NothingStill DEF Publish, EvidenceInv, Shaped

\* More loads do not change which readings are the same.
LEMMA SameWithMore ==
    ASSUME NEW old, NEW new, loads \in Seq(Rows), NEW more, loads' = Append(loads, more),
           old.load \in 0 .. Len(loads), new.load \in 0 .. Len(loads)
    PROVE  Same(old, new)' <=> Same(old, new)
  BY DEF Same, Equivalent

LEMMA LoadKeeps ==
    ASSUME EvidenceInv, Load
    PROVE  EvidenceInv'
  <1>1. PICK more \in Rows : loads' = Append(loads, more)
    BY DEF Load
  <1>2. loads \in Seq(Rows) /\ loads' \in Seq(Rows) /\ Len(loads') = Len(loads) + 1
    BY <1>1 DEF EvidenceInv, Evidenced
  <1>3. Evidenced'
    <2>1. UNCHANGED <<version, status, evidence, queue>>
      BY DEF Load
    <2>2. 0 .. Len(loads) \subseteq 0 .. Len(loads')
      BY <1>2
    <2>3. \A d \in Docs : IsSequence(evidence[d])'
      BY <2>1 DEF EvidenceInv, Evidenced, IsSequence
    <2> QED
      BY <1>2, <2>1, <2>2, <2>3 DEF EvidenceInv, Evidenced
  <1>4. ASSUME NEW q \in Requests PROVE Holds(q)'
    <2>1. request[q].stage \notin {"row", "reread", "decide"}
      BY DocumentsAssumption DEF EvidenceInv, Holds, Load
    <2> QED
      BY <1>2, <2>1 DEF Load, EvidenceInv, Holds
  <1>5. NothingReadTwice'
    <2> SUFFICES ASSUME NEW d \in Docs, NEW k \in 1 .. Len(evidence[d]) - 1, Recognised(evidence[d][k])
                 PROVE  ~Same(evidence[d][k].reading, evidence[d][k + 1].reading)'
      BY DEF NothingReadTwice, Load, Recognised
    <2>1. k \in 1 .. Len(evidence[d]) /\ k + 1 \in 1 .. Len(evidence[d])
      BY DEF EvidenceInv, Evidenced, IsSequence
    <2>2. ~Same(evidence[d][k].reading, evidence[d][k + 1].reading)
      BY DEF EvidenceInv, NothingReadTwice
    <2>3. PICK old, new : old = evidence[d][k].reading /\ new = evidence[d][k + 1].reading
      OBVIOUS
    <2>4. old.load \in 0 .. Len(loads) /\ new.load \in 0 .. Len(loads)
      BY <2>1, <2>3 DEF EvidenceInv, Evidenced
    <2>5. ~Same(old, new)'
      BY <1>1, <1>2, <2>2, <2>3, <2>4, SameWithMore
    <2> QED
      BY <2>3, <2>5 DEF Load, Same, Equivalent
  <1> QED
    BY <1>3, <1>4, <1>5 DEF Load, EvidenceInv, Shaped

-----------------------------------------------------------------------------
\* The stages of an upload and of a re-extraction that change no evidence.
LEMMA UploadKeeps ==
    ASSUME EvidenceInv, NEW r \in Requests, NEW d \in Docs, Upload(r, d)
    PROVE  EvidenceInv'
  <1>1. /\ Shaped' /\ request'[r].stage = "queue" /\ request'[r].doc = d
        /\ \A q \in Requests \ {r} : request'[q] = request[q]
    BY IdleIs DEF Upload, EvidenceInv, Shaped
  <1>2. Holds(r)'
    BY <1>1 DEF Holds
  <1> QED
    BY <1>1, <1>2, QuietStep DEF Upload, EvidenceInv, Evidenced

LEMMA QueueKeeps ==
    ASSUME EvidenceInv, NEW r \in Requests, Queue(r)
    PROVE  EvidenceInv'
  <1>1. /\ Shaped' /\ request'[r].stage = "find" /\ request'[r].doc = request[r].doc
        /\ \A q \in Requests \ {r} : request'[q] = request[q]
    BY DEF Queue, EvidenceInv, Shaped
  <1>2. request[r].doc \in Docs /\ queue'[request[r].doc] = r
    BY DEF Queue, EvidenceInv, Evidenced, Holds, At, Doc
  <1>3. Holds(r)'
    BY <1>1, <1>2 DEF Holds
  <1>4. \A q \in Requests \ {r} : \A e \in Docs : queue[e] = q => queue'[e] = q
    BY DocumentsAssumption DEF Queue, EvidenceInv, Evidenced
  <1>5. DOMAIN queue' = Docs
    BY DEF Queue, EvidenceInv, Evidenced
  <1> QED
    BY <1>1, <1>3, <1>4, <1>5, QuietStep DEF Queue

LEMMA FindNothingKeeps ==
    ASSUME EvidenceInv, NEW r \in Requests, FindNothing(r)
    PROVE  EvidenceInv'
  <1>1. Evidenced /\ Shaped /\ Holds(r) /\ request[r].stage = "find"
    BY DEF EvidenceInv, FindNothing, At
  <1>2. /\ Shaped' /\ request'[r].stage = "read" /\ request'[r].doc = request[r].doc
        /\ request'[r].reading = Reading(request[r].reader)
        /\ \A q \in Requests \ {r} : request'[q] = request[q]
    BY <1>1, Sooner DEF FindNothing
  <1>3. Reading(request[r].reader).load \in 0 .. Len(loads)
    BY <1>1, ReadingFacts
  <1>4. Holds(r)'
    BY <1>1, <1>2, <1>3 DEF Holds, FindNothing, Doc
  <1> QED
    BY <1>1, <1>2, <1>4, QuietStep DEF FindNothing, Evidenced

LEMMA EndKeeps ==
    ASSUME EvidenceInv, NEW r \in Requests, Ends(r), UNCHANGED <<version, loads, status, evidence>>
    PROVE  EvidenceInv'
  <1>1. Evidenced /\ Shaped
    BY DEF EvidenceInv
  <1>2. Holds(r)'
    BY <1>1, Ended DEF Holds
  <1> QED
    BY <1>1, <1>2, Ended, QuietStep

LEMMA FindCaseKeeps ==
    ASSUME EvidenceInv, NEW r \in Requests, FindCase(r)
    PROVE  EvidenceInv'
  <1>1. Evidenced /\ Shaped /\ Holds(r) /\ request[r].stage = "find"
    BY DEF EvidenceInv, FindCase, At
  <1>2. CASE Ends(r)
    BY <1>2, EndKeeps DEF FindCase
  <1>3. CASE /\ Goes(r, "lock", status[Doc(r)], request[r].reader, None)
             /\ UNCHANGED <<process, queue>>
    <2>1. /\ Shaped' /\ request'[r].stage = "lock" /\ request'[r].doc = request[r].doc
          /\ \A q \in Requests \ {r} : request'[q] = request[q]
      BY <1>1, <1>3, Sooner
    <2>2. Holds(r)'
      BY <1>1, <2>1 DEF Holds, FindCase, Doc
    <2> QED
      BY <1>1, <1>3, <2>1, <2>2, QuietStep DEF FindCase, Evidenced
  <1> QED
    BY <1>2, <1>3 DEF FindCase

LEMMA ReextractKeeps ==
    ASSUME EvidenceInv, NEW r \in Requests, NEW d \in Docs, Reextract(r, d)
    PROVE  EvidenceInv'
  <1>1. /\ Shaped' /\ request'[r].stage = "lock" /\ request'[r].doc = d
        /\ \A q \in Requests \ {r} : request'[q] = request[q]
    BY IdleIs DEF Reextract, EvidenceInv, Shaped
  <1>2. Holds(r)'
    BY <1>1 DEF Holds, Reextract
  <1> QED
    BY <1>1, <1>2, QuietStep DEF Reextract, EvidenceInv, Evidenced

LEMMA LockKeeps ==
    ASSUME EvidenceInv, NEW r \in Requests, Lock(r)
    PROVE  EvidenceInv'
  <1>1. Evidenced /\ Shaped /\ Holds(r) /\ request[r].stage = "lock"
    BY DEF EvidenceInv, Lock, At
  <1>2. /\ Shaped' /\ request'[r].stage = "row" /\ request'[r].doc = request[r].doc
        /\ request'[r].reader = Configured(request[r].reader.ocr)
        /\ \A q \in Requests \ {r} : request'[q] = request[q]
    BY <1>1, Sooner DEF Lock
  <1>3. Configured(request[r].reader.ocr) \in Readings
    BY <1>1, ReadingFacts
  <1>4. Holds(r)'
    <2>1. request'[r].reader \in Readings'
      BY <1>2, <1>3 DEF Readings
    <2> QED
      BY <1>1, <1>2, <2>1 DEF Holds, Lock
  <1>5. \A q \in Requests \ {r} : process = q => process' = q
    BY DocumentsAssumption DEF Lock
  <1> QED
    BY <1>1, <1>2, <1>4, <1>5, QuietStep DEF Lock, Evidenced

LEMMA LockRowKeeps ==
    ASSUME EvidenceInv, NEW r \in Requests, LockRow(r)
    PROVE  EvidenceInv'
  <1>1. Evidenced /\ Shaped /\ Holds(r) /\ request[r].stage = "row"
    BY DEF EvidenceInv, LockRow, At
  <1>2. CASE Ends(r)
    BY <1>2, EndKeeps DEF LockRow
  <1>3. CASE /\ ~Reusable(Doc(r), request[r].seen, request[r].reader)
             /\ Goes(r, "reread", request[r].seen, request[r].reader, Reading(request[r].reader))
             /\ UNCHANGED <<process, queue>>
    <2>1. /\ Shaped' /\ request'[r].stage = "reread" /\ request'[r].doc = request[r].doc
          /\ request'[r].reader = request[r].reader
          /\ request'[r].reading = Reading(request[r].reader)
          /\ \A q \in Requests \ {r} : request'[q] = request[q]
      BY <1>1, <1>3, Sooner
    <2>2. ~ (/\ Recognised(Last(evidence[request[r].doc]))
             /\ Same(Last(evidence[request[r].doc]).reading, Reading(request[r].reader)))
      BY <1>3 DEF Reusable, Doc
    <2>3. UNCHANGED <<version, loads, status, evidence, process>>
      BY <1>3 DEF LockRow
    <2>4. Holds(r)'
      BY <1>1, <2>1, <2>2, <2>3 DEF Holds, Reading, Same, Equivalent, Last, Recognised
    <2> QED
      BY <1>1, <1>3, <2>1, <2>3, <2>4, QuietStep DEF Evidenced
  <1> QED
    BY <1>2, <1>3 DEF LockRow

LEMMA RunKeeps ==
    ASSUME EvidenceInv, NEW r \in Requests, Run(r)
    PROVE  EvidenceInv'
  <1>1. /\ Shaped' /\ request'[r].stage = "decide"
        /\ \A q \in Requests \ {r} : request'[q] = request[q]
    BY IdleIs DEF Run, EvidenceInv, Shaped
  <1>2. Holds(r)'
    BY <1>1 DEF Holds, Run
  <1>3. \A q \in Requests \ {r} : process = q => process' = q
    BY DocumentsAssumption DEF Run
  <1> QED
    BY <1>1, <1>2, <1>3, QuietStep DEF Run, EvidenceInv, Evidenced

-----------------------------------------------------------------------------
\* The steps that change a case or its evidence.
LEMMA DecideKeeps ==
    ASSUME EvidenceInv, NEW r \in Requests, Decide(r)
    PROVE  EvidenceInv'
  <1>1. Evidenced /\ Shaped /\ Holds(r) /\ request[r].stage = "decide" /\ Ends(r)
    BY DEF EvidenceInv, Decide, At
  <1>2. UNCHANGED <<version, loads, evidence>>
    BY DEF Decide
  <1>3. /\ DOMAIN status' = Docs
        /\ \A d \in Docs : status'[d] = "none" <=> status[d] = "none"
    BY <1>1 DEF Decide, Evidenced, Pending
  <1>4. Evidenced'
    <2>1. \A d \in Docs : IsSequence(evidence[d])'
      BY <1>1, <1>2 DEF Evidenced, IsSequence
    <2> QED
      BY <1>1, <1>2, <1>3, <2>1, Ended DEF Evidenced
  <1>5. ASSUME NEW q \in Requests PROVE Holds(q)'
    <2>1. CASE q = r
      BY <1>1, <2>1, Ended DEF Holds
    <2>2. CASE q # r
      <3>1. Holds(q) /\ request'[q] = request[q] /\ request[q].stage \notin {"row", "reread", "decide"}
        BY <1>1, <2>2, Ended, Apart DEF EvidenceInv, Holds
      <3>2. request[q].doc \in Docs => (queue[request[q].doc] = q => queue'[request[q].doc] = q)
        BY <1>1, <2>2, Ended
      <3> QED
        BY <1>2, <1>3, <3>1, <3>2 DEF Holds
    <2> QED
      BY <2>1, <2>2
  <1> QED
    BY <1>1, <1>2, <1>4, <1>5, Ended, NothingStill DEF EvidenceInv

\* A new reading of one document: what the two steps that store one have in common.
LEMMA StoredKeeps ==
    ASSUME EvidenceInv, NEW r \in Requests, NEW d \in Docs, NEW e, Ends(r),
           evidence' = [evidence EXCEPT ![d] = Append(evidence[d], e)],
           UNCHANGED <<version, loads>>,
           DOMAIN status' = Docs, status'[d] # "none",
           \A c \in Docs \ {d} : status'[c] = status[c],
           e.reading.load \in 0 .. Len(loads),
           Len(evidence[d]) > 0 =>
              ~(Recognised(Last(evidence[d])) /\ Same(Last(evidence[d]).reading, e.reading)),
           \A q \in Requests \ {r} :
              /\ request[q].stage = "read" => request[q].doc # d
              /\ request[q].stage \notin {"row", "reread", "decide"}
    PROVE  EvidenceInv'
  <1>1. Evidenced /\ Shaped
    BY DEF EvidenceInv
  <1>2. /\ DOMAIN evidence' = Docs /\ evidence'[d] = Append(evidence[d], e)
        /\ \A c \in Docs \ {d} : evidence'[c] = evidence[c]
    BY <1>1 DEF Evidenced
  <1>3. /\ IsSequence(evidence'[d]) /\ Len(evidence'[d]) = Len(evidence[d]) + 1
        /\ evidence'[d][Len(evidence[d]) + 1] = e
        /\ \A k \in 1 .. Len(evidence[d]) : evidence'[d][k] = evidence[d][k]
        /\ Len(evidence[d]) \in Nat
    <2>1. IsSequence(evidence[d])
      BY <1>1 DEF Evidenced
    <2>2. Len(evidence[d]) \in Nat
      BY <2>1 DEF IsSequence
    <2> QED
      BY <1>2, <2>1, <2>2, Appended
  <1>4. Evidenced'
    <2>1. ASSUME NEW c \in Docs
          PROVE  /\ IsSequence(evidence'[c])
                 /\ status'[c] = "none" <=> Len(evidence'[c]) = 0
                 /\ \A k \in 1 .. Len(evidence'[c]) : evidence'[c][k].reading.load \in 0 .. Len(loads)
      <3>1. CASE c = d
        BY <1>1, <1>3, <3>1 DEF Evidenced
      <3>2. CASE c # d
        BY <1>1, <1>2, <3>2 DEF Evidenced
      <3> QED
        BY <3>1, <3>2
    <2>2. \A c \in Docs : IsSequence(evidence[c])'
      BY <2>1 DEF IsSequence
    <2> QED
      BY <1>1, <1>2, <2>1, <2>2, Ended DEF Evidenced
  <1>5. ASSUME NEW q \in Requests PROVE Holds(q)'
    <2>1. CASE q = r
      BY <1>1, <2>1, Ended DEF Holds
    <2>2. CASE q # r
      <3>1. Holds(q) /\ request'[q] = request[q] /\ request[q].stage \notin {"row", "reread", "decide"}
        BY <1>1, <2>2, Ended DEF EvidenceInv
      <3>2. request[q].doc \in Docs => (queue[request[q].doc] = q => queue'[request[q].doc] = q)
        BY <1>1, <2>2, Ended
      <3>3. request[q].stage = "read" => request[q].doc # d
        BY <2>2
      <3> QED
        BY <3>1, <3>2, <3>3 DEF Holds
    <2> QED
      BY <2>1, <2>2
  <1>6. NothingReadTwice'
    <2> SUFFICES ASSUME NEW c \in Docs, NEW k \in 1 .. Len(evidence'[c]) - 1, Recognised(evidence'[c][k])
                 PROVE  ~Same(evidence[c][k].reading, evidence[c][k + 1].reading)'
      BY DEF NothingReadTwice, Recognised
    <2>1. PICK old, new : old = evidence'[c][k].reading /\ new = evidence'[c][k + 1].reading
      OBVIOUS
    <2>2. ~Same(old, new)
      <3>1. CASE c # d
        <4>1. evidence'[c] = evidence[c]
          BY <1>2, <3>1
        <4> QED
          BY <2>1, <4>1 DEF EvidenceInv, NothingReadTwice
      <3>2. CASE c = d /\ k < Len(evidence[d])
        <4>1. /\ k \in 1 .. Len(evidence[d]) - 1
              /\ evidence'[d][k] = evidence[d][k] /\ evidence'[d][k + 1] = evidence[d][k + 1]
          BY <1>3, <3>2
        <4> QED
          BY <2>1, <3>2, <4>1 DEF EvidenceInv, NothingReadTwice
      <3>3. CASE c = d /\ k = Len(evidence[d])
        <4>1. /\ Len(evidence[d]) > 0 /\ evidence'[d][k] = Last(evidence[d])
              /\ evidence'[d][k + 1] = e
          BY <1>3, <3>3 DEF Last
        <4> QED
          BY <2>1, <3>3, <4>1
      <3> QED
        BY <1>3, <3>1, <3>2, <3>3
    <2>3. ~Same(old, new)'
      BY <2>2 DEF Same, Equivalent
    <2> QED
      BY <2>1, <2>3 DEF Same, Equivalent
  <1> QED
    BY <1>1, <1>4, <1>5, <1>6, Ended DEF EvidenceInv

\* The first reading of a document.
LEMMA AttachKeeps ==
    ASSUME EvidenceInv, NEW r \in Requests, Attach(r)
    PROVE  /\ EvidenceInv' /\ Len(evidence[Doc(r)]) = 0
           /\ \A d \in Docs : d # Doc(r) => evidence'[d] = evidence[d]
  <1>1. Evidenced /\ Shaped /\ Holds(r) /\ request[r].stage = "read" /\ Ends(r) /\ process = None
    BY DEF EvidenceInv, Attach, At
  <1>2. /\ Doc(r) \in Docs /\ status[Doc(r)] = "none" /\ Len(evidence[Doc(r)]) = 0
        /\ request[r].reading.load \in 0 .. Len(loads)
    BY <1>1 DEF Holds, Doc, Evidenced
  <1>3. PICK e : /\ evidence' = [evidence EXCEPT ![Doc(r)] = Append(evidence[Doc(r)], e)]
                 /\ e.reading = request[r].reading
    <2>1. PICK clean \in BOOLEAN, keyed \in KeysKept(request[r].reading) :
              evidence' = [evidence EXCEPT ![Doc(r)] =
                  Append(@, [reading |-> request[r].reading, clean |-> clean, keyed |-> keyed])]
      BY DEF Attach
    <2>2. PICK e : e = [reading |-> request[r].reading, clean |-> clean, keyed |-> keyed]
      OBVIOUS
    <2>3. e.reading = request[r].reading
      BY <2>2
    <2>4. evidence' = [evidence EXCEPT ![Doc(r)] = Append(evidence[Doc(r)], e)]
      BY <2>1, <2>2
    <2> QED
      BY <2>3, <2>4
  <1>4. /\ DOMAIN status' = Docs /\ status'[Doc(r)] = "PENDING"
        /\ \A c \in Docs \ {Doc(r)} : status'[c] = status[c]
    BY <1>1, <1>2 DEF Attach, Evidenced
  <1>5. ASSUME NEW q \in Requests \ {r}
        PROVE  /\ request[q].stage \in {"find", "read"} => request[q].doc # Doc(r)
               /\ request[q].stage \notin {"row", "reread", "decide"}
    BY <1>1, Apart DEF Doc
  <1> QED
    <2>1. EvidenceInv'
      <3>1. UNCHANGED <<version, loads>> /\ status'[Doc(r)] # "none"
        BY <1>4 DEF Attach
      <3>2. e.reading.load \in 0 .. Len(loads)
        BY <1>2, <1>3
      <3> QED
        <4>1. ~(Len(evidence[Doc(r)]) > 0)
          BY <1>2
        <4>2. /\ \A c \in Docs \ {Doc(r)} : status'[c] = status[c]
              /\ \A q \in Requests \ {r} :
                    /\ request[q].stage = "read" => request[q].doc # Doc(r)
                    /\ request[q].stage \notin {"row", "reread", "decide"}
          BY <1>4, <1>5
        <4> QED
          BY <1>1, <1>2, <1>3, <1>4, <3>1, <3>2, <4>1, <4>2, StoredKeeps
    <2> QED
      BY <1>1, <1>2, <1>3, <2>1 DEF Evidenced

\* Another one.
LEMMA RereadKeeps ==
    ASSUME EvidenceInv, NEW r \in Requests, Reread(r)
    PROVE  /\ EvidenceInv' /\ Doc(r) \in Docs /\ request[r].reader \in Readings
           /\ \A d \in Docs : d # Doc(r) => evidence'[d] = evidence[d]
           /\ Last(evidence'[Doc(r)]).reading = Reading(request[r].reader)
  <1>1. Evidenced /\ Shaped /\ Holds(r) /\ request[r].stage = "reread" /\ Ends(r)
    BY DEF EvidenceInv, Reread, At
  <1>2. /\ Doc(r) \in Docs /\ status[Doc(r)] # "none" /\ request[r].reader \in Readings
        /\ request[r].reading = Reading(request[r].reader)
        /\ ~ (/\ Recognised(Last(evidence[Doc(r)]))
              /\ Same(Last(evidence[Doc(r)]).reading, request[r].reading))
    BY <1>1 DEF Holds, Doc
  <1>3. request[r].reading.load \in 0 .. Len(loads)
    BY <1>1, <1>2, ReadingFacts
  <1>4. PICK e : /\ evidence' = [evidence EXCEPT ![Doc(r)] = Append(evidence[Doc(r)], e)]
                 /\ e.reading = request[r].reading
    <2>1. PICK clean \in BOOLEAN, keyed \in KeysKept(request[r].reading) :
              evidence' = [evidence EXCEPT ![Doc(r)] =
                  Append(@, [reading |-> request[r].reading, clean |-> clean, keyed |-> keyed])]
      BY DEF Reread
    <2>2. PICK e : e = [reading |-> request[r].reading, clean |-> clean, keyed |-> keyed]
      OBVIOUS
    <2>3. e.reading = request[r].reading
      BY <2>2
    <2>4. evidence' = [evidence EXCEPT ![Doc(r)] = Append(evidence[Doc(r)], e)]
      BY <2>1, <2>2
    <2> QED
      BY <2>3, <2>4
  <1>5. ASSUME NEW q \in Requests \ {r}
        PROVE  /\ request[q].stage = "read" => request[q].doc # Doc(r)
               /\ request[q].stage \notin {"row", "reread", "decide"}
    <2>1. Holds(q) /\ process = r
      BY <1>1 DEF EvidenceInv, Holds
    <2> QED
      BY <1>2, <2>1 DEF Holds
  <1>6. EvidenceInv'
    BY <1>1, <1>2, <1>3, <1>4, <1>5, StoredKeeps DEF Reread, Evidenced
  <1>7. Last(evidence'[Doc(r)]) = e
    BY <1>1, <1>2, <1>4, Appended DEF Last, Evidenced
  <1> QED
    BY <1>1, <1>2, <1>4, <1>6, <1>7 DEF Evidenced

-----------------------------------------------------------------------------
LEMMA EvidenceInitially == Init => EvidenceInv
  <1> SUFFICES ASSUME Init PROVE EvidenceInv
    OBVIOUS
  <1>1. 1 \in DOMAIN Contracts
    BY DocumentsAssumption
  <1>2. Evidenced
    BY <1>1 DEF Init, Evidenced, IsSequence
  <1>3. Shaped /\ \A r \in Requests : request[r].stage = "idle"
    BY IdleIs DEF Init, Shaped
  <1>4. \A d \in Docs : Len(evidence[d]) = 0
    BY DEF Init
  <1> QED
    BY <1>2, <1>3, <1>4 DEF EvidenceInv, Holds, NothingReadTwice

\* Every step keeps the invariant and reads again by what holds.
LEMMA EvidenceKept ==
    ASSUME EvidenceInv, [Next]_vars
    PROVE  EvidenceInv' /\ ReadOfNow
  <1>1. ASSUME UNCHANGED vars PROVE EvidenceInv' /\ ReadOfNow
    <2>1. \A q \in Requests : Holds(q)'
      BY <1>1, HoldsStill DEF vars, EvidenceInv
    <2>2. Evidenced'
      BY <1>1 DEF vars, EvidenceInv, Evidenced, IsSequence
    <2>3. Shaped' /\ NothingReadTwice'
      BY <1>1, NothingStill DEF vars, EvidenceInv, Shaped
    <2> QED
      BY <1>1, <2>1, <2>2, <2>3 DEF vars, ReadOfNow, EvidenceInv
  <1>2. UNCHANGED evidence => ReadOfNow
    BY DEF ReadOfNow
  <1>3. CASE Publish \/ Load
    BY <1>2, <1>3, PublishKeeps, LoadKeeps DEF Publish, Load
  <1>4. ASSUME NEW r \in Requests, NEW d \in Docs, Upload(r, d) \/ Reextract(r, d)
        PROVE  EvidenceInv' /\ ReadOfNow
    BY <1>2, <1>4, UploadKeeps, ReextractKeeps DEF Upload, Reextract
  <1>5. ASSUME NEW r \in Requests,
               Queue(r) \/ FindNothing(r) \/ FindCase(r) \/ Lock(r) \/ LockRow(r) \/ Run(r) \/ Decide(r)
        PROVE  EvidenceInv' /\ ReadOfNow
    <2>1. EvidenceInv'
      BY <1>5, QueueKeeps, FindNothingKeeps, FindCaseKeeps, LockKeeps, LockRowKeeps, RunKeeps, DecideKeeps
    <2> QED
      BY <1>2, <1>5, <2>1 DEF Queue, FindNothing, FindCase, Lock, LockRow, Run, Decide
  <1>6. ASSUME NEW r \in Requests, Attach(r) PROVE EvidenceInv' /\ ReadOfNow
    BY <1>6, AttachKeeps DEF ReadOfNow
  <1>7. ASSUME NEW r \in Requests, Reread(r) PROVE EvidenceInv' /\ ReadOfNow
    <2>1. \A g : Same(g, g)
      BY DEF Same, Equivalent
    <2> QED
      BY <1>7, <2>1, RereadKeeps DEF ReadOfNow
  <1>8. ASSUME NEW r \in Requests, Fails(r) PROVE EvidenceInv' /\ ReadOfNow
    BY <1>2, <1>8, EndKeeps DEF Fails
  <1> QED
    BY <1>1, <1>3, <1>4, <1>5, <1>6, <1>7, <1>8 DEF Next

CaseInv == part = "case" => EvidenceInv

LEMMA CaseAlways == MCSpec => []CaseInv
  <1>1. MCInit => CaseInv
    BY EvidenceInitially DEF MCInit, CaseInv
  <1>2. CaseInv /\ [MCNext]_allVars => CaseInv'
    <2> SUFFICES ASSUME CaseInv, [MCNext]_allVars, part = "case" PROVE EvidenceInv'
      BY DEF CaseInv, MCNext, allVars
    <2>1. [Next]_vars
      BY DEF MCNext, allVars
    <2> QED
      BY <2>1, EvidenceKept DEF CaseInv
  <1> QED
    BY <1>1, <1>2, PTL DEF MCSpec

\* A reading that kept its key is not repeated for nothing, and a case is read again by what holds then, whoever
\* uploads, re-extracts, publishes and loads meanwhile (reextract_document).
THEOREM ReadOnce == MCSpec => ReadOnceAsOfNow
  <1>1. CaseInv => (part = "case" => NothingReadTwice)
    BY DEF CaseInv, EvidenceInv
  <1>2. CaseInv /\ [MCNext]_allVars => [part = "case" => ReadOfNow]_vars
    <2> SUFFICES ASSUME CaseInv, [MCNext]_allVars, part = "case" PROVE ReadOfNow
      OBVIOUS
    <2>1. [Next]_vars
      BY DEF MCNext, allVars
    <2> QED
      BY <2>1, EvidenceKept DEF CaseInv
  <1> QED
    BY <1>1, <1>2, CaseAlways, PTL DEF MCSpec, ReadOnceAsOfNow

-----------------------------------------------------------------------------
(***************************************************************************)
(* The identifiers of an invoice (module Committee).  Whatever becomes a   *)
(* value, the page's, the verification's or the file's, is backed by its   *)
(* candidates; candidates are only added, and no larger crop is among them *)
(* while the votes of the page are counted.                                *)
(***************************************************************************)
Backed(set, v) ==
    \/ \E c \in set : c.value = v /\ c.by = "native"
    \/ \E c, d \in set : c.value = v /\ d.value = v /\ Identifier!Model(c.by) # Identifier!Model(d.by)

IdentifierInv ==
    /\ agreed # None => agreed \in Identifier!Said(pool) /\ Backed(pool, agreed)
    /\ focus \notin {None, "off"} => Backed(pool, focus)
    /\ result # None => Backed(pool, result)
    /\ proposed \in Identifier!Said(pool) \union {None}
    /\ stage # "sources" => result = None /\ proposed = None
    /\ stage = "native" => focus = "off"
    /\ stage \in {"native", "ocr", "vision"} => \A c \in pool : c.by # "scale"

LEMMA MoreBack ==
    ASSUME NEW set, NEW more, set \subseteq more
    PROVE  /\ \A v : Backed(set, v) => Backed(more, v)
           /\ Identifier!Said(set) \subseteq Identifier!Said(more)
  BY DEF Backed, Identifier!Said

LEMMA Somebody ==
    ASSUME NEW S
    PROVE  /\ Identifier!Cardinality(S) = 1 => S # {} /\ (CHOOSE v \in S : TRUE) \in S
           /\ Identifier!Cardinality(S) >= 2 => \E x, y \in S : x # y
  BY Counts DEF Identifier!Cardinality, Cardinality

\* What some candidates say, one of them says.
LEMMA OnlySaid ==
    ASSUME NEW set, Identifier!Only(set) # None
    PROVE  /\ Identifier!Only(set) \in Identifier!Said(set)
           /\ \E c \in set : c.value = Identifier!Only(set)
  <1>1. Identifier!Only(set) \in Identifier!Said(set)
    BY Somebody DEF Identifier!Only
  <1> QED
    BY <1>1 DEF Identifier!Said

LEMMA SupporterSays ==
    ASSUME NEW set, NEW v, v # None, NEW r \in Identifier!Supporters(set, v)
    PROVE  \E c \in set : c.by = r /\ c.value = v
  <1>1. Identifier!Only(Identifier!Of(set, {r})) = v
    BY DEF Identifier!Supporters
  <1>2. PICK c \in Identifier!Of(set, {r}) : c.value = v
    BY <1>1, OnlySaid
  <1> QED
    BY <1>2 DEF Identifier!Of

LEMMA OneVoteAModel ==
    ASSUME NEW r, r # "scale"
    PROVE  Identifier!IndependentReader(r) = Identifier!Model(r)
  BY DEF Identifier!IndependentReader, Identifier!Model

\* Two votes are those of two models.
LEMMA TwoVotes ==
    ASSUME NEW readers, Identifier!Votes(readers) >= 2, "scale" \notin readers
    PROVE  \E q, r \in readers : Identifier!Model(q) # Identifier!Model(r)
  <1>1. PICK x, y \in {Identifier!IndependentReader(r) : r \in readers} : x # y
    BY Somebody DEF Identifier!Votes
  <1>2. PICK q \in readers, r \in readers :
            Identifier!IndependentReader(q) # Identifier!IndependentReader(r)
    BY <1>1
  <1> QED
    BY <1>2, OneVoteAModel

LEMMA CorroboratedIsBacked ==
    ASSUME NEW set, \A c \in set : c.by # "scale", Identifier!Corroborated(set) # None
    PROVE  /\ Identifier!Corroborated(set) \in Identifier!Said(set)
           /\ Backed(set, Identifier!Corroborated(set))
  <1>1. PICK v : v = Identifier!Only(set)
    OBVIOUS
  <1>2. /\ Identifier!Corroborated(set) = v /\ v # None
        /\ \/ "native" \in Identifier!Supporters(set, v)
           \/ Identifier!Votes(Identifier!Supporters(set, v)) >= 2
    BY <1>1 DEF Identifier!Corroborated
  <1>3. v \in Identifier!Said(set)
    BY <1>1, <1>2, OnlySaid
  <1>4. CASE "native" \in Identifier!Supporters(set, v)
    BY <1>2, <1>3, <1>4, SupporterSays DEF Backed
  <1>5. CASE Identifier!Votes(Identifier!Supporters(set, v)) >= 2
    <2>1. "scale" \notin Identifier!Supporters(set, v)
      BY <1>2, SupporterSays
    <2>2. PICK q \in Identifier!Supporters(set, v), r \in Identifier!Supporters(set, v) :
              Identifier!Model(q) # Identifier!Model(r)
      BY <1>5, <2>1, TwoVotes
    <2>3. (\E c \in set : c.by = q /\ c.value = v) /\ (\E d \in set : d.by = r /\ d.value = v)
      BY <1>2, SupporterSays
    <2> QED
      BY <1>2, <1>3, <2>2, <2>3 DEF Backed
  <1> QED
    BY <1>2, <1>4, <1>5

\* A local reader and an image model are two.
LEMMA LocalAndVisual ==
    ASSUME NEW c, NEW d, c.by \in {"primary", "secondary", "scale"}, d.by \in Identifier!Visual
    PROVE  Identifier!Model(c.by) # Identifier!Model(d.by)
  BY PartsAssumption DEF Identifier!CommitteeAssumption, Identifier!Visual, Identifier!Model

LEMMA FromIs ==
    ASSUME NEW name, NEW answer, NEW c \in Identifier!From(name, answer)
    PROVE  c.by = name
  BY DEF Identifier!From

LEMMA Chained ==
    ASSUME NEW m, NEW turns
    PROVE  /\ Identifier!Transcribed(m, turns) \subseteq Identifier!Identities
           /\ Identifier!Collected(turns) \subseteq Identifier!Identities
  BY DEF Identifier!Transcribed, Identifier!Collected, Identifier!First, Identifier!Foremost,
     Identifier!Answering, Identifier!Identities

-----------------------------------------------------------------------------
\* A step that adds candidates and looks at the page.
LEMMA PageStep ==
    ASSUME IdentifierInv, stage \in {"native", "ocr", "vision"},
           stage = "native" \/ pool \subseteq pool',
           \A c \in pool' : c.by # "scale",
           agreed' = Identifier!Corroborated(pool'), UNCHANGED <<focus, result, proposed>>,
           stage' \notin {"native", "sources"}
    PROVE  IdentifierInv'
  <1>1. agreed' # None => agreed' \in Identifier!Said(pool') /\ Backed(pool', agreed')
    BY CorroboratedIsBacked
  <1>2. focus' \notin {None, "off"} => Backed(pool', focus')
    BY MoreBack DEF IdentifierInv
  <1>3. result' = None /\ proposed' = None
    BY DEF IdentifierInv
  <1> QED
    BY <1>1, <1>2, <1>3 DEF IdentifierInv, Backed, Identifier!Said

\* A step that adds candidates and verifies.
LEMMA FocusStep ==
    ASSUME IdentifierInv, stage \notin {"native", "sources"}, pool \subseteq pool',
           focus' \notin {None, "off"} => Backed(pool', focus'),
           UNCHANGED <<agreed, result, proposed>>,
           stage' \in {"deliver", "high", "dewarp", "focus"}
    PROVE  IdentifierInv'
  <1>1. agreed' # None => agreed' \in Identifier!Said(pool') /\ Backed(pool', agreed')
    BY MoreBack DEF IdentifierInv
  <1>2. result' = None /\ proposed' = None
    BY DEF IdentifierInv
  <1> QED
    BY <1>1, <1>2 DEF IdentifierInv, Backed, Identifier!Said

LEMMA NativeKeeps ==
    ASSUME IdentifierInv, Identifier!Native
    PROVE  IdentifierInv'
  <1>1. \A c \in pool' : c.by # "scale"
    BY FromIs DEF Identifier!Native
  <1> QED
    BY <1>1, PageStep DEF Identifier!Native

LEMMA OcrKeeps ==
    ASSUME IdentifierInv, Identifier!Ocr
    PROVE  IdentifierInv'
  <1>1. stage = "ocr" /\ \A c \in pool : c.by # "scale"
    BY DEF Identifier!Ocr, IdentifierInv
  <1>2. PICK readers, answers :
            /\ readers \subseteq Identifier!Local
            /\ pool' = pool \union UNION {Identifier!From(r, answers[r]) : r \in readers}
    BY DEF Identifier!Ocr
  <1>3. \A c \in pool' : c.by # "scale"
    BY <1>1, <1>2, FromIs DEF Identifier!Local
  <1>4. pool \subseteq pool'
    BY <1>2
  <1> QED
    BY <1>1, <1>3, <1>4, PageStep DEF Identifier!Ocr

LEMMA VisionKeeps ==
    ASSUME IdentifierInv, Identifier!Vision
    PROVE  IdentifierInv'
  <1>1. stage = "vision" /\ \A c \in pool : c.by # "scale"
    BY DEF Identifier!Vision, IdentifierInv
  <1>2. PICK turns, answers :
            pool' = pool \union UNION {Identifier!From(IF mode = "api" THEN r ELSE "visual", answers[r])
                                       : r \in Identifier!Transcribed(mode, turns)}
    BY DEF Identifier!Vision
  <1>3. "scale" \notin Identifier!Transcribed(mode, turns)
    BY Chained, PartsAssumption DEF Identifier!CommitteeAssumption
  <1>4. \A c \in pool' : c.by # "scale"
    BY <1>1, <1>2, <1>3, FromIs
  <1>5. pool \subseteq pool'
    BY <1>2
  <1> QED
    BY <1>1, <1>4, <1>5, PageStep DEF Identifier!Vision

LEMMA ChainKeeps ==
    ASSUME IdentifierInv, Identifier!FocusByChain
    PROVE  IdentifierInv'
  <1> DEFINE heard(turns, answers) ==
                 pool \union UNION {Identifier!From(r, answers[r]) : r \in Identifier!Collected(turns)}
             voters(all) ==
                 {c.by : c \in {d \in Identifier!Of(all, Identifier!Visual) : d.value = Identifier!Only(all)}}
  <1>a. PICK turns \in Identifier!Turns :
            \E answers \in [Identifier!Collected(turns) -> Identifier!Answers("visual")] :
                /\ pool' = heard(turns, answers)
                /\ focus' = IF /\ Identifier!Only(heard(turns, answers)) # None
                               /\ Identifier!Collected(turns) # {}
                               /\ Identifier!Votes(voters(heard(turns, answers))) >= 2
                            THEN Identifier!Only(heard(turns, answers)) ELSE None
    BY Zenon DEF Identifier!FocusByChain
  <1>0. PICK answers :
            /\ pool' = heard(turns, answers)
            /\ focus' = IF /\ Identifier!Only(heard(turns, answers)) # None
                           /\ Identifier!Collected(turns) # {}
                           /\ Identifier!Votes(voters(heard(turns, answers))) >= 2
                        THEN Identifier!Only(heard(turns, answers)) ELSE None
    BY <1>a, Zenon
  <1>1. PICK all, v :
            /\ all = pool' /\ pool \subseteq all /\ v = Identifier!Only(all)
            /\ focus' # None => focus' = v /\ Identifier!Votes(voters(all)) >= 2
    BY <1>0
  <1>2. ASSUME focus' # None PROVE Backed(pool', focus')
    <2>1. PICK readers : readers = voters(all)
      OBVIOUS
    <2>2. focus' = v /\ Identifier!Votes(readers) >= 2
      BY <1>1, <1>2, <2>1
    <2>3. "scale" \notin readers
      BY <2>1, PartsAssumption DEF Identifier!Of, Identifier!Visual, Identifier!CommitteeAssumption
    <2>4. PICK q \in readers, r \in readers : Identifier!Model(q) # Identifier!Model(r)
      BY <2>2, <2>3, TwoVotes
    <2>5. (\E c \in all : c.by = q /\ c.value = v) /\ (\E d \in all : d.by = r /\ d.value = v)
      BY <1>1, <2>1, <2>4 DEF Identifier!Of
    <2> QED
      BY <1>1, <2>2, <2>4, <2>5 DEF Backed
  <1> QED
    BY <1>1, <1>2, FocusStep DEF Identifier!FocusByChain

\* A value of a crop that the images have seen too.
LEMMA LocalIsBacked ==
    ASSUME NEW set, NEW c \in set, NEW d \in set, NEW v, c.value = v, d.value = v,
           c.by \in {"primary", "secondary", "scale"}, d.by \in Identifier!Visual
    PROVE  Backed(set, v)
  BY LocalAndVisual DEF Backed

LEMMA AllKeeps ==
    ASSUME IdentifierInv, Identifier!FocusByAll
    PROVE  IdentifierInv'
  <1> DEFINE crop(heard, f) == Identifier!From(f, [says |-> heard[f], sure |-> FALSE])
  <1> DEFINE all(heard) == UNION {crop(heard, f) : f \in Identifier!Families}
             says(heard, f) == Identifier!Only(crop(heard, f))
             here(heard) == {says(heard, "primary"), says(heard, "secondary")} \ {None}
             scaled(heard) == {says(heard, "scale")} \ {None}
             shown(heard) == {says(heard, "visual")} \ {None}
             either(heard) ==
                 ((here(heard) \union scaled(heard))
                     \intersect Identifier!Said(Identifier!Of(pool, Identifier!Visual)))
                 \union (IF scaled(heard) \subseteq shown(heard) THEN shown(heard) \intersect here(heard) ELSE {})
  <1>0. PICK heard :
            /\ pool' = pool \union all(heard)
            /\ focus' = IF Identifier!Cardinality(either(heard)) = 1 /\ ~Identifier!Errors(all(heard))
                        THEN CHOOSE v \in either(heard) : TRUE ELSE None
            /\ stage' = IF focus' # None THEN "deliver"
                        ELSE IF scaled(heard) # {} /\ here(heard) = scaled(heard) THEN "high"
                        ELSE IF here(heard) \union scaled(heard) = {} THEN "dewarp"
                        ELSE "deliver"
    BY Zenon DEF Identifier!FocusByAll
  <1> HIDE DEF crop
  <1>a. PICK seen, local, scale, image, possible :
            /\ seen = all(heard) /\ local = here(heard) /\ scale = scaled(heard) /\ image = shown(heard)
            /\ possible = either(heard)
    OBVIOUS
  <1>b. /\ possible = ((local \union scale)
                         \intersect Identifier!Said(Identifier!Of(pool, Identifier!Visual)))
                      \union (IF scale \subseteq image THEN image \intersect local ELSE {})
    BY <1>a
  <1>c. /\ pool' = pool \union seen
        /\ focus' # None => Identifier!Cardinality(possible) = 1 /\ focus' = CHOOSE v \in possible : TRUE
        /\ stage' \in {"deliver", "high", "dewarp"}
    <2> HIDE DEF all, here, scaled, shown, either
    <2> QED
      BY <1>0, <1>a
  <1>1. /\ seen = all(heard) /\ local = here(heard) /\ scale = scaled(heard) /\ image = shown(heard)
        /\ possible = ((local \union scale)
                         \intersect Identifier!Said(Identifier!Of(pool, Identifier!Visual)))
                      \union (IF scale \subseteq image THEN image \intersect local ELSE {})
        /\ pool' = pool \union seen
        /\ focus' # None => Identifier!Cardinality(possible) = 1 /\ focus' = CHOOSE v \in possible : TRUE
        /\ stage' \in {"deliver", "high", "dewarp"}
    <2> HIDE DEF all, here, scaled, shown, either
    <2> QED
      BY <1>a, <1>b, <1>c
  <1>2. ASSUME NEW f \in Identifier!Families, Identifier!Only(crop(heard, f)) # None
        PROVE  \E c \in seen : c.by = f /\ c.value = Identifier!Only(crop(heard, f))
    <2>1. PICK c \in crop(heard, f) : c.value = Identifier!Only(crop(heard, f))
      BY <1>2, OnlySaid
    <2>2. c.by = f
      BY <2>1, FromIs DEF crop
    <2> QED
      BY <1>1, <2>1, <2>2
  <1>3. \A v \in local \union scale :
            \E c \in seen : c.by \in {"primary", "secondary", "scale"} /\ c.value = v
    BY <1>1, <1>2 DEF Identifier!Families
  <1>4. \A v \in image : \E c \in seen : c.by \in Identifier!Visual /\ c.value = v
    BY <1>1, <1>2 DEF Identifier!Families, Identifier!Visual
  <1>5. \A v \in Identifier!Said(Identifier!Of(pool, Identifier!Visual)) :
            \E c \in pool : c.by \in Identifier!Visual /\ c.value = v
    BY DEF Identifier!Said, Identifier!Of
  <1>6. ASSUME focus' # None PROVE Backed(pool', focus')
    <2>1. focus' \in possible
      BY <1>1, <1>6, Somebody
    <2>2. focus' \in local \union scale
      BY <1>1, <2>1
    <2>3. focus' \in image \/ focus' \in Identifier!Said(Identifier!Of(pool, Identifier!Visual))
      BY <1>1, <2>1
    <2>4. PICK c \in pool' : c.by \in {"primary", "secondary", "scale"} /\ c.value = focus'
      BY <1>1, <1>3, <2>2
    <2>5. PICK d \in pool' : d.by \in Identifier!Visual /\ d.value = focus'
      BY <1>1, <1>4, <1>5, <2>3
    <2> QED
      BY <2>4, <2>5, LocalIsBacked
  <1> QED
    BY <1>1, <1>6, FocusStep DEF Identifier!FocusByAll

LEMMA HighKeeps ==
    ASSUME IdentifierInv, Identifier!FocusHigh
    PROVE  IdentifierInv'
  <1>1. PICK answer, high :
            /\ high = Identifier!From("visual", answer)
            /\ pool' = pool \union high
            /\ focus' = IF Identifier!Only(high) = Identifier!Only(Identifier!Of(pool, {"scale"}))
                        THEN Identifier!Only(high) ELSE None
    BY DEF Identifier!FocusHigh
  <1>2. ASSUME focus' # None PROVE Backed(pool', focus')
    <2>1. PICK d \in high : d.value = focus'
      BY <1>1, <1>2, OnlySaid
    <2>2. PICK c \in Identifier!Of(pool, {"scale"}) : c.value = focus'
      BY <1>1, <1>2, OnlySaid
    <2>3. c \in pool /\ c.by = "scale" /\ d.by \in Identifier!Visual
      BY <1>1, <2>1, <2>2, FromIs DEF Identifier!Of, Identifier!Visual
    <2> QED
      BY <1>1, <2>1, <2>2, <2>3, LocalIsBacked
  <1> QED
    BY <1>1, <1>2, FocusStep DEF Identifier!FocusHigh

LEMMA DewarpKeeps ==
    ASSUME IdentifierInv, Identifier!Dewarp
    PROVE  IdentifierInv'
  <1>0. PICK readers \in SUBSET Identifier!Local :
            \E answers \in [readers -> Identifier!Answers("primary")] :
               LET flat == UNION {Identifier!From(r, answers[r]) : r \in readers}
                   sure == Identifier!Said({c \in flat : c.sure})
               IN  /\ pool' = pool \union flat
                   /\ focus' = IF /\ Identifier!Cardinality(sure) = 1 /\ ~Identifier!Errors(flat)
                                  /\ sure \subseteq Identifier!Said(Identifier!Of(pool, Identifier!Visual))
                               THEN CHOOSE v \in sure : TRUE ELSE None
    BY Zenon DEF Identifier!Dewarp
  <1>1. PICK answers, flat, sure :
            /\ flat = UNION {Identifier!From(r, answers[r]) : r \in readers}
            /\ sure = Identifier!Said({c \in flat : c.sure})
            /\ pool' = pool \union flat
            /\ focus' = IF /\ Identifier!Cardinality(sure) = 1 /\ ~Identifier!Errors(flat)
                           /\ sure \subseteq Identifier!Said(Identifier!Of(pool, Identifier!Visual))
                        THEN CHOOSE v \in sure : TRUE ELSE None
    BY <1>0, Zenon
  <1>2. ASSUME focus' # None PROVE Backed(pool', focus')
    <2>1. focus' \in sure /\ focus' \in Identifier!Said(Identifier!Of(pool, Identifier!Visual))
      BY <1>1, <1>2, Somebody
    <2>2. PICK c \in flat : c.value = focus'
      BY <1>1, <2>1 DEF Identifier!Said
    <2>3. c.by \in {"primary", "secondary"}
      BY <1>0, <1>1, <2>2, FromIs DEF Identifier!Local
    <2>4. PICK d \in pool : d.value = focus' /\ d.by \in Identifier!Visual
      BY <2>1 DEF Identifier!Said, Identifier!Of
    <2> QED
      BY <1>1, <2>2, <2>3, <2>4, LocalIsBacked
  <1> QED
    BY <1>1, <1>2, FocusStep DEF Identifier!Dewarp

-----------------------------------------------------------------------------
\* Whatever a judge sends back, it recommends one of the readings or none.
LEMMA JudgesOffer ==
    Identifier!Recommendations \subseteq Identifier!Said(pool) \union {None}
  BY DEF Identifier!Recommendations, Identifier!Offered

LEMMA LeastIs ==
    ASSUME NEW numbers \in SUBSET Nat, numbers # {}
    PROVE  Identifier!Least(numbers) \in numbers
  BY LeastNumber DEF Identifier!Least

LEMMA ProposalIsSaid ==
    ASSUME IdentifierInv, NEW recommended \in Identifier!Said(pool) \union {None}
    PROVE  Identifier!Proposal(recommended) \in Identifier!Said(pool) \union {None}
  <1> DEFINE order == Identifier!Order \o [i \in 1 .. Len(Readers) |-> {Readers[i]}]
             said(i) == Identifier!Said(Identifier!Of(pool, order[i]))
             single == {i \in DOMAIN order : Identifier!Cardinality(said(i)) = 1}
  <1>1. Identifier!Proposal(recommended) =
            IF recommended # None THEN recommended
            ELSE IF agreed # None THEN agreed
            ELSE IF single = {} THEN None
            ELSE CHOOSE v \in said(Identifier!Least(single)) : TRUE
    BY DEF Identifier!Proposal
  <1>2. DOMAIN order \subseteq Nat
    <2>1. Len(Readers) \in Nat
      BY PartsAssumption DEF Identifier!CommitteeAssumption, Identifier!ChainAssumption
    <2> QED
      BY <2>1 DEF Identifier!Order
  <1> HIDE DEF order, said
  <1>3. ASSUME single # {}
        PROVE  (CHOOSE v \in said(Identifier!Least(single)) : TRUE) \in Identifier!Said(pool)
    <2>1. PICK i : i = Identifier!Least(single) /\ i \in single
      BY <1>2, <1>3, LeastIs
    <2>2. (CHOOSE v \in said(i) : TRUE) \in said(i)
      BY <2>1, Somebody
    <2> QED
      BY <2>1, <2>2 DEF said, Identifier!Said, Identifier!Of
  <1> QED
    BY <1>1, <1>3 DEF IdentifierInv

LEMMA DeliverKeeps ==
    ASSUME IdentifierInv, Identifier!Deliver
    PROVE  IdentifierInv'
  <1>1. PICK recommended \in Identifier!Said(pool) \union {None} :
            proposed' = Identifier!Proposal(recommended)
    BY JudgesOffer DEF Identifier!Deliver
  <1>2. proposed' \in Identifier!Said(pool) \union {None}
    BY <1>1, ProposalIsSaid
  <1>3. ASSUME Identifier!NativeValue(pool) # None PROVE Backed(pool, Identifier!NativeValue(pool))
    <2>1. PICK c \in Identifier!Of(pool, {"native"}) : c.value = Identifier!NativeValue(pool)
      BY <1>3, OnlySaid DEF Identifier!NativeValue
    <2> QED
      BY <2>1 DEF Backed, Identifier!Of
  <1>4. result' # None => Backed(pool, result')
    BY <1>3 DEF Identifier!Deliver, Identifier!Verified, IdentifierInv
  <1>5. pool' = pool /\ stage' = "sources" /\ UNCHANGED <<focus, agreed>>
    BY DEF Identifier!Deliver
  <1> QED
    BY <1>2, <1>4, <1>5 DEF IdentifierInv, Backed, Identifier!Said

LEMMA IdentifierKept ==
    ASSUME IdentifierInv, [Identifier!Next]_(Identifier!vars)
    PROVE  IdentifierInv'
  <1>1. ASSUME UNCHANGED Identifier!vars PROVE IdentifierInv'
    BY <1>1 DEF Identifier!vars, IdentifierInv, Backed, Identifier!Said
  <1>2. ASSUME Identifier!NoVision \/ Identifier!NoFocus PROVE IdentifierInv'
    BY <1>2 DEF Identifier!NoVision, Identifier!NoFocus, IdentifierInv, Backed, Identifier!Said
  <1>3. ASSUME Identifier!Suspect \/ Identifier!Paid PROVE IdentifierInv'
    BY <1>3 DEF Identifier!Suspect, Identifier!Paid, IdentifierInv, Backed, Identifier!Said
  <1> QED
    BY <1>1, <1>2, <1>3, NativeKeeps, OcrKeeps, VisionKeeps, ChainKeeps, AllKeeps, HighKeeps,
       DewarpKeeps, DeliverKeeps DEF Identifier!Next

IdentifierPart == part = "identifier" => IdentifierInv

\* An identifier is a value only on the word of the file or of two models, and what a
\* person is offered was read by somebody, whatever the readers and the judges answer
\* (committee.py, focused.py, readings.py).
THEOREM IdentifiersAreCorroborated == MCSpec => []IdentifierIsCorroborated
  <1>1. MCInit => IdentifierPart
    BY DEF MCInit, IdentifierPart, IdentifierInv, Identifier!Init
  <1>2. IdentifierPart /\ [MCNext]_allVars => IdentifierPart'
    <2> SUFFICES ASSUME IdentifierPart, [MCNext]_allVars, part' = "identifier" PROVE IdentifierInv'
      BY DEF IdentifierPart
    <2>1. part = "identifier" /\ [Identifier!Next]_(Identifier!vars)
      BY DEF MCNext, allVars, identifier, Identifier!vars
    <2> QED
      BY <2>1, IdentifierKept DEF IdentifierPart
  <1>3. IdentifierPart => IdentifierIsCorroborated
    BY DEF IdentifierPart, IdentifierInv, Backed, IdentifierIsCorroborated,
       Identifier!IdentifierIsCorroborated
  <1> QED
    BY <1>1, <1>2, <1>3, PTL DEF MCSpec

-----------------------------------------------------------------------------
(***************************************************************************)
(* A field of a contract (module SchemaReading).  A page without text that *)
(* the readers have passed is read, or somebody has failed, or there is a  *)
(* label; and the reading of the field is made from all of that.           *)
(***************************************************************************)
LEMMA TwoLines ==
    ASSUME NEW S, Field!Cardinality(S) >= 2
    PROVE  \E x, y \in S : x # y
  BY Counts DEF Field!Cardinality, Cardinality

Covered(p) == p \in read \/ errors # {} \/ Field!Labelled(lines) # {}

\* A local reader has passed the page, or the image models have.
PastVision(p, now) == "ocr" \in looks \/ (p < now /\ "vision" \in looks)

FieldInv ==
    /\ page \in 1 .. Pages /\ blank \subseteq 1 .. Pages
    /\ stage \in {"ocr", "vision", "map", "done"}
    /\ stage # "done" => result.value = None /\ ~result.kept
    /\ stage = "ocr" => \A p \in blank : p < page /\ "ocr" \in looks => Covered(p)
    /\ stage = "vision" => \A p \in blank : PastVision(p, page) => Covered(p)
    /\ stage \in {"map", "done"} =>
          \A p \in blank : looks \intersect {"ocr", "vision"} # {} => Covered(p)
    /\ stage = "done" => Field!FieldIsCorroborated /\ Field!MissingWasLookedFor

\* What is proposed is what all the lines say.
LEMMA ProposedIsSaid ==
    ASSUME NEW set, Field!Proposal(set) # None
    PROVE  /\ set # {} /\ Field!Valid(set) = set
           /\ \A l \in set : l.word.says = Field!Proposal(set)
  <1>1. PICK v : v = Field!Proposal(set)
    OBVIOUS
  <1>2. Field!Said(set) # {} /\ ~Field!Conflict(set) /\ v \in Field!Said(set)
    BY <1>1 DEF Field!Proposal
  <1>3. Field!Valid(set) # {}
    BY <1>2 DEF Field!Said
  <1>4. Field!Valid(set) = set
    BY <1>2, <1>3 DEF Field!Conflict
  <1>5. \A l \in set : l.word.says \in Field!Said(set)
    BY <1>4 DEF Field!Said
  <1>6. \A l \in set : l.word.says = v
    BY <1>2, <1>5 DEF Field!Conflict
  <1> QED
    BY <1>1, <1>3, <1>4, <1>6

\* What is selected is on evidence.
LEMMA SelectedIsBacked ==
    ASSUME NEW set, Field!Selected(set) # None
    PROVE  /\ \A l \in set : l.word.says = Field!Selected(set)
           /\ \/ \E l \in set : l.sure
              \/ \E k, l \in set : /\ {k.by, l.by} \subseteq Field!Identities
                                   /\ Nominal[k.by] # Nominal[l.by]
  <1>1. Field!Selected(set) = Field!Proposal(set) /\ Field!Proposal(set) # None
    BY DEF Field!Selected
  <1>2. Field!Valid(set) = set /\ \A l \in set : l.word.says = Field!Selected(set)
    BY <1>1, ProposedIsSaid
  <1>3. (\E l \in Field!Valid(set) : l.sure) \/ Field!Cardinality(Field!ModelsOf(set)) >= 2
    BY DEF Field!Selected
  <1>4. ASSUME Field!Cardinality(Field!ModelsOf(set)) >= 2
        PROVE  \E k, l \in set : {k.by, l.by} \subseteq Field!Identities /\ Nominal[k.by] # Nominal[l.by]
    <2>1. PICK x \in Field!ModelsOf(set), y \in Field!ModelsOf(set) : x # y
      BY <1>4, TwoLines
    <2> QED
      BY <1>2, <2>1 DEF Field!ModelsOf
  <1> QED
    BY <1>2, <1>3, <1>4

LEMMA EndsIs ==
    ASSUME NEW set, NEW asked, NEW failed, Field!Ends(set, asked, failed)
    PROVE  /\ result'.value = Field!Selected(set) /\ result'.asked = asked
           /\ result'.missing => set = {}
           /\ result'.kept => failed = {}
           /\ errors' = failed /\ stage' = "done" /\ UNCHANGED <<looks, blank, page, lines, read>>
  <1>1. PICK m \in BOOLEAN, k \in BOOLEAN :
            m = (set = {}) /\ k = Field!Keeps(failed)
    BY Zenon DEF Field!Keeps
  <1>2. PICK v : v = Field!Selected(set)
    OBVIOUS
  <1>3. result' = [[[value |-> None, missing |-> TRUE, asked |-> "no", kept |-> FALSE]
                       EXCEPT !.value = v, !.missing = m] EXCEPT !.asked = asked, !.kept = k]
    BY <1>1, <1>2, Zenon DEF Field!Ends, Field!Reading, Field!NoReading
  <1>4. result'.value = v /\ result'.asked = asked /\ result'.missing = m /\ result'.kept = k
    BY <1>3
  <1>5. (m => set = {}) /\ (k => failed = {})
    BY <1>1 DEF Field!Keeps
  <1> QED
    BY <1>2, <1>4, <1>5 DEF Field!Ends

\* What is covered stays so while the readers go on.
LEMMA StaysCovered ==
    ASSUME read \subseteq read', errors \subseteq errors', lines \subseteq lines', NEW p, Covered(p)
    PROVE  Covered(p)'
  BY DEF Covered, Field!Labelled

LEMMA OcrPasses ==
    ASSUME FieldInv, Field!Ocr \/ Field!NoOcr
    PROVE  FieldInv'
  <1>1. /\ stage = "ocr" /\ UNCHANGED <<looks, blank, result>> /\ Field!Turn("vision")
        /\ read \subseteq read' /\ errors \subseteq errors' /\ lines \subseteq lines'
    BY DEF Field!Ocr, Field!NoOcr
  <1>a. PICK now : now = page
    OBVIOUS
  <1>2. now \in blank /\ "ocr" \in looks => Covered(now)'
    BY <1>a DEF Field!Ocr, Field!NoOcr, Covered
  <1>3. \A p \in blank : p <= page /\ "ocr" \in looks => Covered(p)'
    <2> SUFFICES ASSUME NEW p \in blank, p <= page, "ocr" \in looks PROVE Covered(p)'
      OBVIOUS
    <2>1. CASE p = page
      BY <1>a, <1>2, <2>1
    <2>2. CASE p # page
      <3>1. p < page
        BY <2>2, PartsAssumption DEF FieldInv, Field!SchemaReadingAssumption
      <3> QED
        BY <1>1, <3>1, StaysCovered DEF FieldInv
    <2> QED
      BY <2>1, <2>2
  <1>4. CASE page < Pages
    <2>1. page' = page + 1 /\ stage' = "ocr"
      BY <1>1, <1>4 DEF Field!Turn
    <2>2. page \in 1 .. Pages /\ blank \subseteq 1 .. Pages /\ Pages \in Nat
      BY PartsAssumption DEF FieldInv, Field!SchemaReadingAssumption
    <2>3. page' \in 1 .. Pages
      BY <1>4, <2>1, <2>2
    <2>4. \A p \in blank : p < page' => p <= page
      BY <2>1, <2>2
    <2> QED
      BY <1>1, <1>3, <2>1, <2>2, <2>3, <2>4 DEF FieldInv
  <1>5. CASE ~(page < Pages)
    <2>1. page' = 1 /\ stage' = "vision"
      BY <1>1, <1>5 DEF Field!Turn
    <2>2. page' \in 1 .. Pages /\ \A p \in blank : p <= page /\ ~(p < page')
      BY <1>5, <2>1, PartsAssumption DEF FieldInv, Field!SchemaReadingAssumption
    <2> QED
      BY <1>1, <1>3, <2>1, <2>2 DEF FieldInv, PastVision
  <1> QED
    BY <1>4, <1>5

LEMMA VisionPasses ==
    ASSUME FieldInv, Field!Vision \/ Field!NoVision
    PROVE  FieldInv'
  <1>1. /\ stage = "vision" /\ UNCHANGED <<looks, blank, result>> /\ Field!Turn("map")
        /\ read \subseteq read' /\ errors \subseteq errors' /\ lines \subseteq lines'
    BY DEF Field!Vision, Field!NoVision
  <1>a. PICK now : now = page
    OBVIOUS
  <1>2. ASSUME now \in blank, PastVision(now, now + 1) PROVE Covered(now)'
    <2>1. CASE Field!Vision
      BY <1>a, <2>1 DEF Field!Vision, Covered
    <2>2. CASE Field!NoVision
      <3>1. CASE "ocr" \in looks
        BY <1>1, <1>2, <1>a, <3>1, StaysCovered DEF FieldInv, PastVision
      <3>2. CASE ~Field!Unresolved
        <4>1. Field!Labelled(lines) # {}
          BY <3>2, ProposedIsSaid DEF Field!Unresolved
        <4> QED
          BY <1>1, <4>1, StaysCovered DEF Covered
      <3> QED
        BY <1>a, <1>2, <2>2, <3>1, <3>2 DEF Field!NoVision, PastVision
    <2> QED
      BY <2>1, <2>2
  <1>3. \A p \in blank : PastVision(p, page + 1) => Covered(p)'
    <2> SUFFICES ASSUME NEW p \in blank, PastVision(p, page + 1) PROVE Covered(p)'
      OBVIOUS
    <2>1. CASE p = page
      BY <1>a, <1>2, <2>1
    <2>2. CASE p # page
      <3>1. PastVision(p, page)
        BY <2>2, PartsAssumption DEF FieldInv, Field!SchemaReadingAssumption, PastVision
      <3> QED
        BY <1>1, <3>1, StaysCovered DEF FieldInv
    <2> QED
      BY <2>1, <2>2
  <1>4. CASE page < Pages
    <2>1. page' = page + 1 /\ stage' = "vision"
      BY <1>1, <1>4 DEF Field!Turn
    <2>2. page \in 1 .. Pages /\ blank \subseteq 1 .. Pages /\ Pages \in Nat
      BY PartsAssumption DEF FieldInv, Field!SchemaReadingAssumption
    <2>3. page' \in 1 .. Pages
      BY <1>4, <2>1, <2>2
    <2> QED
      BY <1>1, <1>3, <2>1, <2>2, <2>3 DEF FieldInv, PastVision
  <1>5. CASE ~(page < Pages)
    <2>1. page' = 1 /\ stage' = "map"
      BY <1>1, <1>5 DEF Field!Turn
    <2>2. page' \in 1 .. Pages /\ \A p \in blank : p < page + 1
      BY <1>5, <2>1, PartsAssumption DEF FieldInv, Field!SchemaReadingAssumption
    <2> QED
      BY <1>1, <1>3, <2>1, <2>2 DEF FieldInv, PastVision
  <1> QED
    BY <1>4, <1>5

-----------------------------------------------------------------------------
\* The reading of the field, whatever lines it is made from.
LEMMA EndIsRight ==
    ASSUME FieldInv, stage = "map", NEW set \in SUBSET lines, NEW asked, NEW failed,
           Field!Ends(set, asked, failed), errors \subseteq failed,
           Field!Labelled(lines) \subseteq set,
           set = {} /\ failed = {} => asked # "no" \/ "mapper" \notin looks \/ lines = {}
    PROVE  FieldInv'
  <1>1. /\ result'.value = Field!Selected(set) /\ result'.asked = asked
        /\ result'.missing => set = {}
        /\ result'.kept => failed = {}
        /\ errors' = failed /\ stage' = "done" /\ UNCHANGED <<looks, blank, page, lines, read>>
    BY EndsIs
  <1>2. \A p \in blank : looks \intersect {"ocr", "vision"} # {} => Covered(p)'
    BY <1>1, StaysCovered DEF FieldInv
  <1>3. Field!FieldIsCorroborated'
    <2>1. ASSUME result'.value # None
          PROVE  /\ \A l \in set : l.word.says = result'.value
                 /\ \/ \E l \in set : l.sure
                    \/ \E k, l \in set : /\ {k.by, l.by} \subseteq Field!Identities
                                         /\ Nominal[k.by] # Nominal[l.by]
      BY <1>1, <2>1, SelectedIsBacked
    <2>2. Field!Labelled(lines)' = Field!Labelled(lines)
      BY <1>1 DEF Field!Labelled
    <2> QED
      BY <1>1, <2>1, <2>2 DEF Field!FieldIsCorroborated
  <1>4. Field!MissingWasLookedFor'
    <2> SUFFICES ASSUME result'.kept, result'.missing
                 PROVE  /\ looks \intersect {"ocr", "vision"} # {} => blank \subseteq read
                        /\ "mapper" \in looks /\ lines # {} => result'.asked # "no"
      BY <1>1 DEF Field!MissingWasLookedFor
    <2>1. set = {} /\ failed = {}
      BY <1>1
    <2>2. looks \intersect {"ocr", "vision"} # {} => \A p \in blank : p \in read
      BY <2>1 DEF FieldInv, Covered
    <2> QED
      BY <1>1, <2>1, <2>2
  <1> QED
    BY <1>1, <1>2, <1>3, <1>4 DEF FieldInv

LEMMA MapKeeps ==
    ASSUME FieldInv, Field!Map \/ Field!NoMap
    PROVE  FieldInv'
  <1>1. ASSUME Field!Map PROVE FieldInv'
    <2>1. stage = "map" /\ Field!Labelled(lines) = {}
      BY <1>1 DEF Field!Map
    <2>2. CASE \E l \in Field!Valid(lines) : Field!Ends({l}, "yes", errors)
      <3>1. PICK l \in Field!Valid(lines) : Field!Ends({l}, "yes", errors)
        BY <2>2
      <3>2. {l} \in SUBSET lines /\ {l} # {}
        BY DEF Field!Valid
      <3> QED
        BY <2>1, <3>1, <3>2, EndIsRight
    <2>3. CASE Field!Ends({}, "yes", errors)
      BY <2>1, <2>3, EndIsRight
    <2>4. CASE Field!Ends({}, "yes", errors \union {"SCHEMA_READER_ERROR"})
      <3>1. errors \union {"SCHEMA_READER_ERROR"} # {} /\ errors \subseteq errors \union {"SCHEMA_READER_ERROR"}
        OBVIOUS
      <3> QED
        BY <2>1, <2>4, <3>1, EndIsRight
    <2>5. CASE Field!Ends({}, "no room", errors)
      BY <2>1, <2>5, EndIsRight
    <2> QED
      BY <1>1, <2>2, <2>3, <2>4, <2>5 DEF Field!Map
  <1>2. ASSUME Field!NoMap PROVE FieldInv'
    <2>1. /\ stage = "map" /\ Field!Ends(Field!Labelled(lines), "no", errors)
          /\ "mapper" \notin looks \/ Field!Labelled(lines) # {} \/ lines = {}
      BY <1>2 DEF Field!NoMap
    <2>2. Field!Labelled(lines) \in SUBSET lines
      BY DEF Field!Labelled
    <2> QED
      BY <2>1, <2>2, EndIsRight
  <1> QED
    BY <1>1, <1>2

LEMMA AnotherKeeps ==
    ASSUME FieldInv, Field!Reread \/ Field!NextDocument
    PROVE  FieldInv'
  <1>1. /\ stage' = "ocr" /\ page' = 1 /\ result' = Field!NoReading /\ blank' \subseteq 1 .. Pages
    BY DEF Field!Reread, Field!NextDocument, FieldInv
  <1>2. result'.value = None /\ ~result'.kept
    BY <1>1 DEF Field!NoReading
  <1>3. 1 \in 1 .. Pages /\ \A p \in blank' : ~(p < 1)
    BY <1>1, PartsAssumption DEF Field!SchemaReadingAssumption
  <1> QED
    BY <1>1, <1>2, <1>3 DEF FieldInv

LEMMA FieldKept ==
    ASSUME FieldInv, [Field!Next]_(Field!vars)
    PROVE  FieldInv'
  <1>1. ASSUME UNCHANGED Field!vars PROVE FieldInv'
    BY <1>1 DEF Field!vars, FieldInv, PastVision, Covered, Field!Labelled,
       Field!FieldIsCorroborated, Field!MissingWasLookedFor
  <1> QED
    BY <1>1, OcrPasses, VisionPasses, MapKeeps, AnotherKeeps DEF Field!Next

FieldPart == part = "field" => FieldInv

\* A field is a value only on evidence that no label contradicts, and is kept as missing
\* only when the readers that are switched on have looked at every page and a text model,
\* if there is one, was asked, whoever fails and whatever the readers say (schema_fields.py, extract_schema).
THEOREM FieldsAreCorroborated == MCSpec => []FieldIsCorroborated
  <1>1. MCInit => FieldPart
    <2> SUFFICES ASSUME MCInit, part = "field" PROVE FieldInv
      BY DEF FieldPart
    <2>1. /\ stage = "ocr" /\ page = 1 /\ result = Field!NoReading /\ blank \subseteq 1 .. Pages
      BY DEF MCInit, Field!Init
    <2>2. result.value = None /\ ~result.kept
      BY <2>1 DEF Field!NoReading
    <2>3. 1 \in 1 .. Pages /\ \A p \in blank : ~(p < 1)
      BY <2>1, PartsAssumption DEF Field!SchemaReadingAssumption
    <2> QED
      BY <2>1, <2>2, <2>3 DEF FieldInv
  <1>2. FieldPart /\ [MCNext]_allVars => FieldPart'
    <2> SUFFICES ASSUME FieldPart, [MCNext]_allVars, part' = "field" PROVE FieldInv'
      BY DEF FieldPart
    <2>1. part = "field" /\ [Field!Next]_(Field!vars)
      BY DEF MCNext, allVars, field, Field!vars
    <2> QED
      BY <2>1, FieldKept DEF FieldPart
  <1>3. FieldPart => FieldIsCorroborated
    <2> SUFFICES ASSUME FieldInv PROVE Field!FieldIsCorroborated /\ Field!MissingWasLookedFor
      BY DEF FieldPart, FieldIsCorroborated
    <2>1. CASE stage = "done"
      BY <2>1 DEF FieldInv
    <2>2. CASE stage # "done"
      BY <2>2 DEF FieldInv, Field!FieldIsCorroborated, Field!MissingWasLookedFor
    <2> QED
      BY <2>1, <2>2
  <1> QED
    BY <1>1, <1>2, <1>3, PTL DEF MCSpec

-----------------------------------------------------------------------------
(***************************************************************************)
(* The models a version lets read (module Binding).  Every service that is *)
(* kept was bound from its key for the deployment of now, and what is      *)
(* bound asks nobody whom the settings do not name.                        *)
(***************************************************************************)
Pair(reader, providers) ==
    reader = None \/ \E p \in providers : \E m : reader = <<p, m>>

\* Settings that ExecutionSettings lets through.
Fit(c) ==
    /\ {"vision", "judge", "local_only"} \subseteq DOMAIN c
    /\ Pair(c.vision, Binding!VisualProviders) /\ Pair(c.judge, Binding!JudgeProviders)
    /\ c.local_only => \A reader \in {c.vision, c.judge} \ {None} : reader[1] = "local"

Made == \E T : services \in Seq(T) /\ \A t \in T : t.settings = Binding!Bound(t.key, deployment)

BindingInv ==
    /\ deployment \in Deployments
    /\ draft = None \/ Fit(draft)
    /\ version = None \/ Fit(version)
    /\ Made
    /\ DOMAIN request = Callers
    /\ \A r \in Callers :
          (request[r].at = "reading" /\ request[r].config # None) =>
              /\ Fit(request[r].config)
              /\ request[r].settings = Binding!Bound(request[r].config, deployment)

LEMMA RangeOf ==
    /\ Binding!Range(<< >>) = {}
    /\ \A x : Binding!Range(<<x>>) = {x}
  BY DEF Binding!Range

\* What is bound asks the readers of the version alone.
LEMMA BoundAsks ==
    ASSUME NEW c, NEW d, Fit(c)
    PROVE  Binding!Asked(Binding!Bound(c, d)) \subseteq {c.vision, c.judge} \ {None}
  <1>a. PICK vision, judge, s : /\ vision = Binding!Provider(c.vision)
                                /\ judge = Binding!Provider(c.judge)
                                /\ s = Binding!Bound(c, d)
    OBVIOUS
  <1>b. /\ s.keys = d.keys \intersect {vision, judge}
        /\ s.vision_providers = IF vision \in {"local", "compatible"} THEN <<"compatible">>
                                ELSE IF vision \in {"gemini", "helmcode"} THEN <<vision>>
                                ELSE << >>
        /\ s.text_providers = IF judge \in {"jev", "helmcode"} THEN <<judge>> ELSE << >>
        /\ s.vlm_url = Binding!Endpoint(vision)
        /\ s.vlm_model = IF Binding!Endpoint(vision) = None THEN None ELSE Binding!Model(c.vision)
        /\ vision = "gemini" => s.gemini_model = Binding!Model(c.vision)
        /\ s.helmcode_vision_models = IF vision = "helmcode" THEN {Binding!Model(c.vision)} ELSE {}
        /\ judge = "helmcode" => s.helmcode_text_model = Binding!Model(c.judge)
        /\ s.jev_model = Binding!Model(c.judge)
        /\ s.judge_url = Binding!Endpoint(judge)
    BY <1>a DEF Binding!Bound, Binding!TextProviders
  <1>0. /\ \/ c.vision = None /\ vision = "disabled"
           \/ c.vision = <<vision, Binding!Model(c.vision)>> /\ c.vision # None
        /\ vision \in {"disabled", "local", "compatible", "gemini", "helmcode"}
        /\ \/ c.judge = None /\ judge = "disabled"
           \/ c.judge = <<judge, Binding!Model(c.judge)>> /\ c.judge # None
        /\ judge \in {"disabled", "local", "compatible", "jev", "helmcode"}
    BY <1>a DEF Fit, Pair, Binding!Provider, Binding!Model, Binding!VisualProviders,
       Binding!JudgeProviders
  <1>1. Binding!VisualChain(s) \subseteq {c.vision} \ {None}
    <2>1. CASE vision \in {"local", "compatible"}
      <3>1. Binding!Range(s.vision_providers) = {"compatible"}
        BY <2>1, RangeOf, <1>b
      <3> QED
        BY <1>0, <2>1, <3>1, <1>b DEF Binding!VisualChain, Binding!Endpoint
    <2>2. CASE vision \in {"gemini", "helmcode"}
      <3>1. Binding!Range(s.vision_providers) = {vision}
        BY <2>2, RangeOf, <1>b
      <3> QED
        BY <1>0, <2>2, <3>1, <1>b DEF Binding!VisualChain
    <2>3. CASE vision = "disabled"
      <3>1. Binding!Range(s.vision_providers) = {}
        BY <2>3, RangeOf, <1>b
      <3> QED
        BY <3>1 DEF Binding!VisualChain
    <2> QED
      BY <1>0, <2>1, <2>2, <2>3
  <1>2. Binding!JudgeChain(s) \subseteq {c.judge} \ {None}
    <2>1. CASE judge \in {"local", "compatible"}
      <3>1. Binding!Range(s.text_providers) = {}
        BY <2>1, RangeOf, <1>b
      <3> QED
        BY <1>0, <2>1, <3>1, <1>b DEF Binding!JudgeChain, Binding!Endpoint
    <2>2. CASE judge \in {"jev", "helmcode"}
      <3>1. Binding!Range(s.text_providers) = {judge} /\ s.judge_url = None
        BY <2>2, RangeOf, <1>b DEF Binding!Endpoint
      <3> QED
        BY <1>0, <2>2, <3>1, <1>b DEF Binding!JudgeChain
    <2>3. CASE judge = "disabled"
      <3>1. Binding!Range(s.text_providers) = {} /\ s.judge_url = None
        BY <2>3, RangeOf, <1>b DEF Binding!Endpoint
      <3> QED
        BY <3>1 DEF Binding!JudgeChain
    <2> QED
      BY <1>0, <2>1, <2>2, <2>3
  <1>3. Binding!FieldChain(s) \subseteq {c.vision, c.judge} \ {None}
    <2> SUFFICES ASSUME NEW link \in Binding!VisualChain(s)
                 PROVE  <<link[1], IF link[1] = "helmcode" /\ "helmcode" \in Binding!Range(s.text_providers)
                                   THEN s.helmcode_text_model ELSE link[2]>> \in {c.vision, c.judge} \ {None}
      BY DEF Binding!FieldChain
    <2>1. link = c.vision /\ link = <<vision, Binding!Model(c.vision)>> /\ link # None
      BY <1>0, <1>1
    <2>2. ASSUME "helmcode" \in Binding!Range(s.text_providers)
          PROVE  c.judge = <<"helmcode", s.helmcode_text_model>> /\ c.judge # None
      <3>1. judge = "helmcode"
        BY <1>0, <2>2, RangeOf, <1>b
      <3> QED
        BY <1>0, <3>1, <1>b
    <2> QED
      BY <2>1, <2>2
  <1> QED
    BY <1>a, <1>1, <1>2, <1>3 DEF Binding!Asked

\* Neither the agents nor the name of the preset matter.
LEMMA KeyBinds ==
    ASSUME NEW c, NEW d, Fit(c)
    PROVE  Binding!Bound(Binding!Key(c), d) = Binding!Bound(c, d)
  <1>1. Binding!Key(c).vision = c.vision /\ Binding!Key(c).judge = c.judge
    BY DEF Binding!Key, Fit
  <1> HIDE DEF Binding!Key
  <1> QED
    BY <1>1 DEF Binding!Bound, Binding!TextProviders

LEMMA PresetFits ==
    ASSUME NEW c, NEW name, Fit(c)
    PROVE  Fit([c EXCEPT !.preset = name])
  BY DEF Fit

LEMMA ConfigsFit ==
    ASSUME NEW c \in Binding!Configs
    PROVE  Fit(c)
  <1>1. Binding!Valid(c) /\ DOMAIN c = {"local_only", "compatible", "preset", "vision", "judge"}
        /\ c.vision \in Binding!Named(Binding!VisualProviders)
        /\ c.judge \in Binding!Named(Binding!JudgeProviders)
    BY DEF Binding!Configs
  <1>2. Pair(c.vision, Binding!VisualProviders) /\ Pair(c.judge, Binding!JudgeProviders)
    BY <1>1 DEF Binding!Named, Pair
  <1> QED
    BY <1>1, <1>2 DEF Fit, Binding!Valid

\* The first reader of a list that can be asked is one of the list.
LEMMA ForemostIsListed ==
    ASSUME NEW S, NEW list \in Seq(S), NEW set \in SUBSET Binding!Range(list), set # {}
    PROVE  Binding!Foremost(list, set) \in S
  <1> DEFINE P == {i \in DOMAIN list : list[i] \in set}
             Q == {i \in DOMAIN list : list[i] \in set /\ \A j \in 1 .. i - 1 : list[j] \notin set}
  <1>1. P # {} /\ P \subseteq Nat
    BY DEF Binding!Range
  <1>2. PICK i \in P : \A j \in P : i <= j
    BY <1>1, LeastNumber
  <1>3. \A j \in P : ~ (j < i)
    BY <1>1, <1>2
  <1>4. i \in Q
    BY <1>3
  <1>5. Binding!First(Q) \in Q
    BY <1>4 DEF Binding!First
  <1> QED
    BY <1>5 DEF Binding!Foremost

\* Without settings, the deployment's first readers are the version's.
LEMMA DefaultsFit ==
    ASSUME NEW d \in Deployments
    PROVE  Fit(Binding!Defaults(d))
  <1>1. PICK visual : visual = {p \in Binding!Range(d.vision_providers) :
                        Binding!VisualChain([Binding!Base(d) EXCEPT !.vision_providers = <<p>>]) # {}}
    OBVIOUS
  <1>2. PICK text : text = Binding!Range(d.text_providers) \intersect d.keys
    OBVIOUS
  <1>3. visual # {} => Binding!Foremost(d.vision_providers, visual) \in Binding!VisualProviders
    <2>1. d.vision_providers \in Seq({"compatible", "gemini", "helmcode"})
      BY PartsAssumption DEF Binding!BindingAssumption
    <2>2. visual \in SUBSET Binding!Range(d.vision_providers)
      BY <1>1
    <2>3. visual # {} => Binding!Foremost(d.vision_providers, visual) \in {"compatible", "gemini", "helmcode"}
      BY <2>1, <2>2, ForemostIsListed
    <2> QED
      BY <2>3 DEF Binding!VisualProviders
  <1>4. text # {} => Binding!Foremost(d.text_providers, text) \in Binding!JudgeProviders
    <2>1. d.text_providers \in Seq({"jev", "helmcode"})
      BY PartsAssumption DEF Binding!BindingAssumption
    <2>2. text \in SUBSET Binding!Range(d.text_providers)
      BY <1>2
    <2>3. text # {} => Binding!Foremost(d.text_providers, text) \in {"jev", "helmcode"}
      BY <2>1, <2>2, ForemostIsListed
    <2> QED
      BY <2>3 DEF Binding!JudgeProviders
  <1>5. PICK c : c = Binding!Defaults(d)
    OBVIOUS
  <1>6. /\ DOMAIN c = {"local_only", "compatible", "preset", "vision", "judge"}
        /\ c.local_only = FALSE
        /\ \/ c.vision = None
           \/ visual # {} /\ \E m : c.vision = <<Binding!Foremost(d.vision_providers, visual), m>>
        /\ \/ c.judge = None
           \/ text # {} /\ \E m : c.judge = <<Binding!Foremost(d.text_providers, text), m>>
    <2>1. PICK open \in BOOLEAN :
              c = [local_only |-> FALSE, compatible |-> open, preset |-> Binding!Custom,
                   vision |-> Binding!Reader(d, d.vision_providers, visual),
                   judge |-> Binding!Reader(d, d.text_providers, text)]
      BY <1>1, <1>2, <1>5, Zenon DEF Binding!Defaults
    <2>2. /\ DOMAIN c = {"local_only", "compatible", "preset", "vision", "judge"}
          /\ c.local_only = FALSE
          /\ c.vision = Binding!Reader(d, d.vision_providers, visual)
          /\ c.judge = Binding!Reader(d, d.text_providers, text)
      BY <2>1
    <2> QED
      BY <2>2 DEF Binding!Reader
  <1>7. Pair(c.vision, Binding!VisualProviders) /\ Pair(c.judge, Binding!JudgeProviders)
    BY <1>3, <1>4, <1>6 DEF Pair
  <1> QED
    BY <1>5, <1>6, <1>7, Zenon DEF Fit

-----------------------------------------------------------------------------
LEMMA NothingMade ==
    /\ services = << >> => Made
    /\ services' = << >> => Made'
  <1>1. << >> \in Seq({})
    OBVIOUS
  <1>2. ASSUME services = << >> PROVE Made
    <2>1. PICK T : T = {}
      OBVIOUS
    <2>2. services \in Seq(T) /\ \A t \in T : t.settings = Binding!Bound(t.key, deployment)
      BY <1>1, <1>2, <2>1
    <2> QED
      BY <2>2 DEF Made
  <1>3. ASSUME services' = << >> PROVE Made'
    <2>1. PICK T : T = {}
      OBVIOUS
    <2>2. services' \in Seq(T) /\ \A t \in T : t.settings = Binding!Bound(t.key, deployment)'
      BY <1>1, <1>3, <2>1
    <2> QED
      BY <2>2 DEF Made
  <1> QED
    BY <1>2, <1>3

LEMMA BindKeeps ==
    ASSUME BindingInv, NEW r \in Callers, Binding!Bind(r)
    PROVE  BindingInv'
  <1>1. PICK c : c = IF version # None THEN version ELSE draft
    OBVIOUS
  <1>2. CASE c = None
    <2>1. /\ request' = [request EXCEPT ![r] =
                [at |-> "reading", config |-> None, settings |-> Binding!Base(deployment)]]
          /\ UNCHANGED <<deployment, draft, version, services>>
      BY <1>1, <1>2 DEF Binding!Bind
    <2>2. request'[r].config = None /\ DOMAIN request' = Callers
      BY <2>1 DEF BindingInv
    <2>3. \A q \in Callers \ {r} : request'[q] = request[q]
      BY <2>1 DEF BindingInv
    <2> QED
      BY <2>1, <2>2, <2>3 DEF BindingInv, Made
  <1>3. CASE c # None
    <2>1. Fit(c)
      BY <1>1, <1>3 DEF BindingInv
    <2>2. PICK key : key = Binding!Key(c)
      OBVIOUS
    <2>3. PICK service : service = IF Binding!Cached(key) # {}
                                   THEN services[Binding!First(Binding!Cached(key))]
                                   ELSE [key |-> key, settings |-> Binding!Bound(c, deployment)]
      OBVIOUS
    <2>4. PICK others : others = IF Binding!Cached(key) # {}
                                 THEN Binding!RemoveAt(services, Binding!First(Binding!Cached(key)))
                                 ELSE services
      OBVIOUS
    <2>5. /\ request' = [request EXCEPT ![r] =
                [at |-> "reading", config |-> c, settings |-> service.settings]]
          /\ services' = IF Len(Append(others, service)) > CacheSize
                         THEN Tail(Append(others, service)) ELSE Append(others, service)
          /\ UNCHANGED <<deployment, draft, version>>
      BY <1>1, <1>3, <2>2, <2>3, <2>4 DEF Binding!Bind
    <2>6. PICK T : services \in Seq(T) /\ \A t \in T : t.settings = Binding!Bound(t.key, deployment)
      BY DEF BindingInv, Made
    <2>7. service.settings = Binding!Bound(service.key, deployment) /\ service.key = key
      <3>1. CASE Binding!Cached(key) = {}
        BY <2>1, <2>2, <2>3, <3>1, KeyBinds
      <3>2. CASE Binding!Cached(key) # {}
        <4>1. Binding!First(Binding!Cached(key)) \in Binding!Cached(key)
          BY <3>2 DEF Binding!First
        <4>2. service \in T /\ service.key = key
          BY <2>3, <2>6, <3>2, <4>1 DEF Binding!Cached
        <4> QED
          BY <2>6, <4>2
      <3> QED
        BY <3>1, <3>2
    <2>8. service.settings = Binding!Bound(c, deployment)
      BY <2>1, <2>2, <2>7, KeyBinds
    <2>9. Made'
      <3> DEFINE S == T \union {service}
      <3>1. \A t \in S : t.settings = Binding!Bound(t.key, deployment)
        BY <2>6, <2>7
      <3>0. service \in S
        OBVIOUS
      <3>2. others \in Seq(S)
        <4>1. services \in Seq(S)
          BY <2>6
        <4>2. CASE Binding!Cached(key) = {}
          BY <2>4, <4>1, <4>2
        <4>3. CASE Binding!Cached(key) # {}
          <5>1. PICK i \in DOMAIN services : i = Binding!First(Binding!Cached(key))
            BY <4>3 DEF Binding!First, Binding!Cached
          <5>2. i \in Nat /\ i \in 1 .. Len(services)
            BY <4>1, <5>1
          <5>3. others = SubSeq(services, 1, i - 1) \o SubSeq(services, i + 1, Len(services))
            BY <2>4, <4>3, <5>1 DEF Binding!RemoveAt
          <5>4. SubSeq(services, 1, i - 1) \in Seq(S) /\ SubSeq(services, i + 1, Len(services)) \in Seq(S)
            <6> HIDE DEF S
            <6> QED BY <4>1, <5>2
          <5> HIDE DEF S
          <5> QED
            BY <5>3, <5>4
        <4> QED
          BY <4>2, <4>3
      <3> HIDE DEF S
      <3>3. Append(others, service) \in Seq(S) /\ Append(others, service) # << >>
        <4>1. Append(others, service) \in Seq(S) /\ Len(Append(others, service)) = Len(others) + 1
          BY <3>0, <3>2
        <4>2. Len(others) \in Nat /\ Len(<< >>) = 0
          BY <3>2
        <4> QED
          BY <4>1, <4>2
      <3>4. services' \in Seq(S)
        BY <2>5, <3>3
      <3> QED
        BY <2>5, <3>1, <3>4 DEF Made
    <2>10. /\ DOMAIN request' = Callers
           /\ request'[r].config = c /\ request'[r].settings = service.settings
           /\ \A q \in Callers \ {r} : request'[q] = request[q]
      BY <2>5 DEF BindingInv
    <2> QED
      BY <2>1, <2>5, <2>8, <2>9, <2>10 DEF BindingInv
  <1> QED
    BY <1>2, <1>3

LEMMA BindingKept ==
    ASSUME BindingInv, [Binding!Next]_(Binding!bindingVars)
    PROVE  BindingInv'
  <1>1. ASSUME UNCHANGED Binding!bindingVars PROVE BindingInv'
    BY <1>1 DEF Binding!bindingVars, BindingInv, Made
  <1>2. ASSUME NEW c \in Binding!Configs, Binding!Save(c) PROVE BindingInv'
    <2>1. Fit(c) /\ Fit([c EXCEPT !.preset = Binding!Custom])
      BY ConfigsFit, PresetFits
    <2>2. Fit(draft')
      BY <1>2, <2>1 DEF Binding!Save
    <2> QED
      BY <1>2, <2>2 DEF Binding!Save, BindingInv, Made
  <1>3. ASSUME Binding!SaveOther PROVE BindingInv'
    <2>1. Fit(draft')
      BY <1>3, DefaultsFit DEF Binding!SaveOther, BindingInv
    <2> QED
      BY <1>3, <2>1 DEF Binding!SaveOther, BindingInv, Made
  <1>4. ASSUME Binding!Publish PROVE BindingInv'
    BY <1>4 DEF Binding!Publish, BindingInv, Made
  <1>5. ASSUME NEW r \in Callers, Binding!Finish(r) PROVE BindingInv'
    BY <1>5 DEF Binding!Finish, Binding!Resting, BindingInv, Made
  <1>6. ASSUME NEW d \in Deployments, Binding!Restart(d) PROVE BindingInv'
    <2>1. /\ deployment' \in Deployments /\ services' = << >> /\ DOMAIN request' = Callers
          /\ \A r \in Callers : request'[r].at = "idle"
          /\ UNCHANGED <<draft, version>>
      BY <1>6 DEF Binding!Restart, Binding!Resting
    <2>2. Made'
      BY <2>1, NothingMade
    <2> QED
      BY <2>1, <2>2 DEF BindingInv
  <1> QED
    BY <1>1, <1>2, <1>3, <1>4, <1>5, <1>6, BindKeeps DEF Binding!Next

BindingPart == part = "binding" => BindingInv

\* Whatever keys, providers and cached services the server has, a document is sent only to
\* the models the settings name, and by a local-only process to the local server alone
\* (ingestion_settings).
THEOREM VersionsOwnReaders == MCSpec => []OnlyItsOwnReaders
  <1>1. MCInit => BindingPart
    <2> SUFFICES ASSUME MCInit, part = "binding" PROVE BindingInv
      BY DEF BindingPart
    <2>1. Binding!Init
      BY DEF MCInit
    <2>2. DOMAIN request = Callers /\ \A r \in Callers : request[r].at = "idle"
      BY <2>1 DEF Binding!Init, Binding!Resting
    <2>3. Made
      BY <2>1, NothingMade DEF Binding!Init
    <2> QED
      BY <2>1, <2>2, <2>3 DEF Binding!Init, BindingInv
  <1>2. BindingPart /\ [MCNext]_allVars => BindingPart'
    <2> SUFFICES ASSUME BindingPart, [MCNext]_allVars, part' = "binding" PROVE BindingInv'
      BY DEF BindingPart
    <2>1. part = "binding" /\ [Binding!Next]_(Binding!bindingVars)
      BY DEF MCNext, allVars, vars, binding, Binding!bindingVars
    <2> QED
      BY <2>1, BindingKept DEF BindingPart
  <1>3. BindingPart => OnlyItsOwnReaders
    <2> SUFFICES ASSUME BindingInv,
                        NEW r \in Callers, request[r].at = "reading", request[r].config # None
                 PROVE  LET c == request[r].config
                        IN  /\ Binding!Asked(request[r].settings) \subseteq {c.vision, c.judge}
                            /\ c.local_only => \A asked \in Binding!Asked(request[r].settings) :
                                                  asked[1] = "local"
      BY DEF BindingPart, OnlyItsOwnReaders, Binding!OnlyItsOwnReaders
    <2>1. PICK c : c = request[r].config
      OBVIOUS
    <2>2. Fit(c) /\ Binding!Asked(request[r].settings) \subseteq {c.vision, c.judge} \ {None}
      BY <2>1, BoundAsks DEF BindingInv
    <2> QED
      BY <2>1, <2>2 DEF Fit
  <1> QED
    BY <1>1, <1>2, <1>3, PTL DEF MCSpec
=============================================================================
