--------------------------- MODULE DecisionsProofs ---------------------------
(***************************************************************************)
(* Proofs about the life of the cases, for any number of cases, requests   *)
(* and versions: the histories are an append-only log in the sense of      *)
(* module DecisionLog, and what that log promises; what lists and exports  *)
(* show of them; and that executions replay.  Then of what several         *)
(* managers write at once: the proposals, the configurations of the agents *)
(* and the rows of a table.                                                *)
(***************************************************************************)
EXTENDS MCDecisions, FiniteSetTheorems, WellFoundedInduction, TLAPS

-----------------------------------------------------------------------------
(* The log: what may follow keeps the shape of a history.                  *)

\* The parts of DecisionLog's invariants that concern one history.
Shape(h) ==
    /\ \A n \in 1 .. Len(h) : h[n].decision \in TypesOf[h[n].version]
    /\ \A n \in 1 .. Len(h) - 1 :
          /\ h[n].author = "person" => h[n + 1].author = "person"
          /\ h[n].review = "human" => h[n + 1].author = "person"
          /\ (h[n].author = "engine" /\ h[n + 1].author = "engine")
                => h[n].decision # h[n + 1].decision
          /\ h[n].version <= h[n + 1].version

LEMMA RowAuthor ==
    ASSUME NEW row \in Rows PROVE row.author \in {"engine", "person"}
  BY DEF Rows, History!Rows

LEMMA GrowsShape ==
    ASSUME NEW h \in Seq(Rows), NEW g, Shape(h), History!Grows(h, g)
    PROVE  g \in Seq(Rows) /\ Shape(g)
  <1>1. PICK row \in Rows : History!MayFollow(h, row) /\ g = Append(h, row)
    BY DEF History!Grows, Rows
  <1>2. /\ g \in Seq(Rows)
        /\ Len(g) = Len(h) + 1 /\ Len(h) \in Nat
        /\ \A n \in 1 .. Len(h) : g[n] = h[n]
        /\ g[Len(h) + 1] = row
    BY <1>1
  <1>3. row.decision \in TypesOf[row.version]
    BY <1>1 DEF History!MayFollow
  <1>4. ASSUME NEW n \in 1 .. Len(g)
        PROVE  g[n].decision \in TypesOf[g[n].version]
    <2>1. CASE n \in 1 .. Len(h)
      BY <1>2, <2>1 DEF Shape
    <2>2. CASE n = Len(h) + 1
      BY <1>2, <1>3, <2>2
    <2> QED
      BY <1>2, <2>1, <2>2
  <1>5. ASSUME NEW n \in 1 .. Len(g) - 1
        PROVE  /\ g[n].author = "person" => g[n + 1].author = "person"
               /\ g[n].review = "human" => g[n + 1].author = "person"
               /\ (g[n].author = "engine" /\ g[n + 1].author = "engine")
                     => g[n].decision # g[n + 1].decision
               /\ g[n].version <= g[n + 1].version
    <2>1. CASE n \in 1 .. Len(h) - 1
      <3>1. g[n] = h[n] /\ g[n + 1] = h[n + 1]
        BY <1>2, <2>1
      <3> QED
        BY <2>1, <3>1 DEF Shape
    <2>2. CASE n = Len(h)
      <3>1. h # <<>> /\ g[n] = h[Len(h)] /\ g[n + 1] = row
        BY <1>2, <2>2
      <3>2. /\ h[Len(h)].version <= row.version
            /\ row.author = "engine" =>
                 /\ h[Len(h)].author = "engine"
                 /\ h[Len(h)].review # "human"
                 /\ h[Len(h)].decision # row.decision
        BY <1>1, <3>1 DEF History!MayFollow, History!Latest
      <3>3. row.author \in {"engine", "person"}
        BY RowAuthor
      <3> QED
        BY <3>1, <3>2, <3>3
    <2> QED
      BY <1>2, <2>1, <2>2
  <1> QED
    BY <1>2, <1>4, <1>5 DEF Shape

-----------------------------------------------------------------------------
(***************************************************************************)
(* The inductive invariant.  A holder of the lock finds what it read       *)
(* unchanged when it commits: the version it captured is still the active  *)
(* one, the cases of a run are still pending, those of a reprocess decided.*)
(***************************************************************************)
Locked == {"run", "reprocess", "resolve", "extract"}

HoldersLock == \A r \in Requests : req[r].op \in Locked => lock = r

PickedStands ==
    \A r \in Requests :
        /\ req[r].op \in {"run", "reprocess", "resolve"} => req[r].version = active
        /\ req[r].op = "run" => \A i \in req[r].picked : status[i] = "PENDING"
        /\ req[r].op = "reprocess" =>
              \A i \in req[r].picked : status[i] = "DECIDED"
        /\ req[r].op = "export" =>
              \A i \in req[r].picked : status[i] = "DECIDED"

HistoriesShaped ==
    \A i \in Instances :
        /\ Shape(history[i])
        /\ history[i] # <<>> => Latest(history[i]).version <= active

Inv ==
    /\ TypeOK
    /\ DecidedIffHistory
    /\ HoldersLock
    /\ PickedStands
    /\ HistoriesShaped

LEMMA InitInv == Init => Inv
  <1> SUFFICES ASSUME Init PROVE Inv
    OBVIOUS
  <1>1. <<>> \in Seq(Rows) /\ Len(<<>>) = 0
    OBVIOUS
  <1>2. Idle \in [op : Ops, picked : SUBSET Instances,
                  version : Versions, cached : Statuses]
    BY DecisionsAssumption DEF Idle, Ops, Statuses
  <1>3. TypeOK
    BY <1>1, <1>2, DecisionsAssumption DEF Init, TypeOK, Statuses
  <1>4. DecidedIffHistory
    BY DEF Init, DecidedIffHistory
  <1>5. HoldersLock /\ PickedStands
    <2>1. \A r \in Requests : req[r].op = "idle"
      BY DEF Init, Idle
    <2> QED
      BY <2>1, Zenon DEF HoldersLock, PickedStands, Locked
  <1>6. HistoriesShaped
    <2>1. Shape(<<>>)
      BY <1>1 DEF Shape
    <2>2. \A i \in Instances : history[i] = <<>>
      BY DEF Init
    <2> QED
      BY <2>1, <2>2 DEF HistoriesShaped
  <1> QED
    BY <1>3, <1>4, <1>5, <1>6 DEF Inv

-----------------------------------------------------------------------------
(* What taking and releasing the lock does to the requests.                *)

Reqs == [op : Ops, picked : SUBSET Instances, version : Versions,
         cached : Statuses]

LEMMA BeginReq ==
    ASSUME TypeOK, NEW r \in Requests, NEW op \in Ops,
           NEW picked \in SUBSET Instances, Begin(r, op, picked)
    PROVE  /\ lock = NoRequest /\ lock' = r
           /\ req' \in [Requests -> Reqs]
           /\ req'[r].op = op /\ req'[r].picked = picked
           /\ req'[r].version = active
           /\ \A q \in Requests : q # r => req'[q] = req[q]
  BY DEF TypeOK, Begin, Reqs

LEMMA EndReq ==
    ASSUME TypeOK, NEW r \in Requests, NEW op, End(r, op)
    PROVE  /\ req[r].op = op
           /\ lock' \in Requests \union {NoRequest}
           /\ lock # r => lock' = lock
           /\ req' \in [Requests -> Reqs]
           /\ req'[r].op = "idle"
           /\ \A q \in Requests : q # r => req'[q] = req[q]
  <1>1. Idle \in Reqs /\ Idle.op = "idle"
    BY DecisionsAssumption DEF Idle, Reqs, Ops, Statuses
  <1> QED
    BY <1>1 DEF TypeOK, End, Reqs

\* A request that ends leaves the other requests and their lock alone.
LEMMA EndHolders ==
    ASSUME TypeOK, HoldersLock, NEW r \in Requests, NEW op, End(r, op)
    PROVE  HoldersLock'
  <1> SUFFICES ASSUME NEW q \in Requests, req'[q].op \in Locked
               PROVE  lock' = q
    BY DEF HoldersLock
  <1>1. q # r /\ req'[q] = req[q]
    BY EndReq DEF Locked
  <1>2. lock = q
    BY <1>1 DEF HoldersLock
  <1> QED
    BY <1>1, <1>2, EndReq

\* A request takes the lock only when no other holds it.
LEMMA BeginHolders ==
    ASSUME TypeOK, HoldersLock, NEW r \in Requests, NEW op \in Ops,
           NEW picked \in SUBSET Instances, Begin(r, op, picked)
    PROVE  HoldersLock'
  <1> SUFFICES ASSUME NEW q \in Requests, req'[q].op \in Locked, q # r
               PROVE  FALSE
    BY BeginReq DEF HoldersLock
  <1>1. req'[q] = req[q] /\ lock = NoRequest
    BY BeginReq
  <1>2. lock = q
    BY <1>1 DEF HoldersLock
  <1> QED
    BY <1>1, <1>2, DecisionsAssumption

-----------------------------------------------------------------------------
(***************************************************************************)
(* What a step may do to the histories: each stays, or grows by a row that *)
(* the log allows and that is no newer than the active version; a row of   *)
(* the engine is of that version.                                          *)
(***************************************************************************)
WrittenTo(i) ==
    \E row \in Rows :
        /\ History!MayFollow(history[i], row)
        /\ row.version <= active'
        /\ row.author = "engine" => row.version = active'
        /\ history'[i] = Append(history[i], row)

Writes ==
    /\ active' \in Versions /\ active <= active'
    /\ history' \in [Instances -> Seq(Rows)]
    /\ \A i \in Instances : history'[i] = history[i] \/ WrittenTo(i)

LEMMA WritesShape ==
    ASSUME TypeOK, HistoriesShaped, Writes PROVE HistoriesShaped'
  <1> SUFFICES ASSUME NEW i \in Instances
               PROVE  /\ Shape(history'[i])
                      /\ history'[i] # <<>> => Latest(history'[i]).version <= active'
    BY DEF HistoriesShaped
  <1>1. history[i] \in Seq(Rows) /\ Shape(history[i])
    BY DEF TypeOK, HistoriesShaped
  <1>2. CASE history'[i] = history[i]
    <2> SUFFICES ASSUME history[i] # <<>>
                 PROVE  Latest(history[i]).version <= active'
      BY <1>1, <1>2
    <2>1. /\ Latest(history[i]) \in Rows
          /\ Latest(history[i]).version <= active
      BY <1>1 DEF HistoriesShaped, Latest, History!Latest
    <2>2. Latest(history[i]).version \in Nat /\ active \in Nat /\ active' \in Nat
      BY <2>1, DecisionsAssumption DEF TypeOK, Writes, Rows, History!Rows
    <2> QED
      BY <2>1, <2>2 DEF Writes
  <1>3. CASE WrittenTo(i)
    <2>1. PICK row \in Rows : /\ History!MayFollow(history[i], row)
                              /\ row.version <= active'
                              /\ history'[i] = Append(history[i], row)
      BY <1>3 DEF WrittenTo
    <2>2. History!Grows(history[i], history'[i])
      BY <2>1 DEF History!Grows, Rows
    <2>3. Shape(history'[i])
      BY <1>1, <2>2, GrowsShape
    <2>4. Latest(history'[i]) = row
      BY <1>1, <2>1 DEF Latest, History!Latest
    <2> QED
      BY <2>1, <2>3, <2>4
  <1> QED
    BY <1>2, <1>3 DEF Writes

LEMMA NothingWritten ==
    ASSUME TypeOK, UNCHANGED history, active' \in Versions, active <= active'
    PROVE  Writes
  BY DEF TypeOK, Writes

LEMMA ActiveNat == TypeOK => active \in Nat /\ active <= active
  BY DecisionsAssumption DEF TypeOK

-----------------------------------------------------------------------------
(* What the requests picked stands until they commit.                      *)

\* A holder of the lock ends: the others picked cases for an export at most,
\* and those stay decided.
LEMMA EndPicked ==
    ASSUME Inv, NEW r \in Requests, NEW op \in Locked, End(r, op),
           \A i \in Instances : status[i] = "DECIDED" => status'[i] = "DECIDED"
    PROVE  PickedStands'
  <1>1. TypeOK /\ HoldersLock /\ PickedStands
    BY DEF Inv
  <1>2. lock = r
    BY <1>1, EndReq DEF HoldersLock
  <1>3. ASSUME NEW q \in Requests, q # r
        PROVE  req'[q] = req[q] /\ req[q].op \notin Locked
               /\ req[q].picked \subseteq Instances
    BY <1>1, <1>2, <1>3, EndReq DEF HoldersLock, TypeOK
  <1> SUFFICES ASSUME NEW q \in Requests
               PROVE  /\ req'[q].op \in {"run", "reprocess", "resolve"}
                            => req'[q].version = active'
                      /\ req'[q].op = "run" =>
                            \A i \in req'[q].picked : status'[i] = "PENDING"
                      /\ req'[q].op = "reprocess" =>
                            \A i \in req'[q].picked : status'[i] = "DECIDED"
                      /\ req'[q].op = "export" =>
                            \A i \in req'[q].picked : status'[i] = "DECIDED"
    BY DEF PickedStands
  <1>4. CASE q = r
    <2>1. req'[q].op = "idle"
      BY <1>1, <1>4, EndReq
    <2> QED
      BY <2>1
  <1>5. CASE q # r
    <2>1. /\ req'[q].op \notin {"run", "reprocess", "resolve"}
          /\ req'[q].op = "export" =>
                \A i \in req'[q].picked : i \in Instances /\ status[i] = "DECIDED"
      BY <1>1, <1>3, <1>5 DEF Locked, PickedStands
    <2> QED
      BY <2>1
  <1> QED
    BY <1>4, <1>5

\* A request leaves or picks cases while nothing is written.
LEMMA QuietPicked ==
    ASSUME Inv, NEW r \in Requests, UNCHANGED <<status, active>>,
           \A q \in Requests : q # r => req'[q] = req[q],
           /\ req'[r].op \in {"run", "reprocess", "resolve"}
                 => req'[r].version = active
           /\ req'[r].op = "run" =>
                 \A i \in req'[r].picked : status[i] = "PENDING"
           /\ req'[r].op = "reprocess" =>
                 \A i \in req'[r].picked : status[i] = "DECIDED"
           /\ req'[r].op = "export" =>
                 \A i \in req'[r].picked : status[i] = "DECIDED"
    PROVE  PickedStands'
  BY DEF Inv, PickedStands

-----------------------------------------------------------------------------
(* The steps that decide.                                                  *)

Preserved == /\ Writes
             /\ TypeOK'
             /\ DecidedIffHistory'
             /\ HoldersLock'
             /\ PickedStands'

LEMMA RunCommits ==
    ASSUME Inv, NEW r \in Requests, RunCommit(r) PROVE Preserved
  <1>1. /\ TypeOK /\ DecidedIffHistory /\ HoldersLock /\ PickedStands
        /\ End(r, "run") /\ UNCHANGED <<symbols, active, delivered>>
        /\ status' = [i \in Instances |-> IF i \in req[r].picked THEN "DECIDED"
                                          ELSE status[i]]
    BY DEF Inv, RunCommit
  <1> DEFINE picked == req[r].picked
             v == req[r].version
  <1>2. /\ req[r].op = "run" /\ v = active /\ v \in Nat
        /\ \A i \in picked : i \in Instances /\ status[i] = "PENDING"
                             /\ history[i] = <<>>
    <2>1. req[r].op = "run"
      BY <1>1, EndReq
    <2>2. v = active /\ \A i \in picked : i \in Instances /\ status[i] = "PENDING"
      BY <1>1, <2>1 DEF PickedStands, TypeOK
    <2> QED
      BY <1>1, <2>1, <2>2, ActiveNat DEF DecidedIffHistory
  <1>3. PICK verdict \in [picked -> EngineRows(v)] :
          history' = [i \in Instances |->
                        IF i \in picked THEN Append(history[i], verdict[i])
                        ELSE history[i]]
    BY DEF RunCommit
  <1>4. ASSUME NEW i \in picked
        PROVE  /\ verdict[i] \in Rows
               /\ verdict[i].author = "engine"
               /\ verdict[i].version = v
               /\ verdict[i].decision \in TypesOf[v]
    BY <1>3 DEF EngineRows
  <1>5. Writes
    <2>1. ASSUME NEW i \in Instances
          PROVE  /\ history'[i] \in Seq(Rows)
                 /\ history'[i] = history[i] \/ WrittenTo(i)
      <3>1. CASE i \notin picked
        BY <1>1, <1>3, <3>1 DEF TypeOK
      <3>2. CASE i \in picked
        <4>1. /\ history[i] = <<>> /\ history'[i] = Append(history[i], verdict[i])
              /\ history[i] \in Seq(Rows)
          BY <1>1, <1>2, <1>3, <3>2 DEF TypeOK
        <4>2. History!MayFollow(history[i], verdict[i])
          BY <1>4, <3>2, <4>1 DEF History!MayFollow
        <4>3. verdict[i].version <= active' /\ verdict[i].version = active'
          BY <1>1, <1>2, <1>4, <3>2
        <4> QED
          BY <1>4, <3>2, <4>1, <4>2, <4>3 DEF WrittenTo
      <3> QED
        BY <3>1, <3>2
    <2>2. active' \in Versions /\ active <= active'
      BY <1>1, ActiveNat DEF TypeOK
    <2>3. history' \in [Instances -> Seq(Rows)]
      BY <1>3, <2>1
    <2> QED
      BY <2>1, <2>2, <2>3 DEF Writes
  <1>6. TypeOK'
    <2>1. /\ status' \in [Instances -> Statuses]
          /\ history' \in [Instances -> Seq(Rows)]
      BY <1>1, <1>5 DEF TypeOK, Statuses, Writes
    <2>2. /\ lock' \in Requests \union {NoRequest}
          /\ req' \in [Requests -> Reqs]
      BY <1>1, EndReq
    <2> QED
      BY <1>1, <2>1, <2>2 DEF TypeOK, Reqs
  <1>7. DecidedIffHistory'
    <2> SUFFICES ASSUME NEW i \in Instances
                 PROVE  status'[i] = "DECIDED" <=> history'[i] # <<>>
      BY DEF DecidedIffHistory
    <2>1. CASE i \in picked
      <3>1. history'[i] = Append(<<>>, verdict[i]) /\ status'[i] = "DECIDED"
        BY <1>1, <1>2, <1>3, <2>1
      <3> QED
        BY <3>1
    <2>2. CASE i \notin picked
      BY <1>1, <1>3, <2>2 DEF DecidedIffHistory
    <2> QED
      BY <2>1, <2>2
  <1>8. HoldersLock'
    BY <1>1, EndHolders
  <1>9. PickedStands'
    <2>1. \A i \in Instances : status[i] = "DECIDED" => status'[i] = "DECIDED"
      BY <1>1
    <2> QED
      BY <1>1, <2>1, EndPicked DEF Locked
  <1> QED
    BY <1>5, <1>6, <1>7, <1>8, <1>9 DEF Preserved

LEMMA ReprocessCommits ==
    ASSUME Inv, NEW r \in Requests, ReprocessCommit(r) PROVE Preserved
  <1>1. /\ TypeOK /\ DecidedIffHistory /\ HoldersLock /\ PickedStands
        /\ HistoriesShaped
        /\ End(r, "reprocess") /\ UNCHANGED <<status, symbols, active, delivered>>
    BY DEF Inv, ReprocessCommit
  <1> DEFINE picked == req[r].picked
             v == req[r].version
  <1>2. /\ v = active /\ v \in Nat
        /\ \A i \in picked : i \in Instances /\ history[i] # <<>>
    <2>1. req[r].op = "reprocess"
      BY <1>1, EndReq
    <2>2. v = active /\ \A i \in picked : i \in Instances /\ status[i] = "DECIDED"
      BY <1>1, <2>1 DEF PickedStands, TypeOK
    <2> QED
      BY <1>1, <2>2, ActiveNat DEF DecidedIffHistory
  <1>3. PICK verdict \in [picked -> EngineRows(v)] :
          history' = [i \in Instances |->
                        IF i \in picked /\ Overrides(history[i], verdict[i])
                          THEN Append(history[i], verdict[i])
                          ELSE history[i]]
    BY DEF ReprocessCommit
  <1>4. ASSUME NEW i \in picked
        PROVE  /\ verdict[i] \in Rows
               /\ verdict[i].author = "engine"
               /\ verdict[i].version = v
               /\ verdict[i].decision \in TypesOf[v]
    BY <1>3 DEF EngineRows
  <1>5. ASSUME NEW i \in Instances
        PROVE  /\ history'[i] \in Seq(Rows)
               /\ history'[i] = history[i] \/ WrittenTo(i)
               /\ history[i] # <<>> <=> history'[i] # <<>>
    <2>1. CASE ~ (i \in picked /\ Overrides(history[i], verdict[i]))
      BY <1>1, <1>3, <2>1 DEF TypeOK
    <2>2. CASE i \in picked /\ Overrides(history[i], verdict[i])
      <3>1. /\ history[i] # <<>> /\ history[i] \in Seq(Rows)
            /\ history'[i] = Append(history[i], verdict[i])
        BY <1>1, <1>2, <1>3, <2>2 DEF TypeOK
      <3>2. Latest(history[i]).version <= verdict[i].version
        BY <1>1, <1>2, <1>4, <2>2, <3>1 DEF HistoriesShaped
      <3>3. History!MayFollow(history[i], verdict[i])
        BY <1>4, <2>2, <3>1, <3>2 DEF History!MayFollow, Overrides, Latest
      <3>4. verdict[i].version <= active' /\ verdict[i].version = active'
        BY <1>1, <1>2, <1>4, <2>2
      <3>5. WrittenTo(i)
        BY <1>4, <2>2, <3>1, <3>3, <3>4 DEF WrittenTo
      <3>6. history'[i] \in Seq(Rows) /\ history'[i] # <<>>
        BY <1>4, <2>2, <3>1
      <3> QED
        BY <3>1, <3>5, <3>6
    <2> QED
      BY <2>1, <2>2
  <1>6. Writes
    <2>1. history' \in [Instances -> Seq(Rows)]
      BY <1>3, <1>5
    <2> QED
      BY <1>1, <1>5, <2>1, ActiveNat DEF Writes, TypeOK
  <1>7. TypeOK'
    <2>1. /\ lock' \in Requests \union {NoRequest}
          /\ req' \in [Requests -> Reqs]
      BY <1>1, EndReq
    <2> QED
      BY <1>1, <1>6, <2>1 DEF TypeOK, Reqs, Writes
  <1>8. DecidedIffHistory'
    BY <1>1, <1>5 DEF DecidedIffHistory
  <1>9. HoldersLock' /\ PickedStands'
    BY <1>1, EndHolders, EndPicked DEF Locked
  <1> QED
    BY <1>6, <1>7, <1>8, <1>9 DEF Preserved

LEMMA ResolveCommits ==
    ASSUME Inv, NEW r \in Requests, ResolveCommit(r) PROVE Preserved
  <1>1. /\ TypeOK /\ DecidedIffHistory /\ HoldersLock /\ PickedStands
        /\ HistoriesShaped
        /\ End(r, "resolve") /\ UNCHANGED <<symbols, active, delivered>>
    BY DEF Inv, ResolveCommit
  <1> DEFINE v == req[r].version
  <1>2. v = active /\ v \in Versions /\ v \in Nat /\ req[r].picked \subseteq Instances
    <2>1. req[r].op = "resolve"
      BY <1>1, EndReq
    <2> QED
      BY <1>1, <2>1, ActiveNat DEF PickedStands, TypeOK
  <1>3. PICK i \in req[r].picked : \E row \in PersonRows(history[i], v) :
          /\ history' = [history EXCEPT ![i] = Append(@, row)]
          /\ status' = [status EXCEPT ![i] = "DECIDED"]
    BY DEF ResolveCommit
  <1>4. PICK row \in PersonRows(history[i], v) :
          /\ history' = [history EXCEPT ![i] = Append(@, row)]
          /\ status' = [status EXCEPT ![i] = "DECIDED"]
    BY <1>3
  <1> DEFINE h == history[i]
             w == ResolvesIn(h, v)
  <1>5. i \in Instances /\ h \in Seq(Rows)
    BY <1>1, <1>2, <1>3 DEF TypeOK
  <1>6. /\ w \in Versions /\ w \in Nat /\ w <= active
        /\ h # <<>> => Latest(h).version <= w
    <2>1. CASE h = <<>>
      BY <1>2, <2>1 DEF ResolvesIn
    <2>2. CASE h # <<>>
      <3>1. Latest(h) \in Rows /\ Latest(h).version <= active
        BY <1>1, <1>5, <2>2 DEF HistoriesShaped, Latest, History!Latest
      <3>2. w = Latest(h).version /\ w \in Versions
        BY <2>2, <3>1 DEF ResolvesIn, Rows, History!Rows
      <3>3. w \in Nat
        BY <3>2, DecisionsAssumption
      <3> QED
        BY <3>1, <3>2, <3>3
    <2> QED
      BY <2>1, <2>2
  <1>7. /\ row \in Rows /\ row.author = "person" /\ row.review = "none"
        /\ row.version = w /\ row.decision \in TypesOf[w]
    <2>1. PICK d \in TypesOf[w] :
            row = [author |-> "person", decision |-> d, version |-> w,
                   review |-> "none"]
      BY <1>4 DEF PersonRows
    <2>2. d \in DecisionTypes
      BY <1>6, <2>1, DecisionsAssumption
    <2> QED
      BY <1>6, <2>1, <2>2 DEF Rows, History!Rows
  <1>8. History!MayFollow(h, row)
    BY <1>6, <1>7 DEF History!MayFollow, Latest
  <1>9. WrittenTo(i)
    <2>1. history'[i] = Append(h, row) /\ row.version <= active'
      BY <1>1, <1>4, <1>5, <1>6, <1>7 DEF TypeOK
    <2> QED
      BY <1>7, <1>8, <2>1 DEF WrittenTo
  <1>10. history' \in [Instances -> Seq(Rows)] /\ history'[i] # <<>>
    <2>1. Append(h, row) \in Seq(Rows) /\ Append(h, row) # <<>>
      <3> HIDE DEF h
      <3>1. row \in Rows /\ h \in Seq(Rows)
        BY <1>5, <1>7
      <3>2. Append(h, row) \in Seq(Rows) /\ Len(Append(h, row)) = Len(h) + 1
            /\ Len(h) \in Nat
        BY <3>1
      <3> QED
        BY <3>2
    <2>2. history' = [history EXCEPT ![i] = Append(h, row)]
      BY <1>4
    <2>3. history \in [Instances -> Seq(Rows)]
      BY <1>1 DEF TypeOK
    <2> HIDE DEF h
    <2> QED
      BY <1>5, <2>1, <2>2, <2>3
  <1>11. Writes
    <2>1. \A j \in Instances : history'[j] = history[j] \/ WrittenTo(j)
      <3> SUFFICES ASSUME NEW j \in Instances, j # i
                   PROVE  history'[j] = history[j]
        BY <1>9
      <3> QED
        BY <1>1, <1>4 DEF TypeOK
    <2>2. active' \in Versions /\ active <= active'
      BY <1>1, ActiveNat DEF TypeOK
    <2> QED
      BY <1>10, <2>1, <2>2 DEF Writes
  <1>12. TypeOK'
    <2>1. /\ lock' \in Requests \union {NoRequest}
          /\ req' \in [Requests -> Reqs]
          /\ status' \in [Instances -> Statuses]
      BY <1>1, <1>4, EndReq DEF TypeOK, Statuses
    <2> QED
      BY <1>1, <1>10, <2>1 DEF TypeOK, Reqs
  <1>13. DecidedIffHistory'
    <2> SUFFICES ASSUME NEW j \in Instances
                 PROVE  status'[j] = "DECIDED" <=> history'[j] # <<>>
      BY DEF DecidedIffHistory
    <2>1. CASE j = i
      BY <1>1, <1>4, <1>5, <1>10, <2>1 DEF TypeOK
    <2>2. CASE j # i
      <3>1. status'[j] = status[j] /\ history'[j] = history[j]
        BY <1>1, <1>4, <2>2 DEF TypeOK
      <3> QED
        BY <1>1, <3>1 DEF DecidedIffHistory
    <2> QED
      BY <2>1, <2>2
  <1>14. HoldersLock' /\ PickedStands'
    <2>1. \A j \in Instances : status[j] = "DECIDED" => status'[j] = "DECIDED"
      BY <1>1, <1>4 DEF TypeOK
    <2> QED
      BY <1>1, <2>1, EndHolders, EndPicked DEF Locked
  <1> QED
    BY <1>11, <1>12, <1>13, <1>14 DEF Preserved

-----------------------------------------------------------------------------
(* The steps that take a lock, read, publish or end without a decision.    *)

LEMMA Uploads ==
    ASSUME Inv, NEW i \in Instances, Upload(i) PROVE Preserved
  <1>1. /\ TypeOK /\ DecidedIffHistory /\ HoldersLock /\ PickedStands
        /\ UNCHANGED <<history, active, lock, req, delivered>>
        /\ status[i] = "ABSENT"
        /\ status' = [status EXCEPT ![i] = "PENDING"]
    BY DEF Inv, Upload
  <1>2. PICK s \in Readings \union {NoReading} : symbols' = [symbols EXCEPT ![i] = s]
    BY DEF Upload
  <1>3. TypeOK'
    BY <1>1, <1>2 DEF TypeOK, Statuses
  <1>4. DecidedIffHistory'
    <2> SUFFICES ASSUME NEW j \in Instances
                 PROVE  status'[j] = "DECIDED" <=> history[j] # <<>>
      BY <1>1 DEF DecidedIffHistory
    <2>1. status'[j] = "DECIDED" <=> status[j] = "DECIDED"
      BY <1>1 DEF TypeOK
    <2> QED
      BY <1>1, <2>1 DEF DecidedIffHistory
  <1>5. HoldersLock'
    BY <1>1 DEF HoldersLock
  <1>6. PickedStands'
    <2>1. \A j \in Instances : status[j] \in {"PENDING", "DECIDED"} => status'[j] = status[j]
      BY <1>1 DEF TypeOK
    <2>2. \A r \in Requests : req[r].picked \subseteq Instances
      BY <1>1 DEF TypeOK
    <2> QED
      BY <1>1, <2>1, <2>2 DEF PickedStands
  <1> QED
    BY <1>1, <1>3, <1>4, <1>5, <1>6, NothingWritten, ActiveNat
    DEF Preserved, TypeOK

LEMMA Publishes ==
    ASSUME Inv, Publish PROVE Preserved
  <1>1. /\ TypeOK /\ DecidedIffHistory /\ HoldersLock /\ PickedStands
        /\ UNCHANGED <<status, symbols, history, lock, req, delivered>>
        /\ lock = NoRequest
        /\ active' \in Versions /\ active < active'
    BY DEF Inv, Publish
  <1>2. active <= active'
    BY <1>1, ActiveNat, DecisionsAssumption
  <1>3. TypeOK' /\ DecidedIffHistory' /\ HoldersLock'
    BY <1>1 DEF TypeOK, DecidedIffHistory, HoldersLock
  <1>4. \A r \in Requests : req[r].op \notin Locked
    BY <1>1, DecisionsAssumption DEF HoldersLock
  <1>5. PickedStands'
    BY <1>1, <1>4 DEF PickedStands, Locked
  <1> QED
    BY <1>1, <1>2, <1>3, <1>5, NothingWritten DEF Preserved

\* A step that only moves one request.
LEMMA Moves ==
    ASSUME Inv, UNCHANGED <<status, symbols, history, active>>,
           lock' \in Requests \union {NoRequest},
           req' \in [Requests -> Reqs],
           delivered' \subseteq [instance : Instances, row : Rows],
           HoldersLock', PickedStands'
    PROVE  Preserved
  <1>1. TypeOK /\ DecidedIffHistory
    BY DEF Inv
  <1>2. TypeOK' /\ DecidedIffHistory'
    BY <1>1 DEF TypeOK, DecidedIffHistory, Reqs
  <1>3. Writes
    BY <1>1, NothingWritten, ActiveNat DEF TypeOK
  <1> QED
    BY <1>2, <1>3 DEF Preserved

LEMMA Begins ==
    ASSUME Inv, NEW r \in Requests, NEW op \in {"run", "reprocess", "resolve"},
           NEW picked \in SUBSET Instances, Begin(r, op, picked),
           UNCHANGED <<status, symbols, history, active, delivered>>,
           op = "run" => \A i \in picked : status[i] = "PENDING",
           op = "reprocess" => \A i \in picked : status[i] = "DECIDED"
    PROVE  Preserved
  <1>1. TypeOK /\ HoldersLock /\ op \in Ops
    BY DEF Inv, Ops
  <1>2. HoldersLock'
    BY <1>1, BeginHolders
  <1>3. /\ lock' = r /\ req' \in [Requests -> Reqs]
        /\ req'[r].op = op /\ req'[r].picked = picked /\ req'[r].version = active
        /\ \A q \in Requests : q # r => req'[q] = req[q]
    BY <1>1, BeginReq
  <1>4. PickedStands'
    BY <1>3, QuietPicked
  <1>5. lock' \in Requests \union {NoRequest}
        /\ delivered' \subseteq [instance : Instances, row : Rows]
    BY <1>1, <1>3 DEF TypeOK
  <1> QED
    BY <1>2, <1>3, <1>4, <1>5, Moves

\* A request ends without a decision: an export, a new reading or an abort.
LEMMA Ends ==
    ASSUME Inv, NEW r \in Requests, NEW op, End(r, op),
           UNCHANGED <<status, history, active>>,
           symbols' \in [Instances -> Readings \union {NoReading}],
           delivered' \subseteq [instance : Instances, row : Rows]
    PROVE  Preserved
  <1>1. TypeOK /\ DecidedIffHistory /\ HoldersLock
    BY DEF Inv
  <1>2. /\ lock' \in Requests \union {NoRequest}
        /\ req' \in [Requests -> Reqs] /\ req'[r].op = "idle"
        /\ \A q \in Requests : q # r => req'[q] = req[q]
    BY <1>1, EndReq
  <1>3. HoldersLock'
    BY <1>1, EndHolders
  <1>4. PickedStands'
    BY <1>2, QuietPicked
  <1>5. TypeOK' /\ DecidedIffHistory'
    BY <1>1, <1>2 DEF TypeOK, DecidedIffHistory, Reqs
  <1>6. Writes
    BY <1>1, NothingWritten, ActiveNat DEF TypeOK
  <1> QED
    BY <1>3, <1>4, <1>5, <1>6 DEF Preserved

-----------------------------------------------------------------------------
(* The invariant, and what follows from it.                                *)

\* A non-empty set of numbers under a bound has a greatest element: its least bound.
LEMMA Greatest ==
    ASSUME NEW bound \in Nat, NEW P \in SUBSET Nat, P # {},
           \A p \in P : p <= bound
    PROVE  \E p \in P : \A q \in P : q <= p
  <1> DEFINE Bounds == {b \in Nat : \A p \in P : p <= b}
  <1>1. PICK least \in Bounds : \A b \in Bounds : ~ (<<b, least>> \in OpToRel(<, Nat))
    <2>1. Bounds \subseteq Nat /\ Bounds # {}
      OBVIOUS
    <2> HIDE DEF Bounds
    <2> QED BY <2>1, NatLessThanWellFounded, WFMin
  <1>2. \A b \in Bounds : ~ (b < least)
    BY <1>1 DEF OpToRel
  <1>3. least \in P
    <2> SUFFICES ASSUME least \notin P PROVE FALSE
      OBVIOUS
    <2>1. PICK p \in P : TRUE
      OBVIOUS
    <2>2. least - 1 \in Nat /\ \A q \in P : q <= least - 1
      BY <2>1
    <2> QED
      BY <1>2, <2>2
  <1> QED
    BY <1>3

\* The latest row of an author is a row of the history, or there is none.
LEMMA LatestByRange ==
    ASSUME NEW h \in Seq(Rows), NEW author
    PROVE  /\ LatestBy(h, author) \in 0 .. Len(h)
           /\ LatestBy(h, author) > 0 => h[LatestBy(h, author)].author = author
           /\ \A m \in (LatestBy(h, author) + 1) .. Len(h) : h[m].author # author
  <1> DEFINE By == {n \in 1 .. Len(h) : h[n].author = author}
             Good(n) == /\ n > 0 => h[n].author = author
                        /\ \A m \in (n + 1) .. Len(h) : h[m].author # author
  <1>1. Len(h) \in Nat
    OBVIOUS
  <1>2. \E n \in 0 .. Len(h) : Good(n)
    <2>1. CASE By = {}
      <3>1. Good(0) /\ 0 \in 0 .. Len(h)
        BY <1>1, <2>1
      <3> QED
        BY <3>1
    <2>2. CASE By # {}
      <3>1. By \in SUBSET Nat /\ \A n \in By : n <= Len(h)
        BY <1>1
      <3>2. \E n \in By : \A m \in By : m <= n
        <4> HIDE DEF By
        <4> QED BY <1>1, <2>2, <3>1, Greatest
      <3>3. PICK n \in By : \A m \in By : m <= n
        BY <3>2
      <3>4. Good(n) /\ n \in 0 .. Len(h)
        BY <1>1, <3>3
      <3> QED
        BY <3>4
    <2> QED
      BY <2>1, <2>2
  <1>3. LatestBy(h, author) = CHOOSE n \in 0 .. Len(h) : Good(n)
    BY DEF LatestBy
  <1>4. LatestBy(h, author) \in 0 .. Len(h) /\ Good(LatestBy(h, author))
    <2> HIDE DEF Good
    <2> QED BY <1>2, <1>3
  <1> QED
    BY <1>4

LEMMA ExportReads ==
    ASSUME Inv, NEW r \in Requests, ExportRead(r) PROVE Preserved
  <1>1. /\ TypeOK
        /\ End(r, "export") /\ UNCHANGED <<status, symbols, history, active>>
        /\ \A i \in req[r].picked : Exported(history[i]) > 0
        /\ delivered' = {[instance |-> i, row |-> history[i][Exported(history[i])]] :
                            i \in req[r].picked}
    BY DEF Inv, ExportRead
  <1>2. ASSUME NEW i \in req[r].picked
        PROVE  i \in Instances /\ history[i][Exported(history[i])] \in Rows
    <2>1. i \in Instances /\ history[i] \in Seq(Rows)
      BY <1>1 DEF TypeOK
    <2>2. Exported(history[i]) \in 0 .. Len(history[i])
      BY <2>1, LatestByRange DEF Exported
    <2>3. Exported(history[i]) \in 1 .. Len(history[i])
      BY <1>1, <2>1, <2>2
    <2> QED
      BY <2>1, <2>3
  <1> QED
    BY <1>1, <1>2, Ends DEF TypeOK

LEMMA RequestMoves ==
    ASSUME Inv, NEW r \in Requests,
           \/ RunLock(r)
           \/ \E names \in SUBSET Names : ReprocessLock(r, names)
           \/ \E i \in Instances : ResolveLock(r, i)
           \/ \E i \in Instances : ExtractRead(r, i)
           \/ ExtractLock(r)
           \/ ExtractCommit(r)
           \/ \E names \in SUBSET Names : ExportScan(r, names)
           \/ Abort(r)
    PROVE  Preserved
  <1>1. TypeOK /\ HoldersLock /\ PickedStands
    BY DEF Inv
  <1>2. CASE RunLock(r)
    <2> DEFINE pending == {i \in Instances : status[i] = "PENDING"
                                             /\ symbols[i] # NoReading}
    <2>1. Begin(r, "run", pending)
          /\ UNCHANGED <<status, symbols, history, active, delivered>>
      BY <1>2 DEF RunLock
    <2> QED
      BY <2>1, Begins
  <1>3. ASSUME NEW names \in SUBSET Names, ReprocessLock(r, names) PROVE Preserved
    <2> DEFINE selected == {i \in Instances : /\ status[i] = "DECIDED"
                                              /\ symbols[i] # NoReading
                                              /\ NameOf[i] \in names}
    <2>1. Begin(r, "reprocess", selected)
          /\ UNCHANGED <<status, symbols, history, active, delivered>>
      BY <1>3 DEF ReprocessLock
    <2> QED
      BY <2>1, Begins
  <1>4. ASSUME NEW i \in Instances, ResolveLock(r, i) PROVE Preserved
    <2>1. Begin(r, "resolve", {i})
          /\ UNCHANGED <<status, symbols, history, active, delivered>>
      BY <1>4 DEF ResolveLock
    <2> QED
      BY <2>1, Begins
  <1>5. ASSUME NEW i \in Instances, ExtractRead(r, i) PROVE Preserved
    <2>1. /\ req' = [req EXCEPT ![r] = [@ EXCEPT !.op = "reading",
                                                 !.picked = {i},
                                                 !.cached = status[i]]]
          /\ UNCHANGED <<status, symbols, history, active, lock, delivered>>
      BY <1>5 DEF ExtractRead
    <2>2. /\ req' \in [Requests -> Reqs] /\ req'[r].op = "reading"
          /\ \A q \in Requests : q # r => req'[q] = req[q]
      BY <1>1, <2>1 DEF TypeOK, Reqs, Ops
    <2>3. HoldersLock'
      BY <1>1, <2>1, <2>2 DEF HoldersLock, Locked
    <2>4. PickedStands'
      BY <2>1, <2>2, QuietPicked
    <2> QED
      BY <1>1, <2>1, <2>2, <2>3, <2>4, Moves DEF TypeOK
  <1>6. CASE ExtractLock(r)
    <2>1. /\ lock = NoRequest /\ lock' = r
          /\ req' = [req EXCEPT ![r] = [@ EXCEPT !.op = "extract"]]
          /\ UNCHANGED <<status, symbols, history, active, delivered>>
      BY <1>6 DEF ExtractLock
    <2>2. /\ req' \in [Requests -> Reqs] /\ req'[r].op = "extract"
          /\ \A q \in Requests : q # r => req'[q] = req[q]
      BY <1>1, <2>1 DEF TypeOK, Reqs, Ops
    <2>3. HoldersLock'
      BY <1>1, <2>1, <2>2, DecisionsAssumption DEF HoldersLock
    <2>4. PickedStands'
      BY <2>1, <2>2, QuietPicked
    <2> QED
      BY <1>1, <2>1, <2>2, <2>3, <2>4, Moves DEF TypeOK
  <1>7. CASE ExtractCommit(r)
    <2>1. /\ End(r, "extract")
          /\ UNCHANGED <<status, history, active, delivered>>
          /\ \E i \in req[r].picked, s \in Readings \union {NoReading} :
                symbols' = [symbols EXCEPT ![i] = s]
      BY <1>7 DEF ExtractCommit
    <2>2. symbols' \in [Instances -> Readings \union {NoReading}]
      BY <1>1, <2>1 DEF TypeOK
    <2> QED
      BY <1>1, <2>1, <2>2, Ends DEF TypeOK
  <1>8. ASSUME NEW names \in SUBSET Names, ExportScan(r, names) PROVE Preserved
    <2>1. /\ \A i \in Chosen(names) : status[i] = "DECIDED"
          /\ req' = [req EXCEPT ![r] = [@ EXCEPT !.op = "export",
                                                !.picked = Chosen(names)]]
          /\ UNCHANGED <<status, symbols, history, active, lock, delivered>>
      BY <1>8 DEF ExportScan
    <2>2. Chosen(names) \subseteq Instances
      BY DEF Chosen, Present
    <2>3. /\ req' \in [Requests -> Reqs] /\ req'[r].op = "export"
          /\ req'[r].picked = Chosen(names)
          /\ \A q \in Requests : q # r => req'[q] = req[q]
      BY <1>1, <2>1, <2>2 DEF TypeOK, Reqs, Ops
    <2>4. HoldersLock'
      BY <1>1, <2>1, <2>3 DEF HoldersLock, Locked
    <2>5. PickedStands'
      BY <2>1, <2>3, QuietPicked
    <2> QED
      BY <1>1, <2>1, <2>3, <2>4, <2>5, Moves DEF TypeOK
  <1>9. CASE Abort(r)
    <2>1. /\ End(r, req[r].op)
          /\ UNCHANGED <<status, symbols, history, active, delivered>>
      BY <1>9 DEF Abort
    <2> QED
      BY <1>1, <2>1, Ends DEF TypeOK
  <1> QED
    BY <1>2, <1>3, <1>4, <1>5, <1>6, <1>7, <1>8, <1>9

LEMMA Crashes ==
    ASSUME Inv, Crash PROVE Preserved
  <1>1. /\ TypeOK
        /\ UNCHANGED <<status, symbols, history, active, delivered>>
        /\ lock' = NoRequest /\ req' = [r \in Requests |-> Idle]
    BY DEF Inv, Crash
  <1>2. Idle \in Reqs /\ Idle.op = "idle"
    BY DecisionsAssumption DEF Idle, Reqs, Ops, Statuses
  <1>3. req' \in [Requests -> Reqs] /\ \A r \in Requests : req'[r].op = "idle"
    BY <1>1, <1>2
  <1>4. HoldersLock' /\ PickedStands'
    BY <1>3, Zenon DEF HoldersLock, PickedStands, Locked
  <1> QED
    BY <1>1, <1>3, <1>4, Moves DEF TypeOK

LEMMA NextPreserves ==
    ASSUME Inv, Next PROVE Preserved
  <1>1. CASE \E i \in Instances : Upload(i)
    BY <1>1, Uploads
  <1>2. CASE Publish
    BY <1>2, Publishes
  <1>3. CASE Crash
    BY <1>3, Crashes
  <1>4. ASSUME NEW r \in Requests,
               \/ RunCommit(r) \/ ReprocessCommit(r) \/ ResolveCommit(r)
               \/ ExportRead(r)
        PROVE  Preserved
    BY <1>4, RunCommits, ReprocessCommits, ResolveCommits, ExportReads
  <1> QED
    BY <1>1, <1>2, <1>3, <1>4, RequestMoves, Zenon DEF Next

LEMMA NextInv == Inv /\ [Next]_vars => Inv'
  <1> SUFFICES ASSUME Inv, [Next]_vars PROVE Inv'
    OBVIOUS
  <1>1. CASE Next
    BY <1>1, NextPreserves, WritesShape DEF Inv, Preserved
  <1>2. CASE UNCHANGED vars
    BY <1>2 DEF vars, Inv, TypeOK, DecidedIffHistory, HoldersLock, PickedStands,
                HistoriesShaped
  <1> QED
    BY <1>1, <1>2

THEOREM SpecInv == Spec => []Inv
  <1> QED BY InitInv, NextInv, PTL DEF Spec

\* The tables are well typed, whatever requests interleave.
THEOREM Typed == Spec => []TypeOK
  <1>1. Inv => TypeOK
    BY DEF Inv
  <1> QED
    BY <1>1, SpecInv, PTL

\* A case is DECIDED exactly when its history is not empty.
THEOREM StatusTellsHistory == Spec => []DecidedIffHistory
  <1>1. Inv => DecidedIffHistory
    BY DEF Inv
  <1> QED
    BY <1>1, SpecInv, PTL

LEMMA ShapesHold ==
    Inv => /\ PersonStands /\ ReviewAnswered /\ EngineRowsChange
           /\ OutcomeOfItsVersion
  <1> SUFFICES ASSUME Inv
               PROVE  /\ PersonStands /\ ReviewAnswered /\ EngineRowsChange
                      /\ OutcomeOfItsVersion
    OBVIOUS
  <1>1. \A i \in Instances : Shape(history[i])
    BY DEF Inv, HistoriesShaped
  <1> QED
    BY <1>1 DEF Shape, PersonStands, ReviewAnswered, EngineRowsChange,
                OutcomeOfItsVersion, History!PersonStands,
                History!ReviewAnswered, History!EngineRowsChange,
                History!OutcomeOfItsVersion

\* ADR 0008, for any number of cases and requests: the engine never speaks
\* after a person.
THEOREM PersonsStand == Spec => []PersonStands
  <1> QED BY ShapesHold, SpecInv, PTL

\* ADR 0021: what the reviewer questioned is answered by a person first.
THEOREM ReviewsAnswered == Spec => []ReviewAnswered
  <1> QED BY ShapesHold, SpecInv, PTL

\* Reprocessing never writes the same decision twice in a row.
THEOREM RowsChange == Spec => []EngineRowsChange
  <1> QED BY ShapesHold, SpecInv, PTL

\* Every outcome belongs to the version it names.
THEOREM OutcomesBelong == Spec => []OutcomeOfItsVersion
  <1> QED BY ShapesHold, SpecInv, PTL

-----------------------------------------------------------------------------
(* Refinement: the histories are the log of DecisionLog.                   *)

LEMMA InitRefines == Init => History!Init
  BY DEF Init, History!Init

LEMMA StepRefines == Inv /\ [Next]_vars => [History!Next]_history
  <1> SUFFICES ASSUME Inv, [Next]_vars PROVE [History!Next]_history
    OBVIOUS
  <1>1. CASE Next
    <2>1. Writes
      BY <1>1, NextPreserves DEF Preserved
    <2>2. ASSUME NEW i \in Instances
          PROVE  history'[i] = history[i] \/ History!Grows(history[i], history'[i])
      BY <2>1 DEF Writes, WrittenTo, History!Grows, Rows
    <2> QED
      BY <2>1, <2>2 DEF History!Next, Writes, Rows
  <1>2. CASE UNCHANGED vars
    BY <1>2 DEF vars
  <1> QED
    BY <1>1, <1>2

\* Whatever requests interleave, crash and abort, what they do to the
\* histories is what the abstract log allows.
THEOREM Refines == Spec => HistoryIsLog
  <1> QED
    BY InitRefines, StepRefines, SpecInv, PTL
    DEF Spec, HistoryIsLog, History!Spec

LEMMA StepDecidesByActive ==
    ASSUME Inv, [Next]_vars, NEW i \in Instances, history'[i] # history[i],
           Latest(history'[i]).author = "engine"
    PROVE  Latest(history'[i]).version = active'
  <1>1. Next
    BY DEF vars
  <1>2. WrittenTo(i)
    BY <1>1, NextPreserves DEF Preserved, Writes
  <1>3. PICK row \in Rows : /\ row.author = "engine" => row.version = active'
                            /\ history'[i] = Append(history[i], row)
    BY <1>2 DEF WrittenTo
  <1>4. history[i] \in Seq(Rows)
    BY DEF Inv, TypeOK
  <1>5. Latest(history'[i]) = row
    BY <1>3, <1>4 DEF Latest, History!Latest
  <1> QED
    BY <1>3, <1>5

\* No publication slips between the reading of the rules and the commit of the
\* decisions they took.
THEOREM ActiveDecides == Spec => DecidedByActiveVersion
  <1>1. Inv /\ [Next]_vars =>
          [\A i \in Instances :
              (history'[i] # history[i] /\ Latest(history'[i]).author = "engine")
                  => Latest(history'[i]).version = active']_vars
    BY StepDecidesByActive
  <1> QED
    BY <1>1, SpecInv, PTL DEF Spec, DecidedByActiveVersion

-----------------------------------------------------------------------------
(* The export.                                                             *)

\* What the export looks for in one history.
LEMMA ExportedRow ==
    ASSUME NEW h \in Seq(Rows), Shape(h), h # <<>>
    PROVE  /\ Exported(h) \in 1 .. Len(h)
           /\ h[Exported(h)].author = "engine" =>
                 /\ h[Exported(h)].review = "human" => Awaiting(h)
                 /\ h[Exported(h)].review # "none" => Exported(h) = Len(h)
           /\ h[Exported(h)].author = "person" => Exported(h) = Len(h)
  <1> DEFINE e == LatestBy(h, "engine")
             p == LatestBy(h, "person")
  <1>1. /\ Len(h) \in Nat /\ Len(h) > 0
        /\ \A n \in 1 .. Len(h) : h[n].author \in {"engine", "person"}
    BY RowAuthor
  <1>2. /\ e \in 0 .. Len(h) /\ p \in 0 .. Len(h)
        /\ e > 0 => h[e].author = "engine"
        /\ p > 0 => h[p].author = "person"
        /\ \A m \in (e + 1) .. Len(h) : h[m].author # "engine"
        /\ \A m \in (p + 1) .. Len(h) : h[m].author # "person"
    BY LatestByRange
  <1>3. Exported(h) = IF e = 0 \/ (h[e].review # "none" /\ p > e) THEN p ELSE e
    BY DEF Exported
  <1>4. Awaiting(h) <=> e > 0 /\ h[e].review = "human" /\ p < e
    BY DEF Awaiting
  <1> HIDE DEF e, p
  <1>5. e = Len(h) \/ p = Len(h)
    <2>1. h[Len(h)].author \in {"engine", "person"}
      BY <1>1
    <2> QED
      BY <1>1, <1>2, <2>1
  <1>6. Exported(h) \in 1 .. Len(h)
    BY <1>1, <1>2, <1>3, <1>5
  <1>7. ASSUME p > 0 PROVE p = Len(h)
    <2> SUFFICES ASSUME p # Len(h) PROVE FALSE
      OBVIOUS
    <2>1. p \in 1 .. Len(h) - 1 /\ p + 1 \in (p + 1) .. Len(h)
      BY <1>1, <1>2, <1>7
    <2>2. h[p + 1].author = "person"
      BY <1>2, <1>7, <2>1 DEF Shape
    <2> QED
      BY <1>2, <2>1, <2>2
  <1>8. p > e \/ p < e
    BY <1>1, <1>2, <1>5
  <1>9. h[Exported(h)].author = "engine" => Exported(h) = e /\ e > 0
    BY <1>2, <1>3, <1>6
  <1>10. h[Exported(h)].author = "person" => Exported(h) = p /\ p > 0
    BY <1>2, <1>3, <1>6
  <1> QED
    BY <1>1, <1>2, <1>3, <1>4, <1>5, <1>6, <1>7, <1>8, <1>9, <1>10

LEMMA DecidedHistory ==
    ASSUME Inv, NEW i \in Instances, status[i] = "DECIDED"
    PROVE  history[i] \in Seq(Rows) /\ Shape(history[i]) /\ history[i] # <<>>
  BY DEF Inv, TypeOK, DecidedIffHistory, HistoriesShaped

LEMMA PickedForExport ==
    ASSUME Inv, NEW r \in Requests, req[r].op = "export", NEW i \in req[r].picked
    PROVE  i \in Instances /\ status[i] = "DECIDED"
  BY DEF Inv, TypeOK, PickedStands

\* What the first query of an export chose still has its decision when the
\* second one reads, though the export holds no lock.
THEOREM ExportFinds == Spec => []ExportFindsDecisions
  <1>1. Inv => ExportFindsDecisions
    <2> SUFFICES ASSUME Inv, NEW r \in Requests, req[r].op = "export",
                        NEW i \in req[r].picked
                 PROVE  Exported(history[i]) > 0
      BY DEF ExportFindsDecisions
    <2>1. Exported(history[i]) \in 1 .. Len(history[i])
      BY PickedForExport, DecidedHistory, ExportedRow
    <2> QED
      BY <2>1, DecidedHistory, PickedForExport
  <1> QED
    BY <1>1, SpecInv, PTL

\* Each new line of an export is the row ExportedRow speaks of.
LEMMA NewLine ==
    ASSUME Inv, [Next]_vars, NEW line \in delivered', line \notin delivered
    PROVE  /\ line.row.author = "engine" =>
                 /\ line.row.review # "human"
                 /\ line.row.review # "none" => line.row = Latest(history[line.instance])
           /\ line.row.author \in {"engine", "person"}
           /\ line.row.author = "person" => line.row = Latest(history[line.instance])
  <1>1. delivered' # delivered
    OBVIOUS
  <1>2. PICK r \in Requests : ExportRead(r)
    <2>1. Next
      BY <1>1 DEF vars
    <2>2. \A i \in Instances : ~Upload(i)
      BY <1>1 DEF Upload
    <2>3. ~Publish /\ ~Crash
      BY <1>1 DEF Publish, Crash
    <2>4. ASSUME NEW r \in Requests
          PROVE  /\ ~RunLock(r) /\ ~RunCommit(r)
                 /\ \A names \in SUBSET Names : ~ReprocessLock(r, names)
                 /\ ~ReprocessCommit(r)
                 /\ \A i \in Instances : ~ResolveLock(r, i)
                 /\ ~ResolveCommit(r)
                 /\ \A i \in Instances : ~ExtractRead(r, i)
                 /\ ~ExtractLock(r) /\ ~ExtractCommit(r)
                 /\ \A names \in SUBSET Names : ~ExportScan(r, names)
                 /\ ~Abort(r)
      BY <1>1 DEF RunLock, RunCommit, ReprocessLock, ReprocessCommit, ResolveLock,
                  ResolveCommit, ExtractRead, ExtractLock, ExtractCommit,
                  ExportScan, Abort
    <2> QED
      BY <2>1, <2>2, <2>3, <2>4, Zenon DEF Next
  <1>3. PICK i \in req[r].picked :
          /\ line = [instance |-> i, row |-> history[i][Exported(history[i])]]
          /\ ~Awaiting(history[i])
    BY <1>2 DEF ExportRead
  <1>4. req[r].op = "export"
    BY <1>2 DEF ExportRead, End
  <1>5. i \in Instances /\ status[i] = "DECIDED"
    BY <1>4, PickedForExport
  <1> DEFINE h == history[i]
  <1>6. h \in Seq(Rows) /\ Shape(h) /\ h # <<>>
    BY <1>5, DecidedHistory
  <1>7. line.instance = i /\ line.row = h[Exported(h)]
    BY <1>3
  <1>8. Latest(h) = h[Len(h)]
    BY DEF Latest, History!Latest
  <1>9. h[Exported(h)].author \in {"engine", "person"}
    BY <1>6, ExportedRow, RowAuthor
  <1> HIDE DEF h
  <1>10. /\ h[Exported(h)].author = "engine" =>
                 /\ h[Exported(h)].review = "human" => Awaiting(h)
                 /\ h[Exported(h)].review # "none" => Exported(h) = Len(h)
         /\ h[Exported(h)].author = "person" => Exported(h) = Len(h)
    BY <1>6, ExportedRow
  <1>11. ~Awaiting(h) /\ history[line.instance] = h
    BY <1>3, <1>7 DEF h
  <1> QED
    BY <1>7, <1>8, <1>9, <1>10, <1>11

\* ADR 0021, for any interleaving of an export with the requests that decide:
\* no line is an automatic decision that waits for its review.
THEOREM ExportWaits == Spec => []ExportAwaitsReview
  <1>1. Init => ExportAwaitsReview
    BY DEF Init, ExportAwaitsReview
  <1>2. Inv /\ ExportAwaitsReview /\ [Next]_vars => ExportAwaitsReview'
    BY NewLine DEF ExportAwaitsReview
  <1> QED
    BY <1>1, <1>2, SpecInv, PTL DEF Spec

\* A line is the last word on its case at the moment it is read, unless it is
\* an automatic decision that no reviewer assessed.
THEOREM LastWordExported == Spec => ExportsLastWord
  <1>1. Inv /\ [Next]_vars =>
          [\A line \in delivered' :
              \/ line \in delivered
              \/ line.row = Latest(history[line.instance])
              \/ line.row.author = "engine" /\ line.row.review = "none"]_vars
    BY NewLine
  <1> QED
    BY <1>1, SpecInv, PTL DEF Spec, ExportsLastWord

-----------------------------------------------------------------------------
(***************************************************************************)
(* What people are shown of the cases (module CaseViews).                  *)
(***************************************************************************)

\* Awaited is only who is asked by the last word on a case: after a decision that the
\* reviewer questioned, persons alone have spoken.
LEMMA AwaitingIsLast ==
    ASSUME NEW h \in Seq(Rows), Shape(h), Awaiting(h)
    PROVE  h # <<>> /\ Latest(h).review = "human"
  <1> DEFINE e == LatestBy(h, "engine")
             p == LatestBy(h, "person")
  <1>1. e > 0 /\ h[e].review = "human" /\ p < e
    BY DEF Awaiting
  <1>2. /\ e \in 0 .. Len(h) /\ p \in 0 .. Len(h) /\ Len(h) \in Nat
        /\ \A m \in (p + 1) .. Len(h) : h[m].author # "person"
    BY LatestByRange
  <1> HIDE DEF e, p
  <1>3. e = Len(h)
    <2> SUFFICES ASSUME e # Len(h) PROVE FALSE
      OBVIOUS
    <2>1. e \in 1 .. Len(h) - 1 /\ e + 1 \in (p + 1) .. Len(h)
      BY <1>1, <1>2
    <2>2. h[e + 1].author = "person"
      BY <1>1, <2>1 DEF Shape
    <2> QED
      BY <1>2, <2>1, <2>2
  <1> QED
    BY <1>1, <1>2, <1>3 DEF Latest, History!Latest

LEMMA JourneyShowsExport ==
    ASSUME NEW i \in Instances, history[i] \in Seq(Rows)
    PROVE  Shown(i) = Delivery(i)
  <1> DEFINE h == history[i]
             a == LatestBy(h, "engine")
             p == LatestBy(h, "person")
  <1>1. /\ a \in 0 .. Len(h) /\ p \in 0 .. Len(h) /\ Len(h) \in Nat
        /\ a > 0 => h[a].author = "engine"
        /\ p > 0 => h[p].author = "person"
    BY LatestByRange
  <1>2. a > 0 => h[a].review \in {"none", "kept", "human"}
    <2>1. a > 0 => h[a] \in Rows
      BY <1>1
    <2> QED
      BY <2>1 DEF Rows, History!Rows
  <1>3. a > 0 => a # p
    BY <1>1
  <1>4. /\ Shown(i) = IF status[i] = "PENDING" THEN 0
                      ELSE IF a = 0 THEN p
                      ELSE IF h[a].review = "none" THEN a
                      ELSE IF p > a THEN p
                      ELSE IF h[a].review = "human" THEN 0
                      ELSE a
        /\ Delivery(i) = IF status[i] = "PENDING" \/ (a > 0 /\ h[a].review = "human" /\ p < a) THEN 0
                         ELSE IF a = 0 \/ (h[a].review # "none" /\ p > a) THEN p ELSE a
    BY DEF Shown, Delivery, Awaiting, Exported
  <1> HIDE DEF a, p, h
  <1> QED
    BY <1>1, <1>2, <1>3, <1>4

\* A case is either pending or has an outcome.
LEMMA PresentIsPendingOrJudged ==
    ASSUME TypeOK, DecidedIffHistory
    PROVE  /\ Judged = {i \in Instances : history[i] # <<>>}
           /\ Present = {i \in Present : status[i] = "PENDING"} \union Judged
           /\ {i \in Present : status[i] = "PENDING"} \intersect Judged = {}
  <1>1. \A i \in Instances : /\ status[i] \in {"ABSENT", "PENDING", "DECIDED"}
                             /\ history[i] # <<>> <=> status[i] = "DECIDED"
    BY DEF TypeOK, Statuses, DecidedIffHistory
  <1> QED
    BY <1>1 DEF Present, Judged

LEMMA SameNumbers == TypeOK /\ DecidedIffHistory => NumbersAgree
  <1> SUFFICES ASSUME TypeOK, DecidedIffHistory PROVE NumbersAgree
    OBVIOUS
  <1> DEFINE pending == {i \in Present : status[i] = "PENDING"}
             outcome(d) == {i \in Judged : Latest(history[i]).decision = d}
  <1>1. Summary.queue = Outcomes.escalated
    BY DEF Summary, Outcomes, Queue
  <1>2. \A d \in DecisionTypes :
            {i \in Instances : \E n \in DOMAIN history[i] :
                n = Len(history[i]) /\ history[i][n].decision = d} = outcome(d)
    <2>1. \A i \in Instances : history[i] \in Seq(Rows)
      BY DEF TypeOK
    <2>2. \A i \in Instances : \A d \in DecisionTypes :
             (\E n \in DOMAIN history[i] : n = Len(history[i]) /\ history[i][n].decision = d)
             <=> (history[i] # <<>> /\ history[i][Len(history[i])].decision = d)
      BY <2>1
    <2> QED
      BY <2>2, PresentIsPendingOrJudged DEF Latest, History!Latest
  <1>3. Summary.by_decision = Outcomes.by_outcome
    BY <1>2, Zenon DEF Summary, Outcomes
  <1>4. Summary.by_status["PENDING"] = Outcomes.pending
    BY DEF Summary, Outcomes, Statuses
  <1>5. Summary.instances = Outcomes.pending + Cardinality(Judged)
    <2>1. IsFiniteSet(pending) /\ IsFiniteSet(Judged)
      <3>1. pending \in SUBSET Instances /\ Judged \in SUBSET Instances
        BY DEF Present, Judged
      <3> QED
        BY <3>1, FS_Subset, CaseViewsAssumption
    <2>2. Cardinality(pending) \in Nat /\ Cardinality(Judged) \in Nat
      BY <2>1, FS_CardinalityType
    <2>3. Cardinality(pending \union Judged)
             = Cardinality(pending) + Cardinality(Judged) - Cardinality(pending \intersect Judged)
      BY <2>1, FS_Union
    <2>4. Cardinality({}) = 0
      BY FS_EmptySet
    <2>5. Present = pending \union Judged /\ pending \intersect Judged = {}
      BY PresentIsPendingOrJudged
    <2>6. Summary.instances = Cardinality(Present) /\ Outcomes.pending = Cardinality(pending)
      BY DEF Summary, Outcomes
    <2>7. Cardinality(Present) = Cardinality(pending) + Cardinality(Judged) - 0
      BY <2>3, <2>4, <2>5, Zenon
    <2> DEFINE np == Cardinality(pending)
               nj == Cardinality(Judged)
               all == Cardinality(Present)
    <2>8. np \in Nat /\ nj \in Nat /\ all = np + nj - 0
      BY <2>2, <2>7
    <2> HIDE DEF np, nj, all
    <2>9. all = np + nj
      BY <2>8
    <2> QED
      BY <2>6, <2>9 DEF np, nj, all
  <1>6. ASSUME NEW d \in DecisionTypes
        PROVE  Cardinality(Listed(NoFilter, d)) = Outcomes.by_outcome[d]
    <2>1. Listed(NoFilter, d) = outcome(d)
      <3>1. d # NoFilter
        BY CaseViewsAssumption
      <3>2. Judged \subseteq Present
        BY DEF Judged
      <3> QED
        BY <3>1, <3>2 DEF Listed
    <2> QED
      BY <1>2, <2>1, Zenon DEF Outcomes
  <1> QED
    BY <1>1, <1>3, <1>4, <1>5, <1>6 DEF NumbersAgree

\* Wherever people look at the cases of a process, the queue, the lists, the journey or the
\* metrics, they are told the same, and it is what the export delivers
\* (decisions/service.py, traces/service.py).
THEOREM OneStoryIsTold == Spec => []ViewsAgree
  <1>1. Inv => ViewsAgree
    <2> SUFFICES ASSUME Inv PROVE ViewsAgree
      OBVIOUS
    <2>1. TypeOK /\ DecidedIffHistory /\ HistoriesShaped
      BY DEF Inv
    <2>2. \A i \in Present : i \in Instances /\ history[i] \in Seq(Rows) /\ Shape(history[i])
      BY <2>1 DEF TypeOK, Present, HistoriesShaped
    <2>3. ShownAsExported
      BY <2>2, JourneyShowsExport DEF ShownAsExported
    <2>4. AwaitedIsQueued
      BY <2>2, AwaitingIsLast DEF AwaitedIsQueued, Queue, Judged, AsksPerson
    <2> QED
      BY <2>1, <2>3, <2>4, SameNumbers DEF ViewsAgree
  <1> QED
    BY <1>1, SpecInv, PTL

-----------------------------------------------------------------------------
(***************************************************************************)
(* Replays (module Executions): the inputs that a run captured name loads  *)
(* that exist, and loads are never rewritten.                              *)
(***************************************************************************)
Captures == [version : 1 .. MaxActive, cases : [Cases -> Contents \union {Unread}],
             down : SUBSET Tables, source_ids : SUBSET Nat]

TakenStands(d) ==
    /\ d.case \in Cases
    /\ d.execution \in DOMAIN captured
    /\ Inputs!Evaluated(captured[d.execution], d.case) = d.verdict

ReplayInv ==
    /\ content \in [Cases -> Contents \union {Unread}]
    /\ current \in 1 .. MaxActive
    /\ tables \in Seq(Tables)
    /\ captured \in Seq(Captures)
    /\ \A e \in DOMAIN captured : captured[e].source_ids \subseteq DOMAIN tables
    /\ \A d \in taken : TakenStands(d)

LEMMA ReplayInitially == Inputs!Init => ReplayInv
  BY PartsAssumption DEF Inputs!Init, ReplayInv, Inputs!ExecutionsAssumption

\* What is evaluated depends on the loads that were captured, and on no other.
LEMMA EvaluatedStays ==
    ASSUME NEW c, NEW inputs \in Captures, inputs.source_ids \subseteq DOMAIN tables,
           \A i \in DOMAIN tables : tables'[i] = tables[i]
    PROVE  Inputs!Evaluated(inputs, c)' = Inputs!Evaluated(inputs, c)
  <1>1. \A i \in inputs.source_ids : tables'[i] = tables[i]
    OBVIOUS
  <1>2. \A reads : {i \in inputs.source_ids : tables'[i] \in reads}
                      = {i \in inputs.source_ids : tables[i] \in reads}
    BY <1>1
  <1> QED
    BY <1>2, Zenon DEF Inputs!Evaluated, Inputs!RowsOf

LEMMA InputsCaptured ==
    ASSUME ReplayInv, NEW failed \in SUBSET Tables
    PROVE  /\ Inputs!Inputs(failed) \in Captures
           /\ Inputs!Inputs(failed).source_ids \subseteq DOMAIN tables
  <1>1. Inputs!CurrentLoads \subseteq DOMAIN tables /\ DOMAIN tables \subseteq Nat
    BY DEF Inputs!CurrentLoads, ReplayInv
  <1>2. ReadsOf[current] \subseteq Tables
    BY PartsAssumption DEF ReplayInv, Inputs!ExecutionsAssumption
  <1> QED
    BY <1>1, <1>2 DEF ReplayInv, Captures, Inputs!Inputs

LEMMA DecideKeepsReplays ==
    ASSUME ReplayInv, NEW inputs \in Captures, inputs.source_ids \subseteq DOMAIN tables,
           NEW chosen \in SUBSET Cases, Inputs!Decide(inputs, chosen)
    PROVE  ReplayInv'
  <1>1. /\ captured' = Append(captured, inputs)
        /\ captured \in Seq(Captures) /\ tables' = tables
        /\ content' = content /\ current' = current
    BY DEF Inputs!Decide, ReplayInv
  <1>2. /\ captured' \in Seq(Captures)
        /\ captured'[Len(captured) + 1] = inputs
        /\ Len(captured) + 1 \in DOMAIN captured'
        /\ \A e \in DOMAIN captured : e \in DOMAIN captured' /\ captured'[e] = captured[e]
        /\ \A e \in DOMAIN captured' : e \in DOMAIN captured \/ e = Len(captured) + 1
    BY <1>1
  <1>3. \A k \in Captures : \A c : Inputs!Evaluated(k, c)' = Inputs!Evaluated(k, c)
    BY <1>1, Zenon DEF Inputs!Evaluated, Inputs!RowsOf
  <1>4. \A e \in DOMAIN captured' : captured'[e].source_ids \subseteq DOMAIN tables'
    BY <1>1, <1>2 DEF ReplayInv
  <1>5. ASSUME NEW d \in taken' PROVE TakenStands(d)'
    <2>1. CASE d \in taken
      <3>1. TakenStands(d) /\ captured[d.execution] \in Captures
        BY <1>1, <2>1 DEF ReplayInv, TakenStands
      <3> QED
        BY <1>2, <1>3, <3>1 DEF TakenStands
    <2>2. CASE d \notin taken
      <3>1. PICK c \in chosen : d = [case |-> c, execution |-> Len(captured) + 1,
                                     verdict |-> Inputs!Evaluated(inputs, c)]
        BY <2>2 DEF Inputs!Decide
      <3>2. d.case = c /\ d.execution = Len(captured) + 1
            /\ d.verdict = Inputs!Evaluated(inputs, c)
        BY <3>1
      <3> QED
        BY <1>2, <1>3, <3>2 DEF TakenStands
    <2> QED
      BY <2>1, <2>2
  <1> QED
    BY <1>1, <1>2, <1>4, <1>5 DEF ReplayInv

LEMMA NextKeepsReplays == ReplayInv /\ [Inputs!Next]_executions => ReplayInv'
  <1> SUFFICES ASSUME ReplayInv, [Inputs!Next]_executions PROVE ReplayInv'
    OBVIOUS
  <1>1. ASSUME UNCHANGED <<captured, taken>>, tables' \in Seq(Tables),
               DOMAIN tables \subseteq DOMAIN tables',
               \A i \in DOMAIN tables : tables'[i] = tables[i],
               content' \in [Cases -> Contents \union {Unread}], current' \in 1 .. MaxActive
        PROVE  ReplayInv'
    <2>1. ASSUME NEW d \in taken PROVE TakenStands(d)'
      <3>1. /\ TakenStands(d) /\ captured[d.execution] \in Captures
            /\ captured[d.execution].source_ids \subseteq DOMAIN tables
        BY DEF ReplayInv, TakenStands
      <3>2. \A k \in Captures : k.source_ids \subseteq DOMAIN tables =>
               Inputs!Evaluated(k, d.case)' = Inputs!Evaluated(k, d.case)
        BY <1>1, EvaluatedStays
      <3> QED
        BY <1>1, <3>1, <3>2 DEF TakenStands
    <2> QED
      BY <1>1, <2>1 DEF ReplayInv
  <1>2. ASSUME NEW c \in Cases, NEW what \in Contents, Inputs!ReadCase(c, what) PROVE ReplayInv'
    BY <1>1, <1>2 DEF Inputs!ReadCase, ReplayInv
  <1>3. ASSUME NEW n \in Tables, Inputs!LoadTable(n) PROVE ReplayInv'
    <2>1. tables' = Append(tables, n) /\ tables \in Seq(Tables)
      BY <1>3 DEF Inputs!LoadTable, ReplayInv
    <2>2. /\ tables' \in Seq(Tables) /\ DOMAIN tables \subseteq DOMAIN tables'
          /\ \A i \in DOMAIN tables : tables'[i] = tables[i]
      BY <2>1
    <2> QED
      BY <1>1, <1>3, <2>2 DEF Inputs!LoadTable, ReplayInv
  <1>4. CASE Inputs!PublishNext
    BY <1>1, <1>4, PartsAssumption
    DEF Inputs!PublishNext, ReplayInv, Inputs!ExecutionsAssumption
  <1>5. ASSUME NEW failed \in SUBSET Tables, Inputs!Run(failed) PROVE ReplayInv'
    BY <1>5, InputsCaptured, DecideKeepsReplays DEF Inputs!Run
  <1>6. ASSUME NEW failed \in SUBSET Tables, NEW names \in SUBSET Cases,
               Inputs!Reprocess(failed, names)
        PROVE  ReplayInv'
    BY <1>6, InputsCaptured, DecideKeepsReplays DEF Inputs!Reprocess
  <1>7. CASE UNCHANGED executions
    BY <1>1, <1>7 DEF executions, ReplayInv
  <1> QED
    BY <1>2, <1>3, <1>4, <1>5, <1>6, <1>7 DEF Inputs!Next

\* "The down sources are part of the inputs, so a replay decides the same"
\* (decisions/service.py:283): for any sources, versions and cases, whatever was loaded,
\* read or published since.
THEOREM ReplaysDecideTheSame == MCSpec => []ReplaysAgree
  <1> DEFINE ExecutionsInv == part = "executions" => ReplayInv
  <1>1. MCInit => ExecutionsInv
    BY ReplayInitially DEF MCInit
  <1>2. ExecutionsInv /\ [MCNext]_allVars => ExecutionsInv'
    <2> SUFFICES ASSUME ExecutionsInv, [MCNext]_allVars, part' = "executions"
                 PROVE  ReplayInv'
      OBVIOUS
    <2>1. part = "executions" /\ [Inputs!Next]_executions
      BY DEF MCNext, allVars
    <2> QED
      BY <2>1, NextKeepsReplays
  <1>3. ExecutionsInv => ReplaysAgree
    BY DEF ReplayInv, TakenStands, ReplaysAgree, Inputs!ReplaysAgree
  <1> QED
    BY <1>1, <1>2, <1>3, PTL DEF MCSpec

-----------------------------------------------------------------------------
(* Proposals.  The settled proposals, norms and versions alone do not say  *)
(* what a request in flight may still write: the invariant adds the rows   *)
(* it has locked and what it has read of the proposals it will settle.     *)

Taken(x) ==
    \E p \in DOMAIN proposals : proposals[p].about = x /\ proposals[p].status = "accepted"

OnCase == {"deciding", "uploading", "suggesting", "rereading", "superseding",
           "proposing", "resolving", "answering", "naming"}
OnNorm == {"validating", "adopting", "publishing", "freezing", "settling"}

\* What a request knows of its subject, and of the proposals it names.
Flying(r) ==
    LET f == flights[r]
    IN  /\ f.at \in OnCase => f.about \in Escalations
        /\ f.at \in OnNorm => f.about \in Norms
        /\ f.at \in {"reading", "staging"} =>
              /\ f.about \in Changes /\ f.proposal \in DOMAIN proposals
              /\ proposals[f.proposal].about = f.about
        /\ f.at = "staging" => \A x \in f.text : Taken(x)
        /\ f.at \in {"superseding", "proposing"} =>
              \A p \in f.olds : p \in DOMAIN proposals /\ proposals[p].about = f.about
        /\ f.at \in {"resolving", "answering"} => f.proposal \in DOMAIN proposals \union {0}
        /\ f.at = "naming" => f.proposal \in DOMAIN proposals
        /\ f.at \in {"publishing", "freezing", "settling"} =>
              Settling!NormRow(f.about) \in held[r] /\ norm[f.about] = "unresolved"

\* No row has two holders.
LocksApart == \A q, r \in Requests : q # r => held[q] \intersect held[r] = {}

OneStory ==
    /\ Settling!AnswersTheDecisionItNames /\ Settling!AcceptedIsApplied
    /\ Settling!NormAgrees /\ Settling!OnlyAcceptedChanges

SettlingInv ==
    /\ Settling!TypeOK /\ Len(texts) > 0
    /\ OneStory
    /\ LocksApart
    /\ \A r \in Requests : Flying(r)

LEMMA SettlingInitially == Settling!Init => SettlingInv
  <1> SUFFICES ASSUME Settling!Init PROVE SettlingInv
    OBVIOUS
  <1>1. Settling!TypeOK /\ Len(texts) > 0
    <2>1. texts = <<{}>> /\ {} \in SUBSET Changes /\ Len(texts) = 1
      BY DEF Settling!Init
    <2>2. texts \in Seq(SUBSET Changes)
      BY <2>1
    <2>3. decided \in [Escalations -> Seq(Settling!Decisions)]
      BY DEF Settling!Init
    <2> QED
      BY <2>1, <2>2, <2>3 DEF Settling!Init, Settling!TypeOK, Settling!ManagerProposals,
         Settling!NoDraft, Settling!Idle
  <1>2. OneStory
    BY DEF Settling!Init, OneStory, Settling!AnswersTheDecisionItNames,
       Settling!AcceptedIsApplied, Settling!NormAgrees, Settling!OnlyAcceptedChanges,
       Settling!Ids, Settling!NoDraft
  <1>3. LocksApart /\ \A r \in Requests : Flying(r)
    BY DEF Settling!Init, LocksApart, Flying, OnCase, OnNorm, Settling!Idle
  <1> QED
    BY <1>1, <1>2, <1>3 DEF SettlingInv

\* settle and supersede write a status, and nothing else of the rows.
LEMMA SettledRows ==
    ASSUME Settling!TypeOK, NEW P, NEW outcome \in {"open", "accepted", "rejected", "superseded"}
    PROVE  LET rows == Settling!Settled(P, outcome)
           IN  /\ rows \in Seq(Settling!ManagerProposals)
               /\ Len(rows) = Len(proposals) /\ DOMAIN rows = DOMAIN proposals
               /\ \A p \in DOMAIN proposals :
                     /\ rows[p].about = proposals[p].about /\ rows[p].cites = proposals[p].cites
                     /\ rows[p].status = IF p \in P THEN outcome ELSE proposals[p].status
  <1> DEFINE rows == Settling!Settled(P, outcome)
  <1>1. /\ proposals \in Seq(Settling!ManagerProposals)
        /\ DOMAIN proposals = 1 .. Len(proposals) /\ Len(proposals) \in Nat
    BY DEF Settling!TypeOK
  <1>2. rows = [p \in 1 .. Len(proposals) |->
                   IF p \in P THEN [proposals[p] EXCEPT !.status = outcome] ELSE proposals[p]]
    BY <1>1 DEF Settling!Settled, Settling!Ids
  <1>3. ASSUME NEW p \in DOMAIN proposals
        PROVE  /\ rows[p] \in Settling!ManagerProposals
               /\ rows[p].about = proposals[p].about /\ rows[p].cites = proposals[p].cites
               /\ rows[p].status = IF p \in P THEN outcome ELSE proposals[p].status
    <2>1. proposals[p] \in Settling!ManagerProposals
      BY <1>1
    <2>2. rows[p] = IF p \in P THEN [proposals[p] EXCEPT !.status = outcome] ELSE proposals[p]
      BY <1>1, <1>2
    <2> QED
      BY <2>1, <2>2 DEF Settling!ManagerProposals
  <1>4. rows \in [1 .. Len(proposals) -> Settling!ManagerProposals]
    <2>1. \A p \in 1 .. Len(proposals) : rows[p] \in Settling!ManagerProposals
      BY <1>1, <1>3
    <2>2. DOMAIN rows = 1 .. Len(proposals)
      BY <1>2
    <2> HIDE DEF rows
    <2>3. rows = [p \in 1 .. Len(proposals) |-> rows[p]]
      BY <1>2, <2>2
    <2> QED
      BY <2>1, <2>3
  <1> HIDE DEF rows
  <1>5. rows \in Seq(Settling!ManagerProposals) /\ Len(rows) = Len(proposals)
    BY <1>1, <1>4
  <1> QED
    BY <1>1, <1>3, <1>4, <1>5 DEF rows

LEMMA AddedRow ==
    ASSUME NEW rows \in Seq(Settling!ManagerProposals),
           NEW about \in Escalations \union Norms \union Changes, NEW cites \in Nat, NEW saw \in Nat
    PROVE  LET all == Append(rows, Settling!NewProposal(about, cites, saw))
           IN  /\ all \in Seq(Settling!ManagerProposals)
               /\ Len(all) = Len(rows) + 1 /\ DOMAIN all = DOMAIN rows \union {Len(rows) + 1}
               /\ \A p \in DOMAIN rows : all[p] = rows[p]
               /\ Len(rows) + 1 \notin DOMAIN rows
               /\ all[Len(rows) + 1].about = about /\ all[Len(rows) + 1].cites = cites
               /\ all[Len(rows) + 1].status = "open"
  <1> DEFINE new == Settling!NewProposal(about, cites, saw)
             all == Append(rows, new)
  <1>1. /\ new \in Settling!ManagerProposals
        /\ new.about = about /\ new.cites = cites /\ new.status = "open"
    BY DEF Settling!NewProposal, Settling!ManagerProposals, Settling!Subjects
  <1> HIDE DEF new
  <1>2. /\ all \in Seq(Settling!ManagerProposals) /\ Len(all) = Len(rows) + 1
        /\ DOMAIN all = 1 .. Len(rows) + 1 /\ DOMAIN rows = 1 .. Len(rows) /\ Len(rows) \in Nat
        /\ \A p \in 1 .. Len(rows) : all[p] = rows[p]
        /\ all[Len(rows) + 1] = new
    BY <1>1
  <1>3. 1 .. Len(rows) + 1 = (1 .. Len(rows)) \union {Len(rows) + 1}
    BY <1>2
  <1> HIDE DEF all
  <1> QED
    BY <1>1, <1>2, <1>3 DEF new, all

\* What a request knows is not disturbed by what others write.
LEMMA FlyingStays ==
    ASSUME NEW r \in Requests, Flying(r), flights'[r] = flights[r], held'[r] = held[r],
           \A p \in DOMAIN proposals :
              p \in DOMAIN proposals' /\ proposals'[p].about = proposals[p].about,
           flights[r].at = "staging" => \A x \in flights[r].text : Taken(x) => Taken(x)',
           flights[r].at \in {"publishing", "freezing", "settling"}
              => norm'[flights[r].about] = norm[flights[r].about]
    PROVE  Flying(r)'
  BY DEF Flying, Settling!NormRow

LEMMA FlightOf ==
    ASSUME SettlingInv, NEW r \in Requests, flights[r].at # "idle"
    PROVE  flights[r] \in Settling!Flights
  BY DEF SettlingInv, Settling!TypeOK, Settling!Idle

LEMMA NeedsRows ==
    ASSUME SettlingInv, NEW r \in Requests
    PROVE  Settling!Needs(r) \in SUBSET Settling!Rows
  <1> DEFINE f == flights[r]
  <1>1. /\ f.at \in OnCase => f.about \in Escalations
        /\ f.at \in OnNorm => f.about \in Norms
    BY DEF SettlingInv, Flying
  <1>2. CASE f.at = "idle"
    BY <1>2 DEF Settling!Needs
  <1>3. CASE f.at # "idle"
    <2>1. f \in Settling!Flights
      BY <1>3, FlightOf
    <2>2. f.olds \in SUBSET Nat /\ f.proposal \in Nat
      BY <2>1 DEF Settling!Flights
    <2>3. \A p \in Settling!OpenOf(f.about) : p \in Nat
      BY DEF Settling!OpenOf, Settling!Ids, SettlingInv, Settling!TypeOK
    <2>4. /\ \A p \in Nat : Settling!ProposalRow(p) \in Settling!Rows
          /\ \A c \in Escalations : Settling!CaseRow(c) \in Settling!Rows
          /\ \A n \in Norms : Settling!NormRow(n) \in Settling!Rows
          /\ Settling!ProcessRow \in Settling!Rows
      BY DEF Settling!Rows, Settling!ProposalRow, Settling!CaseRow, Settling!NormRow,
             Settling!ProcessRow
    <2> QED
      BY <1>1, <2>2, <2>3, <2>4 DEF Settling!Needs, OnCase, OnNorm
  <1> QED
    BY <1>2, <1>3

\* A step that writes nothing but what its own request holds and knows.
LEMMA FlightMoves ==
    ASSUME SettlingInv, NEW r \in Requests,
           UNCHANGED <<decided, proposals, norm, texts, draft>>,
           NEW f \in Settling!Flights \union {Settling!Idle}, flights' = [flights EXCEPT ![r] = f],
           NEW rows \in SUBSET Settling!Rows, held' = [held EXCEPT ![r] = rows],
           Settling!FreeFor(r, rows \ held[r]),
           Flying(r)'
    PROVE  SettlingInv'
  <1>1. /\ flights' \in [Requests -> Settling!Flights \union {Settling!Idle}] /\ flights'[r] = f
        /\ \A q \in Requests \ {r} : flights'[q] = flights[q] /\ held'[q] = held[q]
        /\ held' \in [Requests -> SUBSET Settling!Rows] /\ held'[r] = rows
    BY DEF SettlingInv, Settling!TypeOK
  <1>2. Settling!TypeOK' /\ Len(texts') > 0
    BY <1>1 DEF SettlingInv, Settling!TypeOK
  <1>3. OneStory'
    <2>1. Settling!AnswersTheDecisionItNames'
      BY DEF SettlingInv, OneStory, Settling!AnswersTheDecisionItNames, Settling!Ids
    <2>2. Settling!AcceptedIsApplied'
      BY DEF SettlingInv, OneStory, Settling!AcceptedIsApplied, Settling!Ids
    <2>3. Settling!NormAgrees'
      BY DEF SettlingInv, OneStory, Settling!NormAgrees, Settling!Ids
    <2>4. Settling!OnlyAcceptedChanges'
      BY DEF SettlingInv, OneStory, Settling!OnlyAcceptedChanges, Settling!Ids
    <2> QED
      BY <2>1, <2>2, <2>3, <2>4 DEF OneStory
  <1>4. LocksApart'
    <2>1. \A q \in Requests \ {r} : held[q] \intersect rows = {}
      BY DEF Settling!FreeFor, SettlingInv, LocksApart
    <2> QED
      BY <1>1, <2>1 DEF SettlingInv, LocksApart
  <1>5. ASSUME NEW q \in Requests PROVE Flying(q)'
    <2>1. CASE q = r
      BY <2>1
    <2>2. CASE q # r
      BY <1>1, <2>2, FlyingStays DEF SettlingInv, Taken
    <2> QED
      BY <2>1, <2>2
  <1> QED
    BY <1>2, <1>3, <1>4, <1>5 DEF SettlingInv

LEMMA RefusedKeeps ==
    ASSUME SettlingInv, NEW r \in Requests, Settling!Refused(r)
    PROVE  SettlingInv'
  <1>1. Flying(r)'
    BY DEF Settling!Refused, Settling!Ends, Settling!Idle, Flying, OnCase, OnNorm, SettlingInv,
       Settling!TypeOK
  <1>2. Settling!FreeFor(r, {} \ held[r]) /\ {} \in SUBSET Settling!Rows
    BY DEF Settling!FreeFor
  <1>3. /\ flights' = [flights EXCEPT ![r] = Settling!Idle] /\ held' = [held EXCEPT ![r] = {}]
        /\ UNCHANGED <<decided, proposals, norm, texts, draft>>
    BY DEF Settling!Refused, Settling!Ends, Settling!config
  <1> QED
    BY <1>1, <1>2, <1>3, FlightMoves

\* A request starts with the rows it locks first.
LEMMA StartKeeps ==
    ASSUME SettlingInv, NEW r \in Requests, NEW f \in Settling!Flights,
           NEW rows \in SUBSET Settling!Rows, Settling!Starts(r, f, rows),
           f.at \in OnCase => f.about \in Escalations,
           f.at \in OnNorm => f.about \in Norms,
           f.at = "resolving" => f.proposal \in DOMAIN proposals \union {0},
           f.at = "reading" => /\ f.about \in Changes /\ f.proposal \in DOMAIN proposals
                               /\ proposals[f.proposal].about = f.about,
           f.at \notin {"staging", "superseding", "proposing", "answering", "naming",
                        "publishing", "freezing", "settling"}
    PROVE  SettlingInv'
  <1>1. flights'[r] = f /\ UNCHANGED <<decided, proposals, norm, texts, draft>>
    BY DEF Settling!Starts, Settling!config, SettlingInv, Settling!TypeOK
  <1>2. Flying(r)'
    BY <1>1 DEF Flying
  <1>3. Settling!FreeFor(r, rows \ held[r])
    BY DEF Settling!Starts, Settling!FreeFor
  <1> QED
    BY <1>1, <1>2, <1>3, FlightMoves DEF Settling!Starts

\* A request locks what its step needs and goes on.
LEMMA TakeKeeps ==
    ASSUME SettlingInv, NEW r \in Requests, NEW at \in Settling!Steps,
           flights[r].at # "idle", Settling!Granted(r), Settling!Takes(r, at),
           \/ flights[r].at \in OnCase /\ at \in OnCase
           \/ flights[r].at \in OnNorm /\ at \in OnNorm,
           at # "superseding" /\ at # "resolving",
           at = "proposing" => flights[r].at = "superseding",
           at = "answering" => flights[r].at = "resolving",
           at = "naming" => flights[r].at = "answering" /\ flights[r].proposal # 0,
           at \in {"publishing", "freezing", "settling"} =>
              \/ flights[r].at \in {"publishing", "freezing"}
              \/ flights[r].at = "adopting" /\ norm[flights[r].about] = "unresolved"
    PROVE  SettlingInv'
  <1> DEFINE f == flights[r]
             g == [f EXCEPT !.at = at]
             rows == held[r] \union Settling!Needs(r)
  <1>1. f \in Settling!Flights
    BY FlightOf
  <1>2. /\ g \in Settling!Flights /\ g.at = at /\ g.about = f.about /\ g.proposal = f.proposal
        /\ g.olds = f.olds /\ g.text = f.text
    BY <1>1 DEF Settling!Flights
  <1>3. /\ flights' = [flights EXCEPT ![r] = g] /\ held' = [held EXCEPT ![r] = rows]
        /\ flights'[r] = g /\ held'[r] = rows
        /\ UNCHANGED <<decided, proposals, norm, texts, draft>>
    BY DEF Settling!Takes, Settling!config, SettlingInv, Settling!TypeOK
  <1>4. rows \in SUBSET Settling!Rows /\ Settling!FreeFor(r, rows \ held[r])
    BY NeedsRows DEF SettlingInv, Settling!TypeOK, Settling!Granted, Settling!FreeFor
  <1>5. f.at = "adopting" => Settling!NormRow(f.about) \in rows
    BY DEF Settling!Needs
  <1> HIDE DEF g, rows
  <1>6. Flying(r)
    BY DEF SettlingInv
  <1>7. /\ at \in OnCase => f.about \in Escalations
        /\ at \in OnNorm => f.about \in Norms
        /\ at \notin {"reading", "staging"}
    BY <1>6 DEF Flying, OnCase, OnNorm
  <1>8. at \in {"publishing", "freezing", "settling"} =>
           Settling!NormRow(f.about) \in rows /\ norm[f.about] = "unresolved"
    BY <1>5, <1>6 DEF Flying, rows
  <1>9. Flying(r)'
    BY <1>2, <1>3, <1>6, <1>7, <1>8 DEF Flying, Settling!NormRow, OnCase, OnNorm
  <1> QED
    BY <1>2, <1>3, <1>4, <1>9, FlightMoves

LEMMA TakingKeeps ==
    ASSUME SettlingInv, NEW r \in Requests,
           \/ Settling!Supersede(r) \/ Settling!ResolveProcess(r) \/ Settling!ResolveCase(r)
           \/ Settling!NormLocked(r) \/ Settling!LockForNorm(r) \/ Settling!PublishNorm(r)
    PROVE  SettlingInv'
  <1>1. CASE Settling!Supersede(r)
    <2>1. /\ flights[r].at = "superseding"
          /\ Settling!Granted(r) /\ Settling!Takes(r, "proposing")
      BY <1>1 DEF Settling!Supersede
    <2>2. "proposing" \in Settling!Steps /\ "proposing" \in OnCase /\ "superseding" \in OnCase
      BY DEF Settling!Steps, OnCase
    <2> QED
      BY <2>1, <2>2, TakeKeeps
  <1>2. CASE Settling!ResolveProcess(r)
    <2>1. /\ flights[r].at = "resolving"
          /\ Settling!Granted(r) /\ Settling!Takes(r, "answering")
      BY <1>2 DEF Settling!ResolveProcess
    <2>2. "answering" \in Settling!Steps /\ "answering" \in OnCase /\ "resolving" \in OnCase
      BY DEF Settling!Steps, OnCase
    <2> QED
      BY <2>1, <2>2, TakeKeeps
  <1>3. CASE Settling!ResolveCase(r)
    <2>1. /\ flights[r].at = "answering" /\ flights[r].proposal # 0
          /\ Settling!Granted(r) /\ Settling!Takes(r, "naming")
      BY <1>3 DEF Settling!ResolveCase
    <2>2. "naming" \in Settling!Steps /\ "naming" \in OnCase /\ "answering" \in OnCase
      BY DEF Settling!Steps, OnCase
    <2> QED
      BY <2>1, <2>2, TakeKeeps
  <1>4. CASE Settling!NormLocked(r)
    <2> DEFINE at == IF flights[r].accepts THEN "publishing" ELSE "settling"
    <2>1. at \in {"publishing", "settling"} /\ Settling!Takes(r, at)
      BY <1>4 DEF Settling!NormLocked
    <2> HIDE DEF at
    <2> QED
      BY <1>4, <2>1, TakeKeeps DEF Settling!NormLocked, Settling!Unresolved, Settling!Steps,
         OnCase, OnNorm
  <1>5. CASE Settling!LockForNorm(r)
    BY <1>5, TakeKeeps DEF Settling!LockForNorm, Settling!Steps, OnCase, OnNorm
  <1>6. CASE Settling!PublishNorm(r)
    BY <1>6, TakeKeeps DEF Settling!PublishNorm, Settling!Steps, OnCase, OnNorm
  <1> QED
    BY <1>1, <1>2, <1>3, <1>4, <1>5, <1>6

\* What a request reads without a lock: the latest decision, the open proposals, the draft.
LEMMA ReadingKeeps ==
    ASSUME SettlingInv, NEW r \in Requests,
           Settling!Suggested(r) \/ Settling!ReadOlds(r) \/ Settling!ReadDescription(r)
    PROVE  SettlingInv'
  <1> DEFINE f == flights[r]
  <1>1. f.at # "idle" /\ Flying(r) /\ f \in Settling!Flights
    BY FlightOf DEF Settling!Suggested, Settling!ReadOlds, Settling!ReadDescription, SettlingInv
  <1>2. ASSUME NEW g \in Settling!Flights, flights' = [flights EXCEPT ![r] = g], Flying(r)',
               UNCHANGED <<decided, proposals, norm, texts, draft, held>>
        PROVE  SettlingInv'
    <2>1. /\ held' = [held EXCEPT ![r] = held[r]] /\ held[r] \in SUBSET Settling!Rows
          /\ Settling!FreeFor(r, held[r] \ held[r])
      BY <1>2 DEF SettlingInv, Settling!TypeOK, Settling!FreeFor
    <2> QED
      BY <1>2, <2>1, FlightMoves
  <1>3. CASE Settling!Suggested(r)
    <2> DEFINE g == [f EXCEPT !.at = "rereading", !.cites = Len(decided[f.about])]
    <2>1. f.about \in Escalations /\ Len(decided[f.about]) \in Nat
      BY <1>1, <1>3 DEF Settling!Suggested, Flying, OnCase, SettlingInv, Settling!TypeOK
    <2>2. g \in Settling!Flights /\ g.at = "rereading" /\ g.about = f.about
      BY <1>1, <2>1 DEF Settling!Flights, Settling!Steps
    <2>3. flights' = [flights EXCEPT ![r] = g] /\ flights'[r] = g
          /\ UNCHANGED <<decided, proposals, norm, texts, draft, held>>
      BY <1>1, <1>3 DEF Settling!Suggested, Settling!Latest, Settling!config, SettlingInv,
         Settling!TypeOK
    <2> HIDE DEF g
    <2>4. Flying(r)'
      BY <2>1, <2>2, <2>3 DEF Flying, OnCase, OnNorm
    <2> QED
      BY <1>2, <2>2, <2>3, <2>4
  <1>4. CASE Settling!ReadOlds(r)
    <2> DEFINE olds == {p \in DOMAIN proposals : proposals[p].about = f.about
                                                 /\ proposals[p].status = "open"}
               g == [f EXCEPT !.at = "superseding", !.olds = olds]
    <2>1. f.about \in Escalations /\ olds \in SUBSET Nat
      BY <1>1, <1>4 DEF Settling!ReadOlds, Flying, OnCase, SettlingInv, Settling!TypeOK
    <2>2. g \in Settling!Flights /\ g.at = "superseding" /\ g.about = f.about /\ g.olds = olds
      BY <1>1, <2>1 DEF Settling!Flights, Settling!Steps
    <2>3. flights' = [flights EXCEPT ![r] = g] /\ flights'[r] = g
          /\ UNCHANGED <<decided, proposals, norm, texts, draft, held>>
      BY <1>1, <1>4 DEF Settling!ReadOlds, Settling!Ids, Settling!IsOpen, Settling!config,
         SettlingInv, Settling!TypeOK
    <2>4. \A p \in olds : p \in DOMAIN proposals /\ proposals[p].about = f.about
      OBVIOUS
    <2> HIDE DEF g, olds
    <2>5. Flying(r)'
      BY <2>1, <2>2, <2>3, <2>4 DEF Flying, OnCase, OnNorm
    <2> QED
      BY <1>2, <2>2, <2>3, <2>5
  <1>5. CASE Settling!ReadDescription(r)
    <2> DEFINE text == IF draft = Settling!NoDraft THEN texts[Len(texts)] ELSE draft.text
               g == [f EXCEPT !.at = "staging", !.saw = draft.revision, !.text = text]
    <2>1. draft.revision \in Nat /\ text \in SUBSET Changes
      BY DEF SettlingInv, Settling!TypeOK, Settling!Drafts, Settling!NoDraft
    <2>2. /\ g \in Settling!Flights /\ g.at = "staging" /\ g.about = f.about
          /\ g.proposal = f.proposal /\ g.text = text
      BY <1>1, <2>1 DEF Settling!Flights, Settling!Steps
    <2>3. flights' = [flights EXCEPT ![r] = g] /\ flights'[r] = g
          /\ UNCHANGED <<decided, proposals, norm, texts, draft, held>>
      BY <1>1, <1>5 DEF Settling!ReadDescription, Settling!Active, Settling!config, SettlingInv,
         Settling!TypeOK
    <2>4. \A x \in text : Taken(x)
      <3> SUFFICES ASSUME NEW x \in text PROVE Taken(x)
        OBVIOUS
      <3>1. Len(texts) \in DOMAIN texts
        BY DEF SettlingInv, Settling!TypeOK
      <3> QED
        BY <2>1, <3>1 DEF SettlingInv, OneStory, Settling!OnlyAcceptedChanges, Settling!Ids, Taken
    <2>5. f.at = "reading"
      BY <1>5 DEF Settling!ReadDescription
    <2> HIDE DEF g, text
    <2>6. Flying(r)'
      BY <1>1, <2>2, <2>3, <2>4, <2>5 DEF Flying, OnCase, OnNorm, Taken
    <2> QED
      BY <1>2, <2>2, <2>3, <2>6
  <1> QED
    BY <1>3, <1>4, <1>5

LEMMA BeginKeeps ==
    ASSUME SettlingInv, NEW r \in Requests, Settling!Begins(r),
           ~\E p \in Settling!Ids : Settling!Reject(r, p)
    PROVE  SettlingInv'
  <1>1. /\ \A a \in Escalations \union Norms \union Changes, at \in Settling!Steps,
              p \in Nat, accepts \in BOOLEAN :
              /\ Settling!NewFlight(at, a, p, accepts) \in Settling!Flights
              /\ Settling!NewFlight(at, a, p, accepts).at = at
              /\ Settling!NewFlight(at, a, p, accepts).about = a
              /\ Settling!NewFlight(at, a, p, accepts).proposal = p
    BY DEF Settling!NewFlight, Settling!Flights, Settling!Subjects
  <1>2. /\ DOMAIN proposals \subseteq Nat
        /\ \A p \in DOMAIN proposals : proposals[p].about \in Escalations \union Norms \union Changes
    <2>1. proposals \in Seq(Settling!ManagerProposals)
      BY DEF SettlingInv, Settling!TypeOK
    <2>2. ASSUME NEW p \in DOMAIN proposals
          PROVE  proposals[p].about \in Escalations \union Norms \union Changes
      <3>1. proposals[p] \in Settling!ManagerProposals
        BY <2>1
      <3> QED
        BY <3>1 DEF Settling!ManagerProposals, Settling!Subjects
    <2> QED
      BY <2>1, <2>2
  <1>3. /\ {} \in SUBSET Settling!Rows /\ {Settling!ProcessRow} \in SUBSET Settling!Rows
        /\ \A p \in Nat : {Settling!ProposalRow(p)} \in SUBSET Settling!Rows
        /\ \A c \in Escalations : {Settling!CaseRow(c)} \in SUBSET Settling!Rows
        /\ \A n \in Norms : {Settling!NormRow(n)} \in SUBSET Settling!Rows
    BY DEF Settling!Rows, Settling!ProposalRow, Settling!CaseRow, Settling!NormRow,
           Settling!ProcessRow
  <1>4. /\ {"deciding", "uploading", "suggesting", "resolving"} \subseteq OnCase
        /\ {"adopting", "validating"} \subseteq OnNorm
        /\ {"deciding", "uploading", "suggesting", "resolving", "adopting", "validating",
            "reading"} \subseteq Settling!Steps
        /\ OnCase \intersect OnNorm = {} /\ "reading" \notin OnCase \union OnNorm
    BY DEF OnCase, OnNorm, Settling!Steps
  <1>5. ASSUME NEW c \in Escalations,
               Settling!EngineStart(r, c) \/ Settling!UploadStart(r, c)
        PROVE  SettlingInv'
    <2>1. PICK at \in {"deciding", "uploading"}, accepts \in BOOLEAN, rows \in SUBSET Settling!Rows :
             Settling!Starts(r, Settling!NewFlight(at, c, 0, accepts), rows)
      BY <1>3, <1>5, Zenon DEF Settling!EngineStart, Settling!UploadStart
    <2> QED
      BY <1>1, <1>4, <2>1, StartKeeps
  <1>6. ASSUME NEW c \in Escalations, Settling!Suggest(r, c) PROVE SettlingInv'
    <2>1. PICK accepts \in BOOLEAN :
             Settling!Starts(r, [Settling!NewFlight("suggesting", c, 0, accepts)
                                   EXCEPT !.saw = Len(decided[c])], {})
      BY <1>6, Zenon DEF Settling!Suggest, Settling!Latest
    <2> DEFINE f == Settling!NewFlight("suggesting", c, 0, accepts)
               g == [f EXCEPT !.saw = Len(decided[c])]
    <2>2. f \in Settling!Flights /\ f.at = "suggesting" /\ f.about = c /\ Len(decided[c]) \in Nat
      BY <1>1, <1>4 DEF SettlingInv, Settling!TypeOK
    <2> HIDE DEF f
    <2>3. g \in Settling!Flights /\ g.at = "suggesting" /\ g.about = c
      BY <2>2 DEF Settling!Flights
    <2>4. Settling!Starts(r, g, {})
      BY <2>1 DEF f
    <2> HIDE DEF g
    <2> QED
      BY <1>3, <1>4, <2>3, <2>4, StartKeeps
  <1>7. ASSUME NEW c \in Escalations, NEW p \in DOMAIN proposals \union {0}, NEW accepts \in BOOLEAN,
               Settling!ResolveStart(r, c, p, accepts)
        PROVE  SettlingInv'
    <2>1. Settling!Starts(r, Settling!NewFlight("resolving", c, p, accepts), {}) /\ p \in Nat
      BY <1>2, <1>7 DEF Settling!ResolveStart
    <2> QED
      BY <1>1, <1>3, <1>4, <2>1, StartKeeps
  <1>8. ASSUME NEW p \in DOMAIN proposals, Settling!AcceptDecision(r, p) PROVE SettlingInv'
    <2>1. PICK accepts \in BOOLEAN :
             Settling!Starts(r, Settling!NewFlight("resolving", proposals[p].about, p, accepts),
                             {Settling!ProposalRow(p)})
      BY <1>8, Zenon DEF Settling!AcceptDecision
    <2>2. p \in Nat /\ proposals[p].about \in Escalations
      BY <1>2, <1>8 DEF Settling!AcceptDecision
    <2> QED
      BY <1>1, <1>3, <1>4, <2>1, <2>2, StartKeeps
  <1>9. ASSUME NEW p \in DOMAIN proposals, NEW accepts \in BOOLEAN,
                Settling!SettleNorm(r, p, accepts)
         PROVE  SettlingInv'
    <2>1. /\ Settling!Starts(r, Settling!NewFlight("adopting", proposals[p].about, p, accepts),
                             {Settling!ProposalRow(p)})
          /\ p \in Nat /\ proposals[p].about \in Norms
      BY <1>2, <1>9 DEF Settling!SettleNorm
    <2> QED
      BY <1>1, <1>3, <1>4, <2>1, StartKeeps
  <1>10. ASSUME NEW n \in Norms,
                \/ Settling!ValidateNorm(r, n)
                \/ \E accepts \in BOOLEAN : Settling!ResolveNorm(r, n, accepts)
         PROVE  SettlingInv'
    <2>1. PICK at \in {"validating", "adopting"}, accepts \in BOOLEAN, rows \in SUBSET Settling!Rows :
             Settling!Starts(r, Settling!NewFlight(at, n, 0, accepts), rows)
      BY <1>3, <1>10, Zenon DEF Settling!ValidateNorm, Settling!ResolveNorm
    <2> QED
      BY <1>1, <1>4, <2>1, StartKeeps
  <1>11. ASSUME NEW p \in DOMAIN proposals, Settling!AcceptChange(r, p) PROVE SettlingInv'
    <2>1. PICK accepts \in BOOLEAN :
             Settling!Starts(r, Settling!NewFlight("reading", proposals[p].about, p, accepts),
                             {Settling!ProposalRow(p)})
      BY <1>11, Zenon DEF Settling!AcceptChange
    <2>2. p \in Nat /\ proposals[p].about \in Changes
      BY <1>2, <1>11 DEF Settling!AcceptChange
    <2> QED
      BY <1>1, <1>3, <1>4, <2>1, <2>2, StartKeeps
  <1> QED
    BY <1>5, <1>6, <1>7, <1>8, <1>9, <1>10, <1>11 DEF Settling!Begins, Settling!Ids

-----------------------------------------------------------------------------
\* What is written is told by all: a step that ends its request, or none in flight.
LEMMA WriteKeeps ==
    ASSUME SettlingInv,
           UNCHANGED <<flights, held>> \/ \E r \in Requests : Settling!Ends(r),
           decided' \in [Escalations -> Seq(Settling!Decisions)],
           proposals' \in Seq(Settling!ManagerProposals),
           norm' \in [Norms -> {"unknown", "unresolved", "adopted", "rejected"}],
           texts' \in Seq(SUBSET Changes), Len(texts') > 0,
           draft' \in Settling!Drafts \union {Settling!NoDraft},
           \A p \in DOMAIN proposals :
              p \in DOMAIN proposals' /\ proposals'[p].about = proposals[p].about,
           \A x \in Changes : Taken(x) => Taken(x)',
           \A q \in Requests :
              flights'[q].at \in {"publishing", "freezing", "settling"}
                 => norm'[flights[q].about] = norm[flights[q].about],
           OneStory'
    PROVE  SettlingInv'
  <1>1. CASE UNCHANGED <<flights, held>>
    <2>1. Settling!TypeOK' /\ LocksApart'
      BY <1>1 DEF SettlingInv, Settling!TypeOK, LocksApart
    <2>2. ASSUME NEW q \in Requests PROVE Flying(q)'
      <3>1. flights[q].at = "staging" => flights[q].text \in SUBSET Changes
        BY FlightOf DEF Settling!Flights
      <3>2. Flying(q) /\ flights'[q] = flights[q] /\ held'[q] = held[q]
        BY <1>1 DEF SettlingInv
      <3>3. flights[q].at \in {"publishing", "freezing", "settling"}
               => norm'[flights[q].about] = norm[flights[q].about]
        BY <3>2
      <3> QED
        BY <3>1, <3>2, <3>3, FlyingStays
    <2> QED
      BY <2>1, <2>2 DEF SettlingInv
  <1>2. ASSUME NEW r \in Requests, Settling!Ends(r) PROVE SettlingInv'
    <2>1. /\ flights' \in [Requests -> Settling!Flights \union {Settling!Idle}]
          /\ held' \in [Requests -> SUBSET Settling!Rows]
          /\ flights'[r] = Settling!Idle /\ held'[r] = {}
          /\ \A q \in Requests \ {r} : flights'[q] = flights[q] /\ held'[q] = held[q]
      BY <1>2 DEF SettlingInv, Settling!TypeOK, Settling!Ends
    <2>2. Settling!TypeOK' /\ LocksApart'
      BY <2>1 DEF SettlingInv, Settling!TypeOK, LocksApart
    <2>3. ASSUME NEW q \in Requests PROVE Flying(q)'
      <3>1. flights[q].at = "staging" => flights[q].text \in SUBSET Changes
        BY FlightOf DEF Settling!Flights
      <3>2. CASE q = r
        BY <2>1, <3>2 DEF Flying, Settling!Idle, OnCase, OnNorm
      <3>3. CASE q # r
        <4>1. Flying(q) /\ flights'[q] = flights[q] /\ held'[q] = held[q]
          BY <2>1, <3>3 DEF SettlingInv
        <4>2. flights[q].at \in {"publishing", "freezing", "settling"}
                 => norm'[flights[q].about] = norm[flights[q].about]
          BY <4>1
        <4> QED
          BY <3>1, <4>1, <4>2, FlyingStays
      <3> QED
        BY <3>2, <3>3
    <2> QED
      BY <2>2, <2>3 DEF SettlingInv
  <1> QED
    BY <1>1, <1>2

LEMMA Grown ==
    ASSUME SettlingInv, NEW c \in Escalations, NEW by \in {"engine", "person"},
           NEW escalates \in BOOLEAN, NEW p \in Nat,
           decided' = Settling!Decided(c, by, escalates, p)
    PROVE  /\ decided' \in [Escalations -> Seq(Settling!Decisions)]
           /\ Len(decided[c]) \in Nat /\ Len(decided'[c]) = Len(decided[c]) + 1
           /\ decided'[c][Len(decided[c]) + 1].answers = p
           /\ \A k \in 1 .. Len(decided[c]) : decided'[c][k] = decided[c][k]
           /\ \A d \in Escalations \ {c} : decided'[d] = decided[d]
  <1> DEFINE new == [by |-> by, escalates |-> escalates, answers |-> p]
  <1>1. new \in Settling!Decisions
    BY Zenon DEF Settling!Decisions
  <1>2. new.answers = p
    OBVIOUS
  <1>3. decided' = [decided EXCEPT ![c] = Append(decided[c], new)]
    BY Zenon DEF Settling!Decided
  <1> HIDE DEF new
  <1>4. decided \in [Escalations -> Seq(Settling!Decisions)]
    BY DEF SettlingInv, Settling!TypeOK
  <1> QED
    BY <1>1, <1>2, <1>3, <1>4

\* A decision that applies no proposal.
LEMMA AloneKeeps ==
    ASSUME SettlingInv, NEW c \in Escalations, NEW by \in {"engine", "person"},
           NEW escalates \in BOOLEAN, decided' = Settling!Decided(c, by, escalates, 0),
           UNCHANGED <<proposals, norm, texts, draft>>, NEW r \in Requests, Settling!Ends(r)
    PROVE  SettlingInv'
  <1>1. /\ decided' \in [Escalations -> Seq(Settling!Decisions)]
        /\ Len(decided[c]) \in Nat /\ Len(decided'[c]) = Len(decided[c]) + 1
        /\ decided'[c][Len(decided[c]) + 1].answers = 0
        /\ \A k \in 1 .. Len(decided[c]) : decided'[c][k] = decided[c][k]
        /\ \A d \in Escalations \ {c} : decided'[d] = decided[d]
    BY Grown
  <1>2. OneStory
    BY DEF SettlingInv
  <1>3. ASSUME NEW d \in Escalations, NEW k \in 1 .. Len(decided'[d]), decided'[d][k].answers # 0
        PROVE  k \in 1 .. Len(decided[d]) /\ decided'[d][k] = decided[d][k]
    BY <1>1, <1>3
  <1>4. ASSUME NEW d \in Escalations, NEW k \in 1 .. Len(decided[d])
        PROVE  k \in 1 .. Len(decided'[d]) /\ decided'[d][k] = decided[d][k]
    BY <1>1, <1>4
  <1>5. Settling!AnswersTheDecisionItNames'
    BY <1>2, <1>3 DEF OneStory, Settling!AnswersTheDecisionItNames, Settling!Ids
  <1>6. Settling!AcceptedIsApplied'
    <2> SUFFICES ASSUME NEW p \in DOMAIN proposals, proposals[p].about \in Escalations
                 PROVE  LET applied == \E k \in 1 .. Len(decided'[proposals[p].about]) :
                                          decided'[proposals[p].about][k].answers = p
                        IN  /\ proposals[p].status = "accepted" => applied
                            /\ applied => proposals[p].status \in {"accepted", "superseded"}
      BY DEF Settling!AcceptedIsApplied, Settling!Ids
    <2>1. p # 0
      BY DEF SettlingInv, Settling!TypeOK
    <2> DEFINE d == proposals[p].about
               applied == \E k \in 1 .. Len(decided[d]) : decided[d][k].answers = p
               applying == \E k \in 1 .. Len(decided'[d]) : decided'[d][k].answers = p
    <2>2. /\ proposals[p].status = "accepted" => applied
          /\ applied => proposals[p].status \in {"accepted", "superseded"}
      BY <1>2 DEF OneStory, Settling!AcceptedIsApplied, Settling!Ids
    <2>3. ASSUME applied PROVE applying
      <3>1. PICK k \in 1 .. Len(decided[d]) : decided[d][k].answers = p
        BY <2>3
      <3>2. k \in 1 .. Len(decided'[d]) /\ decided'[d][k] = decided[d][k]
        BY <1>4
      <3> QED
        BY <3>1, <3>2
    <2>4. ASSUME applying PROVE applied
      <3>1. PICK k \in 1 .. Len(decided'[d]) : decided'[d][k].answers = p
        BY <2>4
      <3>2. k \in 1 .. Len(decided[d]) /\ decided'[d][k] = decided[d][k]
        BY <1>3, <2>1, <3>1
      <3> QED
        BY <3>1, <3>2
    <2> QED
      BY <2>2, <2>3, <2>4
  <1>7. Settling!NormAgrees' /\ Settling!OnlyAcceptedChanges'
    BY <1>2 DEF OneStory, Settling!NormAgrees, Settling!OnlyAcceptedChanges, Settling!Ids
  <1>8. OneStory'
    BY <1>5, <1>6, <1>7 DEF OneStory
  <1> QED
    BY <1>1, <1>8, WriteKeeps DEF SettlingInv, Settling!TypeOK, Taken

\* A person's decision that takes a proposal or another outcome, and settles it.
LEMMA NamedKeeps ==
    ASSUME SettlingInv, NEW r \in Requests, Settling!ResolveNamed(r)
    PROVE  SettlingInv'
  <1> DEFINE f == flights[r]
             c == f.about
             id == f.proposal
             rows == Settling!Settled({id}, Settling!Outcome(f))
  <1>1. /\ c \in Escalations /\ id \in DOMAIN proposals /\ id \in Nat /\ id # 0
        /\ proposals[id].about = c /\ proposals[id].status = "open"
        /\ Len(decided[c]) = proposals[id].cites
    <2>1. f.at = "naming" /\ Flying(r)
      BY DEF SettlingInv, Settling!ResolveNamed
    <2> QED
      BY <2>1 DEF Flying, OnCase, Settling!ResolveNamed, Settling!Answerable, Settling!IsOpen,
         Settling!Latest, SettlingInv, Settling!TypeOK
  <1>2. PICK escalates \in BOOLEAN, answered \in {0, id} :
           /\ decided' = Settling!Decided(c, "person", escalates, answered)
           /\ answered = id <=> f.accepts
    BY <1>1, Zenon DEF Settling!ResolveNamed
  <1>3. /\ decided' \in [Escalations -> Seq(Settling!Decisions)]
        /\ Len(decided[c]) \in Nat /\ Len(decided'[c]) = Len(decided[c]) + 1
        /\ decided'[c][Len(decided[c]) + 1].answers = answered
        /\ \A k \in 1 .. Len(decided[c]) : decided'[c][k] = decided[c][k]
        /\ \A d \in Escalations \ {c} : decided'[d] = decided[d]
    <2> HIDE DEF c, id
    <2>1. answered \in Nat
      BY <1>1
    <2>2. \A row \in {"engine", "person"} : row = "person" => row \in {"engine", "person"}
      OBVIOUS
    <2> QED
      BY <1>1, <1>2, <2>1, Grown
  <1>4. Settling!Outcome(f) = IF answered = id THEN "accepted" ELSE "rejected"
    BY <1>2 DEF Settling!Outcome
  <1>5. /\ proposals' = rows /\ UNCHANGED <<norm, texts, draft>> /\ Settling!Ends(r)
        /\ rows \in Seq(Settling!ManagerProposals) /\ DOMAIN rows = DOMAIN proposals
        /\ \A p \in DOMAIN proposals :
              /\ rows[p].about = proposals[p].about /\ rows[p].cites = proposals[p].cites
              /\ p # id => rows[p].status = proposals[p].status
        /\ rows[id].status = IF answered = id THEN "accepted" ELSE "rejected"
    <2>1. Settling!Outcome(f) \in {"open", "accepted", "rejected", "superseded"}
      BY <1>4
    <2>2. /\ proposals' = rows /\ UNCHANGED <<norm, texts, draft>> /\ Settling!Ends(r)
      BY DEF Settling!ResolveNamed, Settling!config
    <2> QED
      BY <1>1, <1>4, <2>1, <2>2, SettledRows DEF SettlingInv
  <1> HIDE DEF f, c, id, rows
  <1>6. OneStory /\ \A p \in DOMAIN proposals : p \in Nat /\ p # 0
    BY DEF SettlingInv, Settling!TypeOK
  <1>7. Settling!AnswersTheDecisionItNames'
    <2> SUFFICES ASSUME NEW d \in Escalations, NEW k \in 1 .. Len(decided'[d]),
                        decided'[d][k].answers # 0
                 PROVE  LET p == decided'[d][k].answers
                        IN  p \in DOMAIN rows /\ rows[p].about = d /\ rows[p].cites = k - 1
      BY <1>5 DEF Settling!AnswersTheDecisionItNames, Settling!Ids
    <2>1. CASE k \in 1 .. Len(decided[d]) /\ decided'[d][k] = decided[d][k]
      <3> DEFINE p == decided[d][k].answers
      <3>1. p \in DOMAIN proposals /\ proposals[p].about = d /\ proposals[p].cites = k - 1
        BY <1>6, <2>1 DEF OneStory, Settling!AnswersTheDecisionItNames, Settling!Ids
      <3> HIDE DEF p
      <3>2. p \in DOMAIN rows /\ rows[p].about = d /\ rows[p].cites = k - 1
        BY <1>5, <3>1
      <3> QED
        BY <2>1, <3>2 DEF p
    <2>2. CASE d = c /\ k = Len(decided[c]) + 1
      <3>1. decided'[d][k].answers = id
        BY <1>3, <2>2
      <3>2. id \in DOMAIN rows /\ rows[id].about = d /\ rows[id].cites = k - 1
        BY <1>1, <1>3, <1>5, <2>2
      <3> QED
        BY <3>1, <3>2
    <2> QED
      BY <1>3, <2>1, <2>2
  <1>8. Settling!AcceptedIsApplied'
    <2> SUFFICES ASSUME NEW p \in DOMAIN proposals', proposals'[p].about \in Escalations
                 PROVE  LET applied == \E k \in 1 .. Len(decided'[proposals'[p].about]) :
                                          decided'[proposals'[p].about][k].answers = p
                        IN  /\ proposals'[p].status = "accepted" => applied
                            /\ applied => proposals'[p].status \in {"accepted", "superseded"}
      BY DEF Settling!AcceptedIsApplied, Settling!Ids
    <2> DEFINE d == proposals[p].about
    <2>0. /\ p \in DOMAIN proposals /\ proposals'[p].about = d /\ d \in Escalations
          /\ proposals'[p].status = rows[p].status
      BY <1>5
    <2>1. /\ (\E k \in 1 .. Len(decided[d]) : decided[d][k].answers = p)
                => \E k \in 1 .. Len(decided'[d]) : decided'[d][k].answers = p
          /\ (\E k \in 1 .. Len(decided'[d]) : decided'[d][k].answers = p)
                => \/ \E k \in 1 .. Len(decided[d]) : decided[d][k].answers = p
                   \/ d = c /\ answered = p
      <3>1. CASE d # c
        BY <1>3, <2>0, <3>1
      <3>2. CASE d = c
        <4>1. 1 .. Len(decided'[c]) = (1 .. Len(decided[c])) \union {Len(decided[c]) + 1}
          BY <1>3
        <4> QED
          BY <1>3, <3>2, <4>1
      <3> QED
        BY <3>1, <3>2
    <2>2. /\ proposals[p].status = "accepted"
                => \E k \in 1 .. Len(decided[d]) : decided[d][k].answers = p
          /\ (\E k \in 1 .. Len(decided[d]) : decided[d][k].answers = p)
                => proposals[p].status \in {"accepted", "superseded"}
      BY <1>6, <2>0 DEF OneStory, Settling!AcceptedIsApplied, Settling!Ids
    <2>3. CASE p # id
      BY <1>5, <1>6, <2>1, <2>2, <2>3, <2>0
    <2>4. CASE p = id
      <3>1. answered = id => \E k \in 1 .. Len(decided'[d]) : decided'[d][k].answers = p
        BY <1>1, <1>3, <2>4
      <3> QED
        BY <1>1, <1>5, <1>6, <2>1, <2>2, <2>4, <2>0, <3>1
    <2> QED
      BY <2>3, <2>4
  <1>9. /\ proposals[id].about \notin Norms /\ proposals[id].about \notin Changes
    BY <1>1, PartsAssumption DEF Settling!ProposalsAssumption
  <1>10. /\ \A x \in Changes : Taken(x) => Taken(x)'
         /\ Settling!NormAgrees' /\ Settling!OnlyAcceptedChanges'
    <2>1. \A x \in Changes : Taken(x) => Taken(x)'
      BY <1>5, <1>9 DEF Taken
    <2>2. Settling!NormAgrees'
      BY <1>5, <1>6, <1>9 DEF OneStory, Settling!NormAgrees, Settling!Ids
    <2>3. Settling!OnlyAcceptedChanges'
      BY <1>5, <1>6, <2>1 DEF OneStory, Settling!OnlyAcceptedChanges, Settling!Ids, Taken
    <2> QED
      BY <2>1, <2>2, <2>3
  <1>11. OneStory'
    BY <1>7, <1>8, <1>10 DEF OneStory
  <1> QED
    BY <1>3, <1>5, <1>10, <1>11, WriteKeeps DEF SettlingInv, Settling!TypeOK

-----------------------------------------------------------------------------
\* How the table of proposals may change without a decision: what is accepted on a case
\* may only be superseded, and what is accepted of the description stays so.
RowsMayChange ==
    /\ proposals' \in Seq(Settling!ManagerProposals)
    /\ \A p \in DOMAIN proposals :
          /\ p \in DOMAIN proposals'
          /\ proposals'[p].about = proposals[p].about
          /\ proposals'[p].cites = proposals[p].cites
          /\ \/ proposals'[p].status = proposals[p].status
             \/ proposals[p].about \in Escalations /\ proposals'[p].status = "superseded"
             \/ proposals[p].about \in Escalations
                /\ proposals[p].status = "open" /\ proposals'[p].status = "rejected"
             \/ proposals[p].about \in Changes /\ proposals[p].status # "accepted"
             \/ proposals[p].about \in Changes /\ proposals'[p].status = "accepted"
             \/ proposals[p].about \in Norms
    /\ \A p \in DOMAIN proposals' \ DOMAIN proposals : proposals'[p].status = "open"

LEMMA RowsTell ==
    ASSUME SettlingInv, RowsMayChange, decided' = decided
    PROVE  /\ Settling!AnswersTheDecisionItNames' /\ Settling!AcceptedIsApplied'
           /\ \A x \in Changes : Taken(x) => Taken(x)'
  <1>1. OneStory /\ \A p \in DOMAIN proposals' : p # 0
    BY DEF SettlingInv, RowsMayChange
  <1>2. /\ Escalations \intersect Norms = {}
        /\ Changes \intersect Escalations = {} /\ Changes \intersect Norms = {}
    BY PartsAssumption DEF Settling!ProposalsAssumption
  <1>3. Settling!AnswersTheDecisionItNames'
    <2> SUFFICES ASSUME NEW d \in Escalations, NEW k \in 1 .. Len(decided[d]),
                        decided[d][k].answers # 0
                 PROVE  LET p == decided[d][k].answers
                        IN  p \in DOMAIN proposals' /\ proposals'[p].about = d
                            /\ proposals'[p].cites = k - 1
      BY DEF Settling!AnswersTheDecisionItNames, Settling!Ids
    <2> QED
      BY <1>1 DEF OneStory, Settling!AnswersTheDecisionItNames, Settling!Ids, RowsMayChange
  <1>4. Settling!AcceptedIsApplied'
    <2> SUFFICES ASSUME NEW p \in DOMAIN proposals', proposals'[p].about \in Escalations
                 PROVE  LET applied == \E k \in 1 .. Len(decided[proposals'[p].about]) :
                                          decided[proposals'[p].about][k].answers = p
                        IN  /\ proposals'[p].status = "accepted" => applied
                            /\ applied => proposals'[p].status \in {"accepted", "superseded"}
      BY DEF Settling!AcceptedIsApplied, Settling!Ids
    <2>1. CASE p \in DOMAIN proposals
      BY <1>1, <1>2, <2>1 DEF OneStory, Settling!AcceptedIsApplied, Settling!Ids, RowsMayChange
    <2>2. CASE p \notin DOMAIN proposals
      <3>1. \A k \in 1 .. Len(decided[proposals'[p].about]) :
               decided[proposals'[p].about][k].answers # p
        BY <1>1, <2>2 DEF OneStory, Settling!AnswersTheDecisionItNames, Settling!Ids
      <3> QED
        BY <2>2, <3>1 DEF RowsMayChange
    <2> QED
      BY <2>1, <2>2
  <1>5. \A x \in Changes : Taken(x) => Taken(x)'
    BY <1>2 DEF RowsMayChange, Taken
  <1> QED
    BY <1>3, <1>4, <1>5

\* The proposals of the norms and the norms themselves stay as they are.
LEMMA TableKeeps ==
    ASSUME SettlingInv, RowsMayChange, UNCHANGED <<decided, norm, texts, draft>>,
           UNCHANGED <<flights, held>> \/ \E r \in Requests : Settling!Ends(r),
           \A p \in DOMAIN proposals :
              proposals[p].about \in Norms => proposals'[p].status = proposals[p].status,
           \A p \in DOMAIN proposals' \ DOMAIN proposals : proposals'[p].about \notin Norms
    PROVE  SettlingInv'
  <1>1. OneStory
    BY DEF SettlingInv
  <1>2. Settling!NormAgrees'
    BY <1>1 DEF OneStory, Settling!NormAgrees, Settling!Ids, RowsMayChange
  <1>3. Settling!OnlyAcceptedChanges'
    BY <1>1, RowsTell DEF OneStory, Settling!OnlyAcceptedChanges, Settling!Ids, Taken
  <1>4. OneStory'
    BY <1>2, <1>3, RowsTell DEF OneStory
  <1> QED
    BY <1>4, RowsTell, WriteKeeps DEF SettlingInv, Settling!TypeOK, RowsMayChange

LEMMA ProposeKeeps ==
    ASSUME SettlingInv, NEW r \in Requests, Settling!Propose(r)
    PROVE  SettlingInv'
  <1> DEFINE f == flights[r]
             rows == Settling!Settled(f.olds, "superseded")
  <1>1. /\ f \in Settling!Flights /\ f.about \in Escalations
        /\ \A p \in f.olds : p \in DOMAIN proposals /\ proposals[p].about = f.about
    BY FlightOf DEF Settling!Propose, SettlingInv, Flying, OnCase
  <1>2. /\ rows \in Seq(Settling!ManagerProposals) /\ DOMAIN rows = DOMAIN proposals
        /\ \A p \in DOMAIN proposals :
              /\ rows[p].about = proposals[p].about /\ rows[p].cites = proposals[p].cites
              /\ rows[p].status = IF p \in f.olds THEN "superseded" ELSE proposals[p].status
    BY SettledRows DEF SettlingInv
  <1> HIDE DEF rows
  <1>3. /\ proposals' = Append(rows, Settling!NewProposal(f.about, f.cites, f.saw))
        /\ UNCHANGED <<decided, norm, texts, draft>> /\ Settling!Ends(r)
    BY DEF Settling!Propose, Settling!config, rows
  <1>4. f.cites \in Nat /\ f.saw \in Nat
    BY <1>1 DEF Settling!Flights
  <1>5. /\ proposals' \in Seq(Settling!ManagerProposals)
        /\ DOMAIN proposals' = DOMAIN rows \union {Len(rows) + 1}
        /\ \A p \in DOMAIN rows : proposals'[p] = rows[p]
        /\ Len(rows) + 1 \notin DOMAIN rows
        /\ proposals'[Len(rows) + 1].about = f.about
        /\ proposals'[Len(rows) + 1].status = "open"
    BY <1>1, <1>2, <1>3, <1>4, AddedRow
  <1>6. f.about \notin Norms
    BY <1>1, PartsAssumption DEF Settling!ProposalsAssumption
  <1> HIDE DEF f
  <1>7. RowsMayChange
    BY <1>1, <1>2, <1>5 DEF RowsMayChange
  <1> QED
    BY <1>1, <1>2, <1>3, <1>5, <1>6, <1>7, TableKeeps

LEMMA RejectKeeps ==
    ASSUME SettlingInv, NEW r, NEW p \in DOMAIN proposals, Settling!Reject(r, p)
    PROVE  SettlingInv'
  <1> DEFINE rows == Settling!Settled({p}, "rejected")
  <1>1. /\ proposals' = rows /\ UNCHANGED <<decided, norm, texts, draft, flights, held>>
        /\ proposals[p].about \notin Norms /\ proposals[p].status = "open"
    BY DEF Settling!Reject, Settling!IsOpen, Settling!config
  <1>2. /\ rows \in Seq(Settling!ManagerProposals) /\ DOMAIN rows = DOMAIN proposals
        /\ \A q \in DOMAIN proposals :
              /\ rows[q].about = proposals[q].about /\ rows[q].cites = proposals[q].cites
              /\ rows[q].status = IF q = p THEN "rejected" ELSE proposals[q].status
    BY SettledRows DEF SettlingInv
  <1>3. proposals[p].about \in Escalations \union Changes
    <2>1. proposals[p] \in Settling!ManagerProposals
      BY DEF SettlingInv, Settling!TypeOK
    <2> QED
      BY <1>1, <2>1 DEF Settling!ManagerProposals, Settling!Subjects
  <1> HIDE DEF rows
  <1>4. RowsMayChange
    BY <1>1, <1>2, <1>3 DEF RowsMayChange
  <1> QED
    BY <1>1, <1>2, <1>4, TableKeeps

LEMMA LearnKeeps ==
    ASSUME SettlingInv, NEW x \in Changes, Settling!LearnChange(x)
    PROVE  SettlingInv'
  <1>1. /\ proposals \in Seq(Settling!ManagerProposals)
        /\ proposals' = Append(proposals, Settling!NewProposal(x, 0, 0))
        /\ UNCHANGED <<decided, norm, texts, draft, flights, held>>
    BY DEF Settling!LearnChange, Settling!config, SettlingInv, Settling!TypeOK
  <1>2. /\ proposals' \in Seq(Settling!ManagerProposals)
        /\ DOMAIN proposals' = DOMAIN proposals \union {Len(proposals) + 1}
        /\ \A p \in DOMAIN proposals : proposals'[p] = proposals[p]
        /\ Len(proposals) + 1 \notin DOMAIN proposals
        /\ proposals'[Len(proposals) + 1].about = x
        /\ proposals'[Len(proposals) + 1].status = "open"
    BY <1>1, AddedRow
  <1>3. x \notin Norms
    BY PartsAssumption DEF Settling!ProposalsAssumption
  <1>4. RowsMayChange
    BY <1>2 DEF RowsMayChange
  <1> QED
    BY <1>1, <1>2, <1>3, <1>4, TableKeeps

LEMMA AnalyzeKeeps ==
    ASSUME SettlingInv, NEW n \in Norms, Settling!Analyze(n)
    PROVE  SettlingInv'
  <1>1. /\ proposals \in Seq(Settling!ManagerProposals)
        /\ norm \in [Norms -> {"unknown", "unresolved", "adopted", "rejected"}]
        /\ proposals' = Append(proposals, Settling!NewProposal(n, 0, 0))
        /\ norm[n] = "unknown" /\ norm' = [norm EXCEPT ![n] = "unresolved"]
        /\ UNCHANGED <<decided, texts, draft, flights, held>>
    BY DEF Settling!Analyze, Settling!config, SettlingInv, Settling!TypeOK
  <1>2. /\ proposals' \in Seq(Settling!ManagerProposals)
        /\ DOMAIN proposals' = DOMAIN proposals \union {Len(proposals) + 1}
        /\ \A p \in DOMAIN proposals : proposals'[p] = proposals[p]
        /\ Len(proposals) + 1 \notin DOMAIN proposals
        /\ proposals'[Len(proposals) + 1].about = n
        /\ proposals'[Len(proposals) + 1].status = "open"
    BY <1>1, AddedRow
  <1>3. /\ norm' \in [Norms -> {"unknown", "unresolved", "adopted", "rejected"}]
        /\ norm'[n] = "unresolved" /\ \A m \in Norms \ {n} : norm'[m] = norm[m]
    BY <1>1
  <1>4. RowsMayChange /\ OneStory
    BY <1>2 DEF RowsMayChange, SettlingInv
  <1>5. \A p \in DOMAIN proposals : proposals[p].about \in Norms => proposals[p].about # n
    BY <1>1, <1>4 DEF OneStory, Settling!NormAgrees, Settling!Ids
  <1>6. Settling!NormAgrees'
    BY <1>2, <1>3, <1>4, <1>5 DEF OneStory, Settling!NormAgrees, Settling!Ids
  <1>7. Settling!OnlyAcceptedChanges'
    BY <1>1, <1>4, RowsTell DEF OneStory, Settling!OnlyAcceptedChanges, Settling!Ids, Taken
  <1>8. ASSUME NEW q \in Requests, flights[q].at \in {"publishing", "freezing", "settling"}
        PROVE  norm'[flights[q].about] = norm[flights[q].about]
    BY <1>1, <1>3, <1>8 DEF SettlingInv, Flying, OnNorm
  <1>9. OneStory'
    BY <1>1, <1>4, <1>6, <1>7, RowsTell DEF OneStory
  <1> QED
    BY <1>1, <1>2, <1>3, <1>4, <1>8, <1>9, RowsTell, WriteKeeps
    DEF SettlingInv, Settling!TypeOK, RowsMayChange

\* A norm is resolved by the one request that holds its row.
LEMMA NormSettledKeeps ==
    ASSUME SettlingInv, NEW r \in Requests, Settling!NormSettled(r)
    PROVE  SettlingInv'
  <1> DEFINE f == flights[r]
             n == f.about
             rows == Settling!Settled(Settling!OpenOf(n), Settling!Outcome(f))
             resolution == IF f.accepts THEN "adopted" ELSE "rejected"
  <1>1. /\ f.at = "settling" /\ n \in Norms
        /\ Settling!NormRow(n) \in held[r] /\ norm[n] = "unresolved"
    BY DEF Settling!NormSettled, SettlingInv, Flying, OnNorm
  <1>2. /\ proposals' = rows /\ norm' = [norm EXCEPT ![n] = resolution]
        /\ UNCHANGED <<decided, texts, draft>> /\ Settling!Ends(r)
    BY DEF Settling!NormSettled, Settling!config
  <1>3. Settling!Outcome(f) = (IF resolution = "adopted" THEN "accepted" ELSE "rejected")
        /\ resolution \in {"adopted", "rejected"}
    BY DEF Settling!Outcome
  <1>4. OneStory
    BY DEF SettlingInv
  <1>5. \A p \in DOMAIN proposals :
           p \in Settling!OpenOf(n) <=> proposals[p].about = n
    BY <1>1, <1>4 DEF OneStory, Settling!NormAgrees, Settling!Ids, Settling!OpenOf, Settling!IsOpen
  <1>6. /\ rows \in Seq(Settling!ManagerProposals) /\ DOMAIN rows = DOMAIN proposals
        /\ \A p \in DOMAIN proposals :
              /\ rows[p].about = proposals[p].about /\ rows[p].cites = proposals[p].cites
              /\ proposals[p].about # n => rows[p].status = proposals[p].status
              /\ proposals[p].about = n =>
                    rows[p].status = IF resolution = "adopted" THEN "accepted" ELSE "rejected"
    <2> HIDE DEF f, n, resolution
    <2>1. Settling!Outcome(f) \in {"open", "accepted", "rejected", "superseded"}
      BY <1>3
    <2> QED
      BY <1>3, <1>5, <2>1, SettledRows DEF SettlingInv
  <1> HIDE DEF f, n, rows, resolution
  <1>7. /\ norm' \in [Norms -> {"unknown", "unresolved", "adopted", "rejected"}]
        /\ norm'[n] = resolution /\ \A m \in Norms \ {n} : norm'[m] = norm[m]
    BY <1>1, <1>2, <1>3 DEF SettlingInv, Settling!TypeOK
  <1>8. RowsMayChange
    BY <1>1, <1>2, <1>6 DEF RowsMayChange
  <1>9. Settling!NormAgrees'
    <2> SUFFICES ASSUME NEW p \in DOMAIN proposals, proposals[p].about \in Norms
                 PROVE  <<norm'[proposals[p].about], rows[p].status>> \in
                           {<<"unresolved", "open">>, <<"adopted", "accepted">>,
                            <<"rejected", "rejected">>}
      BY <1>2, <1>6 DEF Settling!NormAgrees, Settling!Ids
    <2>1. CASE proposals[p].about = n
      BY <1>3, <1>6, <1>7, <2>1
    <2>2. CASE proposals[p].about # n
      BY <1>4, <1>6, <1>7, <2>2 DEF OneStory, Settling!NormAgrees, Settling!Ids
    <2> QED
      BY <2>1, <2>2
  <1>10. Settling!OnlyAcceptedChanges'
    BY <1>2, <1>4, <1>8, RowsTell DEF OneStory, Settling!OnlyAcceptedChanges, Settling!Ids, Taken
  <1>11. ASSUME NEW q \in Requests, flights'[q].at \in {"publishing", "freezing", "settling"}
         PROVE  norm'[flights[q].about] = norm[flights[q].about]
    <2>1. q # r /\ flights[q].at = flights'[q].at
      BY <1>2, <1>11 DEF Settling!Ends, Settling!Idle, SettlingInv, Settling!TypeOK
    <2>2. flights[q].about \in Norms /\ Settling!NormRow(flights[q].about) \in held[q]
      BY <1>11, <2>1 DEF SettlingInv, Flying, OnNorm
    <2>3. Settling!NormRow(flights[q].about) # Settling!NormRow(n)
      BY <1>1, <2>1, <2>2 DEF SettlingInv, LocksApart
    <2> QED
      BY <1>7, <2>2, <2>3
  <1>12. OneStory'
    BY <1>2, <1>8, <1>9, <1>10, RowsTell DEF OneStory
  <1> QED
    BY <1>2, <1>7, <1>8, <1>11, <1>12, RowsTell, WriteKeeps
    DEF SettlingInv, Settling!TypeOK, RowsMayChange

LEMMA StageKeeps ==
    ASSUME SettlingInv, NEW r \in Requests, Settling!StageChange(r)
    PROVE  SettlingInv'
  <1> DEFINE f == flights[r]
             rows == Settling!Settled({f.proposal}, "accepted")
             text == f.text \union {f.about}
  <1>0. PICK x \in Changes : x = f.about
    BY DEF Settling!StageChange, SettlingInv, Flying
  <1>1. /\ f \in Settling!Flights /\ f.proposal \in DOMAIN proposals
        /\ proposals[f.proposal].about = x /\ \A y \in f.text : Taken(y)
    BY <1>0, FlightOf DEF Settling!StageChange, SettlingInv, Flying
  <1>2. /\ proposals' = rows
        /\ draft' = [revision |-> draft.revision + 1, base |-> Len(texts), text |-> text]
        /\ UNCHANGED <<decided, norm, texts>> /\ Settling!Ends(r)
    BY DEF Settling!StageChange, Settling!Active
  <1>3. /\ rows \in Seq(Settling!ManagerProposals) /\ DOMAIN rows = DOMAIN proposals
        /\ \A p \in DOMAIN proposals :
              /\ rows[p].about = proposals[p].about /\ rows[p].cites = proposals[p].cites
              /\ rows[p].status = IF p = f.proposal THEN "accepted" ELSE proposals[p].status
    BY SettledRows DEF SettlingInv
  <1>4. draft' \in Settling!Drafts /\ draft'.text = text /\ draft' # Settling!NoDraft
    <2>1. draft.revision \in Nat /\ Len(texts) \in Nat /\ text \in SUBSET Changes
      BY <1>0, <1>1 DEF SettlingInv, Settling!TypeOK, Settling!Drafts, Settling!NoDraft, Settling!Flights
    <2>2. draft'.revision # 0
      BY <1>2, <2>1
    <2> QED
      BY <1>2, <2>1, <2>2 DEF Settling!Drafts, Settling!NoDraft
  <1> HIDE DEF f, rows, text
  <1>5. RowsMayChange /\ OneStory
    BY <1>1, <1>2, <1>3 DEF RowsMayChange, SettlingInv
  <1>6. x \notin Norms
    BY <1>1, PartsAssumption DEF Settling!ProposalsAssumption
  <1>7. Settling!NormAgrees'
    BY <1>1, <1>2, <1>3, <1>5, <1>6 DEF OneStory, Settling!NormAgrees, Settling!Ids
  <1>8. \A y \in text : Taken(y)'
    <2>1. Taken(x)'
      BY <1>1, <1>2, <1>3 DEF Taken
    <2>2. \A y \in f.text : y \in Changes
      BY <1>1 DEF Settling!Flights
    <2> QED
      BY <1>0, <1>1, <1>2, <1>5, <2>1, <2>2, RowsTell DEF text
  <1>9. Settling!OnlyAcceptedChanges'
    <2>1. ASSUME NEW y \in Changes, y \in draft'.text \/ \E v \in DOMAIN texts : y \in texts[v]
          PROVE  Taken(y)'
      <3>1. CASE y \in draft'.text
        BY <1>4, <1>8, <3>1
      <3>2. CASE \E v \in DOMAIN texts : y \in texts[v]
        <4>1. Taken(y)
          BY <1>5, <3>2 DEF OneStory, Settling!OnlyAcceptedChanges, Settling!Ids, Taken
        <4> QED
          BY <1>2, <1>5, <4>1, RowsTell
      <3> QED
        BY <2>1, <3>1, <3>2
    <2> QED
      BY <1>2, <2>1 DEF Settling!OnlyAcceptedChanges, Settling!Ids, Taken
  <1>10. OneStory'
    BY <1>2, <1>5, <1>7, <1>9, RowsTell DEF OneStory
  <1> QED
    BY <1>2, <1>4, <1>5, <1>10, RowsTell, WriteKeeps
    DEF SettlingInv, Settling!TypeOK, RowsMayChange

\* The pages of the draft.
LEMMA DraftKeeps ==
    ASSUME SettlingInv, Settling!PublishDraft \/ Settling!DiscardDraft
    PROVE  SettlingInv'
  <1>1. /\ UNCHANGED <<decided, proposals, norm, flights, held>> /\ draft' = Settling!NoDraft
        /\ OneStory /\ texts \in Seq(SUBSET Changes)
    BY DEF Settling!PublishDraft, Settling!DiscardDraft, SettlingInv, Settling!TypeOK
  <1>2. /\ texts' \in Seq(SUBSET Changes) /\ Len(texts') > 0
        /\ \A v \in DOMAIN texts' :
              \/ v \in DOMAIN texts /\ texts'[v] = texts[v]
              \/ draft # Settling!NoDraft /\ texts'[v] = draft.text
    <2>1. CASE Settling!DiscardDraft
      BY <2>1 DEF Settling!DiscardDraft, SettlingInv, Settling!TypeOK
    <2>2. CASE Settling!PublishDraft
      <3>1. draft # Settling!NoDraft /\ texts' = Append(texts, draft.text)
        BY <2>2 DEF Settling!PublishDraft
      <3>2. draft.text \in SUBSET Changes
        BY <3>1 DEF SettlingInv, Settling!TypeOK, Settling!Drafts
      <3> QED
        BY <1>1, <3>1, <3>2
    <2> QED
      BY <2>1, <2>2
  <1>3. \A x : Taken(x)' <=> Taken(x)
    BY <1>1 DEF Taken
  <1>4. Settling!OnlyAcceptedChanges'
    <2>1. \A x \in Changes : (\E v \in DOMAIN texts' : x \in texts'[v]) =>
             (draft # Settling!NoDraft /\ x \in draft.text) \/ (\E v \in DOMAIN texts : x \in texts[v])
      BY <1>2
    <2> QED
      BY <1>1, <2>1 DEF OneStory, Settling!OnlyAcceptedChanges, Settling!Ids
  <1>5. /\ Settling!AnswersTheDecisionItNames' /\ Settling!AcceptedIsApplied'
        /\ Settling!NormAgrees'
    BY <1>1 DEF OneStory, Settling!AnswersTheDecisionItNames, Settling!AcceptedIsApplied,
       Settling!NormAgrees, Settling!Ids
  <1>6. OneStory'
    BY <1>4, <1>5 DEF OneStory
  <1> QED
    BY <1>1, <1>2, <1>3, <1>6, WriteKeeps DEF SettlingInv, Settling!TypeOK

LEMMA AdvanceKeeps ==
    ASSUME SettlingInv, NEW r \in Requests, Settling!Advances(r)
    PROVE  SettlingInv'
  <1>1. CASE Settling!EngineDecides(r)
    <2>1. PICK escalates \in BOOLEAN :
             decided' = Settling!Decided(flights[r].about, "engine", escalates, 0)
      BY <1>1 DEF Settling!EngineDecides
    <2>2. flights[r].about \in Escalations
      BY <1>1 DEF Settling!EngineDecides, SettlingInv, Flying, OnCase
    <2> QED
      BY <1>1, <2>1, <2>2, AloneKeeps DEF Settling!EngineDecides, Settling!config
  <1>2. CASE Settling!ResolveAlone(r)
    <2>1. PICK escalates \in BOOLEAN :
             decided' = Settling!Decided(flights[r].about, "person", escalates, 0)
      BY <1>2 DEF Settling!ResolveAlone
    <2>2. flights[r].about \in Escalations
      BY <1>2 DEF Settling!ResolveAlone, SettlingInv, Flying, OnCase
    <2> QED
      BY <1>2, <2>1, <2>2, AloneKeeps DEF Settling!ResolveAlone, Settling!config
  <1>3. CASE \/ Settling!EngineAgrees(r) \/ Settling!UploadEnds(r) \/ Settling!ResolveRefused(r)
             \/ Settling!Validated(r) \/ Settling!NormRefused(r) \/ Settling!StageRefused(r)
    BY <1>3, RefusedKeeps DEF Settling!EngineAgrees, Settling!UploadEnds,
       Settling!ResolveRefused, Settling!Validated, Settling!NormRefused, Settling!StageRefused
  <1>4. CASE Settling!Propose(r)
    BY <1>4, ProposeKeeps
  <1>5. CASE Settling!ResolveNamed(r)
    BY <1>5, NamedKeeps
  <1>6. CASE Settling!NormSettled(r)
    BY <1>6, NormSettledKeeps
  <1>7. CASE Settling!StageChange(r)
    BY <1>7, StageKeeps
  <1> QED
    BY <1>1, <1>2, <1>3, <1>4, <1>5, <1>6, <1>7, TakingKeeps, ReadingKeeps DEF Settling!Advances

LEMMA SettlingNext == SettlingInv /\ [Settling!Next]_settlements => SettlingInv'
  <1> SUFFICES ASSUME SettlingInv, [Settling!Next]_settlements PROVE SettlingInv'
    OBVIOUS
  <1>1. CASE UNCHANGED settlements
    <2>1. RowsMayChange /\ UNCHANGED <<decided, proposals, norm, texts, draft, flights, held>>
      BY <1>1 DEF settlements, SettlingInv, Settling!TypeOK, RowsMayChange
    <2> QED
      BY <2>1, TableKeeps
  <1>2. ASSUME NEW r \in Requests, Settling!Begins(r) PROVE SettlingInv'
    BY <1>2, BeginKeeps, RejectKeeps DEF Settling!Ids
  <1>3. ASSUME NEW r \in Requests, Settling!Fails(r) \/ Settling!Victim(r) PROVE SettlingInv'
    BY <1>3, RefusedKeeps DEF Settling!Fails, Settling!Victim
  <1> QED
    BY <1>1, <1>2, <1>3, AnalyzeKeeps, LearnKeeps, DraftKeeps, AdvanceKeeps DEF Settling!Next

\* The proposals are a part of the run.
LEMMA SettlingHolds == MCSpec => [](part = "proposals" => SettlingInv)
  <1> DEFINE PartInv == part = "proposals" => SettlingInv
  <1>1. MCInit => PartInv
    BY SettlingInitially DEF MCInit
  <1>2. PartInv /\ [MCNext]_allVars => PartInv'
    <2> SUFFICES ASSUME PartInv, [MCNext]_allVars, part' = "proposals"
                 PROVE  SettlingInv'
      OBVIOUS
    <2>1. part = "proposals" /\ [Settling!Next]_settlements
      BY DEF MCNext, allVars
    <2> QED
      BY <2>1, SettlingNext
  <1> QED
    BY <1>1, <1>2, PTL DEF MCSpec

\* An accepted suggestion answers the decision its proposal names: "The case changed
\* since the proposal; ask for a new one" (decisions/service.py:628), for any number of
\* cases, proposals and requests that lock their rows in any order.
THEOREM ProposalsAnswerWhatTheyName == MCSpec => []AnswersTheDecisionItNames
  <1>1. (part = "proposals" => SettlingInv) => AnswersTheDecisionItNames
    BY DEF SettlingInv, OneStory, AnswersTheDecisionItNames
  <1> QED
    BY <1>1, SettlingHolds, PTL

\* A proposal is settled in the transaction that does what it proposes, and in no other
\* (proposals/service.py:35, 227): what a decision, a norm or a draft says of it, it says.
THEOREM OneStoryIsSettled == MCSpec => []SettlementsAgree
  <1>1. (part = "proposals" => SettlingInv) => SettlementsAgree
    BY DEF SettlingInv, OneStory, SettlementsAgree, Settling!SettlementsAgree
  <1> QED
    BY <1>1, SettlingHolds, PTL

-----------------------------------------------------------------------------
(* Configurations.  Whether a transaction may commit depends on the rows   *)
(* of the others: of all that have written only one adds an active row,    *)
(* and it leaves no other active row among those it would commit on.       *)

ActiveRows(rows) == {v \in DOMAIN rows : rows[v].active = TRUE}

\* One row is active of what a transaction has written, and none of what it would keep.
Turns(r) == \E v \in DOMAIN Agents!Writes(r) : ActiveRows(Agents!Seen(r)) = {v}

\* New rows that are not active, beside a version that is.
Adds(r) ==
    /\ DOMAIN Agents!Writes(r) \intersect DOMAIN configs = {}
    /\ ActiveRows(Agents!Writes(r)) = {} /\ DOMAIN configs # {}

\* What each step of an operation knows.
Prepared(r) ==
    LET q == request[r]
    IN  /\ q.at \in {"idle", "read", "deactivate", "write", "commit"}
        /\ q.at = "read" =>
              /\ q.settings \in Configs \union {Pack} /\ q.author \in {"pack", "manager"}
              /\ q.activate \in BOOLEAN
              /\ q.activate = FALSE => DOMAIN configs # {}
        /\ q.at = "deactivate" =>
              /\ q.row \in Agents!Rows /\ q.row.active = TRUE
              /\ "found" \in DOMAIN q => q.found \subseteq DOMAIN configs
        /\ q.at = "write" =>
              /\ q.row \in Agents!Rows
              /\ DOMAIN q.writes \subseteq DOMAIN configs
              /\ \A v \in DOMAIN q.writes : q.writes[v] \in Agents!Rows
              /\ q.row.active = FALSE => DOMAIN q.writes = {} /\ DOMAIN configs # {}
        /\ q.at = "commit" =>
              /\ \A v \in DOMAIN q.writes : q.writes[v] \in Agents!Rows
              /\ Turns(r) \/ Adds(r)

\* The index: two transactions that have written share no version, nor are both active.
IndexHolds ==
    \A q, r \in Requests : q # r /\ request[q].at = "commit" /\ request[r].at = "commit" =>
        /\ DOMAIN Agents!Writes(q) \intersect DOMAIN Agents!Writes(r) = {}
        /\ ActiveRows(Agents!Writes(q)) = {} \/ ActiveRows(Agents!Writes(r)) = {}

AgentsInv ==
    /\ DOMAIN request = Requests
    /\ \A v \in DOMAIN configs : configs[v] \in Agents!Rows
    /\ DOMAIN configs # {} => \E v \in DOMAIN configs : ActiveRows(configs) = {v}
    /\ \A r \in Requests : Prepared(r)
    /\ IndexHolds

LEMMA AgentsInitially == Agents!Init => AgentsInv
  BY DEF Agents!Init, AgentsInv, Prepared, IndexHolds, Agents!Idle

LEMMA RowActive ==
    ASSUME NEW row \in Agents!Rows, NEW b \in BOOLEAN
    PROVE  [row EXCEPT !.active = b] \in Agents!Rows /\ [row EXCEPT !.active = b].active = b
  BY DEF Agents!Rows

LEMMA ActiveIsTrue ==
    ASSUME NEW row \in Agents!Rows
    PROVE  row.active \in BOOLEAN /\ (row.active = TRUE <=> row.active)
  BY DEF Agents!Rows

OnlyMoves(r) ==
    DOMAIN request' = Requests /\ \A s \in Requests \ {r} : request'[s] = request[s]

\* A step of an operation that has not written, and does not commit.
LEMMA QuietAgents ==
    ASSUME AgentsInv, NEW r \in Requests, configs' = configs,
           OnlyMoves(r), request'[r].at # "commit", Prepared(r)'
    PROVE  AgentsInv'
  <1>1. /\ DOMAIN request' = Requests
        /\ \A s \in Requests \ {r} : request'[s] = request[s]
    BY DEF OnlyMoves
  <1>2. ASSUME NEW s \in Requests \ {r}
        PROVE  /\ Agents!Writes(s)' = Agents!Writes(s) /\ Agents!Seen(s)' = Agents!Seen(s)
    BY <1>1 DEF Agents!Writes, Agents!Seen
  <1>3. ASSUME NEW s \in Requests PROVE Prepared(s)'
    <2>1. CASE s # r
      <3>1. Prepared(s) /\ (Turns(s) => Turns(s)') /\ (Adds(s) => Adds(s)')
        BY <1>2, <2>1 DEF AgentsInv, Turns, Adds
      <3> QED
        BY <1>1, <2>1, <3>1 DEF Prepared
    <2> QED
      BY <2>1
  <1>4. IndexHolds'
    BY <1>1, <1>2 DEF AgentsInv, IndexHolds
  <1> QED
    BY <1>1, <1>3, <1>4 DEF AgentsInv, ActiveRows

LEMMA StartAgents ==
    ASSUME AgentsInv, NEW r \in Requests,
           \/ Agents!StartLoad(r) \/ Agents!Abort(r)
           \/ \E settings \in Configs : Agents!StartConfigure(r, settings)
           \/ \E version \in Agents!Numbers : Agents!StartActivate(r, version)
    PROVE  AgentsInv'
  <1>1. CASE Agents!StartLoad(r)
    <2> DEFINE q == [at |-> "read", settings |-> Pack, author |-> "pack",
                     activate |-> DOMAIN configs = {}]
    <2>1. q.at = "read" /\ q.settings = Pack /\ q.author = "pack"
      OBVIOUS
    <2>2. q.activate \in BOOLEAN /\ (q.activate = FALSE => DOMAIN configs # {})
      BY Zenon
    <2>3. request' = [request EXCEPT ![r] = q] /\ configs' = configs
      BY <1>1, Zenon DEF Agents!StartLoad
    <2> HIDE DEF q
    <2>4. Prepared(r)' /\ OnlyMoves(r) /\ request'[r].at # "commit"
      BY <2>1, <2>2, <2>3 DEF Prepared, AgentsInv, OnlyMoves
    <2> QED
      BY <2>1, <2>3, <2>4, QuietAgents
  <1>2. CASE Agents!Abort(r)
    <2>1. request' = [request EXCEPT ![r] = Agents!Idle] /\ configs' = configs
      BY <1>2 DEF Agents!Abort
    <2>2. Prepared(r)' /\ OnlyMoves(r) /\ request'[r].at # "commit"
      BY <2>1 DEF Prepared, AgentsInv, OnlyMoves, Agents!Idle
    <2> QED
      BY <2>1, <2>2, QuietAgents
  <1>3. ASSUME NEW settings \in Configs, Agents!StartConfigure(r, settings) PROVE AgentsInv'
    <2>1. PICK activate \in BOOLEAN :
             /\ activate = TRUE
             /\ request' = [request EXCEPT ![r] =
                   [at |-> "read", settings |-> settings, author |-> "manager",
                    activate |-> activate]]
             /\ configs' = configs
      BY <1>3, Zenon DEF Agents!StartConfigure
    <2>2. Prepared(r)' /\ OnlyMoves(r) /\ request'[r].at # "commit"
      BY <2>1 DEF Prepared, AgentsInv, OnlyMoves
    <2> QED
      BY <2>1, <2>2, QuietAgents
  <1>4. ASSUME NEW version \in Agents!Numbers, Agents!StartActivate(r, version) PROVE AgentsInv'
    <2> DEFINE row == [configs[version] EXCEPT !.active = TRUE]
    <2>1. row \in Agents!Rows /\ row.active = TRUE
      <3>1. configs[version] \in Agents!Rows
        BY <1>4 DEF Agents!StartActivate, AgentsInv
      <3> QED
        BY <3>1, RowActive
    <2>2. /\ request' = [request EXCEPT ![r] =
                [at |-> "deactivate", version |-> version, row |-> row]]
          /\ configs' = configs
      BY <1>4, Zenon DEF Agents!StartActivate
    <2> HIDE DEF row
    <2>3. Prepared(r)' /\ OnlyMoves(r) /\ request'[r].at # "commit"
      BY <2>1, <2>2 DEF Prepared, AgentsInv, OnlyMoves
    <2> QED
      BY <2>2, <2>3, QuietAgents
  <1> QED
    BY <1>1, <1>2, <1>3, <1>4

LEMMA ReadAgents ==
    ASSUME AgentsInv, NEW r \in Requests, Agents!ReadLast(r)
    PROVE  AgentsInv'
  <1> DEFINE f == request[r]
             row == [settings |-> f.settings, active |-> f.activate, author |-> f.author]
             version == Agents!Last(configs) + 1
  <1>1. /\ f.settings \in Configs \union {Pack} /\ f.author \in {"pack", "manager"}
        /\ f.activate \in BOOLEAN /\ (f.activate = FALSE => DOMAIN configs # {})
    BY DEF Agents!ReadLast, AgentsInv, Prepared
  <1>2. row \in Agents!Rows /\ row.active = f.activate
    BY <1>1, Zenon DEF Agents!Rows
  <1>3. /\ configs' = configs
        /\ \/ /\ row.active = TRUE
              /\ request' = [request EXCEPT ![r] =
                    [at |-> "deactivate", version |-> version, row |-> row]]
           \/ /\ row.active = FALSE
              /\ request' = [request EXCEPT ![r] =
                    [at |-> "write", version |-> version, row |-> row, writes |-> << >>]]
    BY <1>1, <1>2, Zenon DEF Agents!ReadLast
  <1>4. row.active = FALSE => DOMAIN configs # {}
    BY <1>1, <1>2
  <1> HIDE DEF row, version
  <1>5. CASE row.active = TRUE
    <2>1. request' = [request EXCEPT ![r] =
             [at |-> "deactivate", version |-> version, row |-> row]]
      BY <1>3, <1>5
    <2>2. Prepared(r)' /\ OnlyMoves(r) /\ request'[r].at # "commit"
      BY <1>2, <1>3, <1>5, <2>1 DEF Prepared, AgentsInv, OnlyMoves
    <2> QED
      BY <1>3, <2>1, <2>2, QuietAgents
  <1>6. CASE row.active = FALSE
    <2>1. request' = [request EXCEPT ![r] =
             [at |-> "write", version |-> version, row |-> row, writes |-> << >>]]
      BY <1>3, <1>6
    <2>2. Prepared(r)' /\ OnlyMoves(r) /\ request'[r].at # "commit"
      BY <1>2, <1>3, <1>4, <2>1 DEF Prepared, AgentsInv, OnlyMoves
    <2> QED
      BY <1>3, <2>1, <2>2, QuietAgents
  <1> QED
    BY <1>3, <1>5, <1>6

LEMMA DeactivateAgents ==
    ASSUME AgentsInv, NEW r \in Requests, Agents!StartUpdate(r) \/ Agents!Deactivate(r)
    PROVE  AgentsInv'
  <1> DEFINE f == request[r]
  <1>1. /\ f.at = "deactivate" /\ f.row \in Agents!Rows /\ f.row.active = TRUE /\ configs' = configs
        /\ "found" \in DOMAIN f => f.found \subseteq DOMAIN configs
    BY DEF Agents!StartUpdate, Agents!Deactivate, AgentsInv, Prepared
  <1>2. CASE Agents!StartUpdate(r)
    <2>1. request' = [request EXCEPT ![r] =
             [at |-> "deactivate", version |-> f.version, row |-> f.row, found |-> DOMAIN configs]]
      BY <1>2 DEF Agents!StartUpdate, AgentsInv
    <2>2. Prepared(r)' /\ OnlyMoves(r) /\ request'[r].at # "commit"
      BY <1>1, <2>1 DEF Prepared, AgentsInv, OnlyMoves
    <2> QED
      BY <1>1, <2>1, <2>2, QuietAgents
  <1>3. CASE Agents!Deactivate(r)
    <2> DEFINE writes == [v \in f.found |-> [configs[v] EXCEPT !.active = FALSE]]
    <2>1. f.found \subseteq DOMAIN configs
      BY <1>1, <1>3 DEF Agents!Deactivate
    <2>2. DOMAIN writes = f.found /\ \A v \in f.found : writes[v] \in Agents!Rows
      BY <2>1, RowActive DEF AgentsInv
    <2>3. request' = [request EXCEPT ![r] =
             [at |-> "write", version |-> f.version, row |-> f.row, writes |-> writes]]
      BY <1>3, Zenon DEF Agents!Deactivate, AgentsInv
    <2> HIDE DEF writes
    <2>4. Prepared(r)' /\ OnlyMoves(r) /\ request'[r].at # "commit"
      BY <1>1, <2>1, <2>2, <2>3 DEF Prepared, AgentsInv, OnlyMoves
    <2> QED
      BY <1>1, <2>3, <2>4, QuietAgents
  <1> QED
    BY <1>2, <1>3

\* The new row passes the indexes: what its transaction sees has it as its one active row,
\* or it is a new row beside an active one.
LEMMA WriteAgents ==
    ASSUME AgentsInv, NEW r \in Requests, Agents!Write(r)
    PROVE  AgentsInv'
  <1> DEFINE f == request[r]
             v == f.version
             seen == Agents!Seen(r)
             rest == DOMAIN seen \ ({v} \intersect DOMAIN f.writes)
             others == Agents!Restrict(seen, rest)
             writes == [w \in DOMAIN f.writes \union {v} |->
                           IF w = v THEN f.row ELSE f.writes[w]]
  <1>1. /\ f.at = "write" /\ f.row \in Agents!Rows /\ DOMAIN f.writes \subseteq DOMAIN configs
        /\ \A w \in DOMAIN f.writes : f.writes[w] \in Agents!Rows
        /\ f.row.active = FALSE => DOMAIN f.writes = {} /\ DOMAIN configs # {}
        /\ configs' = configs
    BY DEF Agents!Write, AgentsInv, Prepared
  <1>2. \A s \in Requests \ {r} : ~Agents!Clash(v, f.row, Agents!Writes(s))
    BY DEF Agents!Write
  <1>3. CASE Agents!Clash(v, f.row, others)
    <2>1. request' = [request EXCEPT ![r] = Agents!Idle]
      BY <1>3 DEF Agents!Write
    <2>2. Prepared(r)' /\ OnlyMoves(r) /\ request'[r].at # "commit"
      BY <2>1 DEF Prepared, AgentsInv, Agents!Idle, OnlyMoves
    <2> QED
      BY <1>1, <2>2, QuietAgents
  <1>4. CASE ~Agents!Clash(v, f.row, others)
    <2>1. request' = [request EXCEPT ![r] = [at |-> "commit", writes |-> writes]]
      BY <1>4, Zenon DEF Agents!Write
    <2>2. /\ DOMAIN writes = DOMAIN f.writes \union {v} /\ writes[v] = f.row
          /\ \A w \in DOMAIN f.writes \ {v} : writes[w] = f.writes[w]
      OBVIOUS
    <2>3. /\ DOMAIN seen = DOMAIN configs /\ \A w \in DOMAIN configs :
                seen[w] = IF w \in DOMAIN f.writes THEN f.writes[w] ELSE configs[w]
      BY <1>1 DEF Agents!Seen, Agents!Writes
    <2> HIDE DEF seen
    <2>4. DOMAIN others = rest /\ \A w \in rest : others[w] = seen[w]
      BY DEF Agents!Restrict
    <2> HIDE DEF writes, others, v
    <2>5. OnlyMoves(r) /\ request'[r] = [at |-> "commit", writes |-> writes]
      BY <2>1 DEF OnlyMoves, AgentsInv
    <2>6. /\ Agents!Writes(r)' = writes
          /\ \A s \in Requests \ {r} :
                Agents!Writes(s)' = Agents!Writes(s) /\ Agents!Seen(s)' = Agents!Seen(s)
      BY <1>1, <2>5 DEF Agents!Writes, Agents!Seen, OnlyMoves
    <2>7. /\ DOMAIN Agents!Seen(r)' = DOMAIN configs \union DOMAIN writes
          /\ \A w \in DOMAIN configs \union DOMAIN writes :
                Agents!Seen(r)'[w] = IF w \in DOMAIN writes THEN writes[w] ELSE configs[w]
      <3>1. Agents!Seen(r)' = [w \in DOMAIN configs' \union DOMAIN Agents!Writes(r)' |->
                IF w \in DOMAIN Agents!Writes(r)' THEN Agents!Writes(r)'[w] ELSE configs'[w]]
        BY DEF Agents!Seen
      <3> QED
        BY <1>1, <2>6, <3>1
    <2>8. v \notin rest /\ (f.row.active => \A w \in rest : ~seen[w].active)
      BY <1>4, <2>4 DEF Agents!Clash
    <2>9. \A w \in DOMAIN writes : writes[w] \in Agents!Rows
      BY <1>1, <2>2
    <2>10. Turns(r)' \/ Adds(r)'
      <3>1. CASE f.row.active = TRUE
        <4>1. \A w \in DOMAIN configs \ {v} : Agents!Seen(r)'[w] = seen[w] /\ w \in rest
          BY <2>2, <2>3, <2>7, <2>8
        <4>2. \A w \in DOMAIN configs \ {v} : ~(Agents!Seen(r)'[w].active = TRUE)
          BY <3>1, <2>8, <4>1
        <4>3. v \in DOMAIN writes /\ Agents!Seen(r)'[v].active = TRUE
          BY <2>2, <2>7, <3>1
        <4>4. ActiveRows(Agents!Seen(r)') = {v}
          BY <1>1, <2>2, <2>7, <4>2, <4>3 DEF ActiveRows
        <4> QED
          BY <2>6, <4>3, <4>4 DEF Turns, ActiveRows
      <3>2. CASE f.row.active = FALSE
        <4>1. DOMAIN f.writes = {} /\ DOMAIN configs # {} /\ v \notin DOMAIN configs
          BY <1>1, <2>3, <2>8, <3>2
        <4>2. DOMAIN writes = {v} /\ ActiveRows(writes) = {}
          BY <2>2, <3>2, <4>1 DEF ActiveRows
        <4> QED
          BY <1>1, <2>6, <4>1, <4>2 DEF Adds, ActiveRows
      <3> QED
        BY <1>1, <3>1, <3>2, ActiveIsTrue
    <2>11. ASSUME NEW s \in Requests PROVE Prepared(s)'
      <3>1. CASE s = r
        BY <1>1, <2>5, <2>9, <2>10, <3>1 DEF Prepared
      <3>2. CASE s # r
        <4>1. Prepared(s) /\ (Turns(s) => Turns(s)') /\ (Adds(s) => Adds(s)')
          BY <1>1, <2>6, <3>2 DEF AgentsInv, Turns, Adds
        <4>2. request'[s] = request[s]
          BY <2>5, <3>2 DEF OnlyMoves
        <4> QED
          BY <1>1, <4>1, <4>2 DEF Prepared
      <3> QED
        BY <3>1, <3>2
    <2>12. ASSUME NEW s \in Requests \ {r}, request[s].at = "commit"
           PROVE  /\ DOMAIN Agents!Writes(s) \intersect DOMAIN writes = {}
                  /\ ActiveRows(Agents!Writes(s)) = {} \/ ActiveRows(writes) = {}
      <3>1. Turns(s) \/ Adds(s)
        BY <2>12 DEF AgentsInv, Prepared
      <3>2. v \notin DOMAIN Agents!Writes(s)
        BY <1>2, <2>12 DEF Agents!Clash
      <3>3. CASE f.row.active = TRUE
        <4>1. ActiveRows(Agents!Writes(s)) = {}
          BY <1>2, <2>12, <3>3 DEF Agents!Clash, ActiveRows
        <4>2. Adds(s)
          <5>1. ASSUME Turns(s) PROVE FALSE
            <6>1. PICK w \in DOMAIN Agents!Writes(s) : ActiveRows(Agents!Seen(s)) = {w}
              BY <5>1 DEF Turns
            <6>2. Agents!Seen(s)[w] = Agents!Writes(s)[w] /\ Agents!Seen(s)[w].active = TRUE
              <7>1. Agents!Seen(s)[w] = Agents!Writes(s)[w]
                BY <6>1 DEF Agents!Seen
              <7>2. w \in ActiveRows(Agents!Seen(s))
                BY <6>1
              <7> QED
                BY <7>1, <7>2 DEF ActiveRows
            <6> QED
              BY <4>1, <6>1, <6>2 DEF ActiveRows
          <5> QED
            BY <3>1, <5>1
        <4> QED
          BY <1>1, <2>2, <3>2, <4>1, <4>2 DEF Adds
      <3>4. CASE f.row.active = FALSE
        BY <1>1, <2>2, <3>2, <3>4 DEF ActiveRows
      <3> QED
        BY <1>1, <3>3, <3>4, ActiveIsTrue
    <2>13. IndexHolds'
      <3> SUFFICES ASSUME NEW q \in Requests, NEW s \in Requests, q # s,
                          request'[q].at = "commit", request'[s].at = "commit"
                   PROVE  /\ DOMAIN Agents!Writes(q)' \intersect DOMAIN Agents!Writes(s)' = {}
                          /\ ActiveRows(Agents!Writes(q)') = {} \/ ActiveRows(Agents!Writes(s)') = {}
        BY DEF IndexHolds, ActiveRows
      <3>1. \A t \in Requests \ {r} : request'[t] = request[t]
        BY <2>5 DEF OnlyMoves
      <3>2. CASE q = r
        BY <2>6, <2>12, <3>1, <3>2
      <3>3. CASE s = r
        BY <2>6, <2>12, <3>1, <3>3
      <3>4. CASE q # r /\ s # r
        BY <2>6, <3>1, <3>4 DEF AgentsInv, IndexHolds
      <3> QED
        BY <3>2, <3>3, <3>4
    <2> QED
      BY <1>1, <2>5, <2>11, <2>13 DEF AgentsInv, OnlyMoves, ActiveRows
  <1> QED
    BY <1>3, <1>4

\* A commit leaves one active row, and what others have written beside it.
LEMMA CommitAgents ==
    ASSUME AgentsInv, NEW r \in Requests, Agents!Commit(r)
    PROVE  AgentsInv'
  <1> DEFINE writes == Agents!Writes(r)
  <1>1. /\ request[r].at = "commit" /\ writes = request[r].writes
        /\ \A v \in DOMAIN writes : writes[v] \in Agents!Rows
        /\ Turns(r) \/ Adds(r)
    BY DEF Agents!Commit, AgentsInv, Prepared, Agents!Writes
  <1>2. /\ configs' = Agents!Seen(r) /\ request' = [request EXCEPT ![r] = Agents!Idle]
        /\ OnlyMoves(r) /\ request'[r].at = "idle"
    BY DEF Agents!Commit, AgentsInv, OnlyMoves, Agents!Idle
  <1>3. /\ DOMAIN configs' = DOMAIN configs \union DOMAIN writes
        /\ \A v \in DOMAIN configs' : configs'[v] = IF v \in DOMAIN writes THEN writes[v] ELSE configs[v]
    BY <1>2 DEF Agents!Seen
  <1>4. \A v \in DOMAIN configs' : configs'[v] \in Agents!Rows
    BY <1>1, <1>3 DEF AgentsInv
  <1>5. \A s \in Requests \ {r} : Agents!Writes(s)' = Agents!Writes(s)
    BY <1>2 DEF Agents!Writes, OnlyMoves
  <1> HIDE DEF writes
  <1>6. Adds(r) => ActiveRows(configs') = ActiveRows(configs)
    BY <1>3 DEF Adds, ActiveRows, writes
  <1>7. \E v \in DOMAIN configs' : ActiveRows(configs') = {v}
    <2>1. CASE Turns(r)
      BY <1>2, <1>3, <2>1 DEF Turns, writes
    <2>2. CASE Adds(r)
      <3>1. \E v \in DOMAIN configs : ActiveRows(configs) = {v}
        BY <2>2 DEF Adds, AgentsInv
      <3> QED
        BY <1>3, <1>6, <2>2, <3>1
    <2> QED
      BY <1>1, <2>1, <2>2
  <1>8. ASSUME NEW s \in Requests \ {r}, request[s].at = "commit"
        PROVE  (Turns(s) \/ Adds(s))'
    <2>1. /\ DOMAIN Agents!Writes(s) \intersect DOMAIN writes = {}
          /\ ActiveRows(Agents!Writes(s)) = {} \/ ActiveRows(writes) = {}
      BY <1>1, <1>8 DEF AgentsInv, IndexHolds, writes
    <2>2. CASE Adds(s)
      BY <1>3, <1>5, <2>1, <2>2 DEF Adds, ActiveRows
    <2>3. CASE Turns(s)
      <3>1. PICK v \in DOMAIN Agents!Writes(s) : ActiveRows(Agents!Seen(s)) = {v}
        BY <2>3 DEF Turns
      <3>2. Agents!Writes(s)[v].active = TRUE
        <4>1. v \in ActiveRows(Agents!Seen(s)) /\ Agents!Seen(s)[v] = Agents!Writes(s)[v]
          BY <3>1 DEF Agents!Seen
        <4> QED
          BY <4>1 DEF ActiveRows
      <3>3. ActiveRows(writes) = {}
        BY <2>1, <3>2 DEF ActiveRows
      <3>4. DOMAIN Agents!Seen(s) = DOMAIN configs \union DOMAIN Agents!Writes(s)
            /\ \A w \in DOMAIN Agents!Seen(s) : Agents!Seen(s)[w] =
                  IF w \in DOMAIN Agents!Writes(s) THEN Agents!Writes(s)[w] ELSE configs[w]
        BY DEF Agents!Seen
      <3>5. DOMAIN Agents!Seen(s)' = DOMAIN configs' \union DOMAIN Agents!Writes(s)
            /\ \A w \in DOMAIN Agents!Seen(s)' : Agents!Seen(s)'[w] =
                  IF w \in DOMAIN Agents!Writes(s) THEN Agents!Writes(s)[w] ELSE configs'[w]
        <4>1. Agents!Seen(s)' = [w \in DOMAIN configs' \union DOMAIN Agents!Writes(s)' |->
                 IF w \in DOMAIN Agents!Writes(s)' THEN Agents!Writes(s)'[w] ELSE configs'[w]]
          BY DEF Agents!Seen
        <4> QED
          BY <1>5, <4>1
      <3>6. /\ \A w \in DOMAIN Agents!Seen(s) :
                  w \in DOMAIN Agents!Seen(s)' /\ (w \notin DOMAIN writes => Agents!Seen(s)'[w] = Agents!Seen(s)[w])
            /\ \A w \in DOMAIN writes : w \in DOMAIN Agents!Seen(s)' /\ Agents!Seen(s)'[w] = writes[w]
            /\ DOMAIN Agents!Seen(s)' = DOMAIN Agents!Seen(s) \union DOMAIN writes
        BY <1>3, <2>1, <3>4, <3>5
      <3>7. v \in DOMAIN Agents!Seen(s) /\ v \notin DOMAIN writes
        BY <2>1, <3>4
      <3>8. ActiveRows(Agents!Seen(s)') = {v}
        BY <3>1, <3>3, <3>6, <3>7 DEF ActiveRows
      <3> QED
        BY <1>5, <3>1, <3>8 DEF Turns, ActiveRows
    <2> QED
      BY <1>8, <2>2, <2>3 DEF AgentsInv, Prepared
  <1>9. ASSUME NEW s \in Requests PROVE Prepared(s)'
    <2>1. CASE s = r
      BY <1>2, <2>1 DEF Prepared
    <2>2. CASE s # r
      BY <1>2, <1>3, <1>8, <2>2 DEF Prepared, OnlyMoves, AgentsInv
    <2> QED
      BY <2>1, <2>2
  <1>10. IndexHolds'
    BY <1>2, <1>5 DEF IndexHolds, AgentsInv, OnlyMoves, ActiveRows
  <1> QED
    BY <1>2, <1>4, <1>7, <1>9, <1>10 DEF AgentsInv, OnlyMoves, ActiveRows

LEMMA AgentsNext == AgentsInv /\ [Agents!Next]_agents => AgentsInv'
  <1> SUFFICES ASSUME AgentsInv, [Agents!Next]_agents PROVE AgentsInv'
    OBVIOUS
  <1>1. CASE UNCHANGED agents
    <2>1. \A r : Agents!Writes(r)' = Agents!Writes(r) /\ Agents!Seen(r)' = Agents!Seen(r)
      BY <1>1 DEF agents, Agents!Writes, Agents!Seen
    <2>2. \A r : (Turns(r) => Turns(r)') /\ (Adds(r) => Adds(r)')
      BY <1>1, <2>1 DEF agents, Turns, Adds, ActiveRows
    <2>3. \A r \in Requests : Prepared(r)'
      BY <1>1, <2>2 DEF agents, AgentsInv, Prepared
    <2>4. IndexHolds'
      BY <1>1, <2>1 DEF agents, AgentsInv, IndexHolds, ActiveRows
    <2> QED
      BY <1>1, <2>3, <2>4 DEF agents, AgentsInv, ActiveRows
  <1> QED
    BY <1>1, StartAgents, ReadAgents, DeactivateAgents, WriteAgents, CommitAgents DEF Agents!Next

\* A role that has any configuration has exactly one that is active (use_cases/service.py:120,
\* and the partial unique index of the table), whatever loads, configurations and
\* activations overlap.  The locks of _deactivate are not needed for it, the index is.
THEOREM OneConfigurationIsActive == MCSpec => []OneActive
  <1> DEFINE PartInv == part = "agents" => AgentsInv
  <1>1. MCInit => PartInv
    BY AgentsInitially DEF MCInit
  <1>2. PartInv /\ [MCNext]_allVars => PartInv'
    <2> SUFFICES ASSUME PartInv, [MCNext]_allVars, part' = "agents"
                 PROVE  AgentsInv'
      OBVIOUS
    <2>1. part = "agents" /\ [Agents!Next]_agents
      BY DEF MCNext, allVars
    <2> QED
      BY <2>1, AgentsNext
  <1>3. PartInv => OneActive
    <2> SUFFICES ASSUME AgentsInv, DOMAIN configs # {}
                 PROVE  Agents!Cardinality({v \in DOMAIN configs : configs[v].active}) = 1
      BY DEF OneActive, Agents!OneActive
    <2>1. PICK v \in DOMAIN configs : ActiveRows(configs) = {v}
      BY DEF AgentsInv
    <2>2. {w \in DOMAIN configs : configs[w].active} = {v}
      BY <2>1, ActiveIsTrue DEF ActiveRows, AgentsInv
    <2>3. Agents!Cardinality({v}) = Cardinality({v})
      BY DEF Cardinality, Agents!Cardinality
    <2> QED
      BY <2>2, <2>3, FS_Singleton
  <1> QED
    BY <1>1, <1>2, <1>3, PTL DEF MCSpec

-----------------------------------------------------------------------------
(* Direct writes.  Whoever is about to write holds the row alone, as its   *)
(* client read it.                                                         *)

Entries == [by : Requests, operation : DirectWrites!Operations,
            before : Values \union {NoRow}, after : Values \union {NoRow}]

\* What a write knows of the row it holds.
HoldsRow(r) ==
    LET w == write[r]
    IN  /\ w.at \in {"idle", "read", "locked", "written"}
        /\ w.at \in {"locked", "written"} => w.before = stored
        /\ w.at = "written" => /\ w.operation \in DirectWrites!Operations
                               /\ w.after \in Values \union {NoRow}
                               /\ stored = DirectWrites!ReadByItsClient(r)
        /\ w.at = "locked" => w.etag = stored

WritesInv ==
    /\ stored \in Values \union {NoRow}
    /\ changes \in Seq(Entries)
    /\ DOMAIN write = Requests
    /\ \A r \in Requests : HoldsRow(r)
    /\ \A q, r \in Requests : DirectWrites!Holding(q) /\ DirectWrites!Holding(r) => q = r

LEMMA WritesInitially == DirectWrites!Init => WritesInv
  <1> SUFFICES ASSUME DirectWrites!Init PROVE WritesInv
    OBVIOUS
  <1>1. changes \in Seq(Entries)
    BY DEF DirectWrites!Init
  <1> QED
    BY <1>1 DEF DirectWrites!Init, WritesInv, HoldsRow, DirectWrites!ReadByItsClient, DirectWrites!Holding, DirectWrites!Resting

\* A step of one write that leaves the row and the records alone.
LEMMA QuietWrites ==
    ASSUME WritesInv, NEW r \in Requests, UNCHANGED <<stored, changes>>,
           DOMAIN write' = Requests, \A q \in Requests \ {r} : write'[q] = write[q],
           DirectWrites!Holding(r)' => DirectWrites!Holding(r) \/ ~DirectWrites!Waits(r),
           HoldsRow(r)'
    PROVE  WritesInv'
  <1>1. ASSUME NEW q \in Requests PROVE HoldsRow(q)'
    <2>1. CASE q # r
      BY <2>1 DEF WritesInv, HoldsRow, DirectWrites!ReadByItsClient
    <2> QED
      BY <2>1
  <1>2. \A q \in Requests \ {r} : DirectWrites!Holding(q)' <=> DirectWrites!Holding(q)
    BY DEF DirectWrites!Holding
  <1> QED
    BY <1>1, <1>2 DEF WritesInv, DirectWrites!Waits

LEMMA WritesStep ==
    ASSUME WritesInv, NEW r \in Requests,
           \/ DirectWrites!Read(r) \/ DirectWrites!Lock(r)
           \/ \E new \in Values : DirectWrites!Update(r, new) \/ DirectWrites!Insert(r, new)
           \/ DirectWrites!Delete(r) \/ DirectWrites!Rollback(r)
    PROVE  WritesInv'
  <1> DEFINE w == write[r]
  <1>1. UNCHANGED <<stored, changes>>
    BY DEF DirectWrites!Read, DirectWrites!Lock, DirectWrites!Update, DirectWrites!Insert,
           DirectWrites!Delete, DirectWrites!Rollback
  <1>2. ASSUME NEW new, write' = [write EXCEPT ![r] = new]
        PROVE  /\ DOMAIN write' = Requests /\ write'[r] = new
               /\ \A q \in Requests \ {r} : write'[q] = write[q]
    BY <1>2 DEF WritesInv
  <1>3. HoldsRow(r)
    BY DEF WritesInv
  <1>4. CASE DirectWrites!Read(r)
    BY <1>1, <1>2, <1>4, QuietWrites DEF DirectWrites!Read, DirectWrites!Holding, HoldsRow, DirectWrites!ReadByItsClient
  <1>5. CASE DirectWrites!Lock(r)
    BY <1>1, <1>2, <1>5, QuietWrites DEF DirectWrites!Lock, DirectWrites!Match,
       DirectWrites!Stale, DirectWrites!Holding, DirectWrites!Resting, HoldsRow, DirectWrites!ReadByItsClient
  <1>6. ASSUME NEW new \in Values, DirectWrites!Update(r, new) PROVE WritesInv'
    BY <1>1, <1>2, <1>3, <1>6, QuietWrites DEF DirectWrites!Update, DirectWrites!Holding,
       DirectWrites!Operations, HoldsRow, DirectWrites!ReadByItsClient
  <1>7. CASE DirectWrites!Delete(r)
    BY <1>1, <1>2, <1>3, <1>7, QuietWrites DEF DirectWrites!Delete, DirectWrites!Holding,
       DirectWrites!Operations, HoldsRow, DirectWrites!ReadByItsClient
  <1>8. ASSUME NEW new \in Values, DirectWrites!Insert(r, new) PROVE WritesInv'
    BY <1>1, <1>2, <1>8, QuietWrites DEF DirectWrites!Insert, DirectWrites!Holding,
       DirectWrites!Operations, HoldsRow, DirectWrites!ReadByItsClient
  <1>9. CASE DirectWrites!Rollback(r)
    BY <1>1, <1>2, <1>9, QuietWrites DEF DirectWrites!Rollback, DirectWrites!Holding,
       DirectWrites!Resting, HoldsRow, DirectWrites!ReadByItsClient
  <1> QED
    BY <1>4, <1>5, <1>6, <1>7, <1>8, <1>9

\* The record of a commit is of the row it replaces.
LEMMA CommitRecords ==
    ASSUME WritesInv, NEW r \in Requests, DirectWrites!Commit(r)
    PROVE  WritesInv' /\ DirectWrites!RecordsTheChange
  <1> DEFINE new == [by |-> r, operation |-> write[r].operation,
                     before |-> write[r].before, after |-> write[r].after]
  <1>1. /\ HoldsRow(r) /\ write[r].at = "written"
        /\ changes' = Append(changes, new) /\ stored' = write[r].after
        /\ write' = [write EXCEPT ![r] = DirectWrites!Resting]
    BY DEF DirectWrites!Commit, DirectWrites!Recorded, WritesInv
  <1>2. new \in Entries /\ new.before = stored /\ new.after = stored'
    BY <1>1 DEF HoldsRow, DirectWrites!ReadByItsClient, Entries, WritesInv
  <1>8. stored = DirectWrites!ReadByItsClient(r) /\ new.by = r
    BY <1>1 DEF HoldsRow
  <1> HIDE DEF new
  <1>3. /\ changes' \in Seq(Entries) /\ Len(changes') = Len(changes) + 1
        /\ changes'[Len(changes')] = new
    BY <1>1, <1>2 DEF WritesInv
  <1>4. /\ DOMAIN write' = Requests /\ write'[r].at = "idle"
        /\ \A q \in Requests \ {r} : write'[q] = write[q] /\ ~DirectWrites!Holding(q)
    BY <1>1 DEF WritesInv, DirectWrites!Resting, DirectWrites!Holding
  <1>5. \A q \in Requests : HoldsRow(q)' /\ ~DirectWrites!Holding(q)'
    BY <1>4 DEF WritesInv, HoldsRow, DirectWrites!ReadByItsClient, DirectWrites!Holding
  <1>6. stored' \in Values \union {NoRow}
    BY <1>1 DEF HoldsRow, DirectWrites!ReadByItsClient
  <1> QED
    BY <1>2, <1>3, <1>4, <1>5, <1>6, <1>8 DEF WritesInv, DirectWrites!RecordsTheChange, DirectWrites!Last

LEMMA WritesNext ==
    WritesInv /\ [DirectWrites!Next]_directWrites => WritesInv' /\ DirectWrites!RecordsTheChange
  <1> SUFFICES ASSUME WritesInv, [DirectWrites!Next]_directWrites
               PROVE  WritesInv' /\ DirectWrites!RecordsTheChange
    OBVIOUS
  <1>1. CASE UNCHANGED directWrites
    BY <1>1 DEF directWrites, WritesInv, HoldsRow, DirectWrites!ReadByItsClient, DirectWrites!Holding, DirectWrites!RecordsTheChange
  <1>2. ASSUME NEW r \in Requests,
               \/ DirectWrites!Read(r) \/ DirectWrites!Lock(r)
               \/ \E new \in Values : DirectWrites!Update(r, new) \/ DirectWrites!Insert(r, new)
               \/ DirectWrites!Delete(r) \/ DirectWrites!Rollback(r)
        PROVE  WritesInv' /\ DirectWrites!RecordsTheChange
    <2>1. changes' = changes
      BY <1>2 DEF DirectWrites!Read, DirectWrites!Lock, DirectWrites!Update,
         DirectWrites!Insert, DirectWrites!Delete, DirectWrites!Rollback
    <2> QED
      BY <1>2, <2>1, WritesStep DEF DirectWrites!RecordsTheChange
  <1>3. ASSUME NEW new \in Values \union {NoRow}, DirectWrites!ApplicationWrites(new)
        PROVE  WritesInv' /\ DirectWrites!RecordsTheChange
    BY <1>3 DEF DirectWrites!ApplicationWrites, WritesInv, HoldsRow, DirectWrites!ReadByItsClient, DirectWrites!Holding,
       DirectWrites!RecordsTheChange
  <1> QED
    BY <1>1, <1>2, <1>3, CommitRecords DEF DirectWrites!Next

\* "Row changed; read it again before retrying" (database_api/service.py:231): a change is
\* committed over the very row its client had read and recorded as such, for any number of
\* writes and values, and whatever others and the application write in between.
THEOREM WritesReplaceWhatWasRead == MCSpec => ReplacesWhatWasRead
  <1> DEFINE PartInv == part = "tables" => WritesInv
             Recorded == part = "tables" => DirectWrites!RecordsTheChange
  <1>1. MCInit => PartInv
    BY WritesInitially DEF MCInit
  <1>2. PartInv /\ [MCNext]_allVars => PartInv' /\ [Recorded]_directWrites
    <2> SUFFICES ASSUME PartInv, [MCNext]_allVars PROVE PartInv' /\ [Recorded]_directWrites
      OBVIOUS
    <2>1. CASE part = "tables"
      <3>1. [DirectWrites!Next]_directWrites
        BY <2>1 DEF MCNext, allVars
      <3> QED
        BY <2>1, <3>1, WritesNext
    <2>2. CASE part # "tables"
      BY <2>2 DEF MCNext, allVars
    <2> QED
      BY <2>1, <2>2
  <1> QED
    BY <1>1, <1>2, PTL DEF MCSpec, ReplacesWhatWasRead
=============================================================================
