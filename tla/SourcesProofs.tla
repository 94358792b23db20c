--------------------------- MODULE SourcesProofs ---------------------------
(***************************************************************************)
(* Proofs about the sources of truth: what the runs of any number of       *)
(* requests read, with any sources, syncs and uploads beside them; what a  *)
(* download brings while its source changes; which stale decisions the     *)
(* alerts flag; and what is taken from a workbook.                         *)
(***************************************************************************)
EXTENDS MCSources, SequenceTheorems, FiniteSetTheorems, WellFoundedInduction, TLAPS

-----------------------------------------------------------------------------
(***************************************************************************)
(* The loads                                                               *)
(***************************************************************************)

\* A non-empty set of numbers under a bound has a greatest element: its least bound.
LEMMA Greatest ==
    ASSUME NEW bound \in Nat, NEW P \in SUBSET Nat, P # {},
           \A p \in P : p <= bound
    PROVE  \E p \in P : \A q \in P : q <= p
  <1> DEFINE Bounds == {b \in Nat : \A p \in P : p <= b}
  <1>1. PICK least \in Bounds : \A b \in Bounds : ~ (<<b, least>> \in OpToRel(<, Nat))
    <2>1. Bounds \subseteq Nat /\ Bounds # {}
      OBVIOUS
    <2> HIDE DEF Bounds
    <2> QED BY <2>1, NatLessThanWellFounded, WFMin
  <1>2. \A b \in Bounds : ~ (b < least)
    BY <1>1 DEF OpToRel
  <1>3. least \in P
    <2> SUFFICES ASSUME least \notin P PROVE FALSE
      OBVIOUS
    <2>1. PICK p \in P : TRUE
      OBVIOUS
    <2>2. least - 1 \in Nat /\ \A q \in P : q <= least - 1
      BY <2>1
    <2> QED
      BY <1>2, <2>2
  <1> QED
    BY <1>3

\* A finite set in some order: what SetToSeq chooses exists.
LEMMA SetInOrder ==
    ASSUME NEW S, IsFiniteSet(S)
    PROVE  SetToSeq(S) \in Seq(S)
  <1>1. PICK f : f \in Bijection(1 .. Cardinality(S), S)
    BY FS_CardinalityType DEF ExistsBijection
  <1>2. f \in [1 .. Cardinality(S) -> S] /\ IsInjective(f)
    BY <1>1 DEF Bijection, Injection, Surjection, IsInjective
  <1>3. SetToSeq(S) \in [1 .. Cardinality(S) -> S]
    BY <1>2 DEF SetToSeq
  <1> QED
    BY <1>3, FS_CardinalityType

\* Of a source that was loaded, the current load is its latest.
LEMMA CurrentIsLatest ==
    ASSUME loads \in Seq(LoadRows), NEW n \in Loaded
    PROVE  /\ Current(n) \in DOMAIN loads
           /\ loads[Current(n)].name = n
           /\ \A j \in DOMAIN loads : loads[j].name = n => j <= Current(n)
  <1> DEFINE Ids == {i \in DOMAIN loads : loads[i].name = n}
  <1>1. Ids \in SUBSET Nat /\ Ids # {} /\ Len(loads) \in Nat /\ \A i \in Ids : i <= Len(loads)
    BY DEF Loaded
  <1>2. PICK i \in Ids : \A j \in Ids : j <= i
    <2> HIDE DEF Ids
    <2> QED BY <1>1, Greatest
  <1>3. \E k \in DOMAIN loads : /\ loads[k].name = n
                                /\ \A j \in DOMAIN loads : loads[j].name = n => j <= k
    BY <1>2
  <1> QED
    BY <1>3 DEF Current

LEMMA LoadedAreNames ==
    ASSUME loads \in Seq(LoadRows)
    PROVE  Loaded \subseteq Names
  <1> SUFFICES ASSUME NEW i \in DOMAIN loads PROVE loads[i].name \in Names
    BY DEF Loaded
  <1>1. loads[i] \in LoadRows
    OBVIOUS
  <1> QED
    BY <1>1 DEF LoadRows

-----------------------------------------------------------------------------
(***************************************************************************)
(* The invariant                                                           *)
(***************************************************************************)

\* What a run reads of some of the sources: their loads, by id.
Views == UNION {[S -> Nat] : S \in SUBSET Names}

Flights ==
    [kind : {"none", "sync", "run", "upload"},
     stage : {"new", "next", "download", "landing", "capture", "commit", "done"},
     left : SUBSET Live, name : Http \union {None}, begun : Nat, got : 0 .. MaxRemote,
     since : Nat, seen : [Http -> 0 .. MaxRemote], failed : SUBSET Live,
     down : SUBSET Names, marked : SUBSET Http, shown : Views, reads : Views]

ExecutionRows ==
    [since : Nat, seen : [Http -> 0 .. MaxRemote], failed : SUBSET Live,
     down : SUBSET Names, marked : SUBSET Http, shown : Views, reads : Views]

Types ==
    /\ remote \in [Http -> 0 .. MaxRemote]
    /\ loads \in Seq(LoadRows)
    /\ status \in [Http -> {"never", "ok", "down"}]
    /\ clock \in Nat
    /\ request \in [Requests -> Flights]
    /\ holder \in Requests \union {None}
    /\ executions \subseteq ExecutionRows

\* A request has a source between its download and its landing, a live one for a run.
Syncing(r) ==
    request[r].stage \in {"download", "landing"} =>
        /\ request[r].name \in Http
        /\ request[r].kind = "run" => request[r].name \in Live
        /\ request[r].kind \in {"run", "sync"}

OnlyRunsRead(r) ==
    request[r].stage \in {"next", "capture", "commit"} => request[r].kind = "run"

LoadedSince(r, n) == \E i \in DOMAIN loads : loads[i].name = n /\ i > request[r].since

\* A run has still to sync a live source, is syncing it, has failed to, or it was loaded
\* since the run began.
EverySourceIsTried(r) ==
    /\ request[r].kind = "run"
    /\ request[r].stage \in {"next", "download", "landing", "capture", "commit"}
    => \A n \in Live :
          \/ n \in request[r].left
          \/ n \in request[r].failed
          \/ request[r].stage \in {"download", "landing"} /\ n = request[r].name
          \/ LoadedSince(r, n)

\* The run that was shown its loads holds the lock, so they are still the current ones.
ShownIsCurrent(r) ==
    request[r].stage \in {"capture", "commit"} =>
        /\ holder = r
        /\ request[r].left = {}
        /\ request[r].down = Down(r)
        /\ request[r].shown = [n \in Loaded \ Down(r) |-> Current(n)]

ReadsAsShown(r) == request[r].stage = "commit" => request[r].reads = request[r].shown

Sound(e) ==
    /\ \A n \in Live \intersect DOMAIN e.reads : e.reads[n] > e.since
    /\ e.failed \intersect DOMAIN e.reads = {}
    /\ DOMAIN e.reads \subseteq Names
    /\ DOMAIN e.reads \union e.down = Names
    /\ DOMAIN e.reads \intersect e.down = {}
    /\ e.shown = e.reads

SinceIsPast(r) == request[r].since <= Len(loads)

InFlight(r) ==
    /\ SinceIsPast(r) /\ Syncing(r) /\ OnlyRunsRead(r) /\ EverySourceIsTried(r)
    /\ ShownIsCurrent(r) /\ ReadsAsShown(r)

Inv ==
    /\ Types
    /\ \A r \in Requests : InFlight(r)
    /\ \A e \in executions : Sound(e)

-----------------------------------------------------------------------------
(***************************************************************************)
(* What the steps have in common                                           *)
(***************************************************************************)

LEMMA ViewType ==
    ASSUME NEW S \in SUBSET Names, NEW f \in [S -> Nat]
    PROVE  f \in Views
  BY DEF Views

LEMMA IdleType == Idle \in Flights
  <1>1. << >> \in [{} -> Nat]
    OBVIOUS
  <1>2. << >> \in Views
    BY <1>1, ViewType
  <1> QED
    BY <1>2, SourcesAssumption DEF Idle, Flights

LEMMA CurrentView ==
    ASSUME loads \in Seq(LoadRows), NEW S \in SUBSET Loaded
    PROVE  [n \in S |-> Current(n)] \in Views
  <1>1. \A n \in S : Current(n) \in Nat
    BY CurrentIsLatest
  <1>2. S \subseteq Names
    BY LoadedAreNames
  <1> QED
    BY <1>1, <1>2, ViewType

\* The loads so far stay where they are.
LoadsKept ==
    /\ loads' \in Seq(LoadRows)
    /\ Len(loads) <= Len(loads')
    /\ \A i \in DOMAIN loads : i \in DOMAIN loads' /\ loads'[i] = loads[i]

LEMMA StillPast ==
    ASSUME Types, NEW r \in Requests, SinceIsPast(r), LoadsKept,
           request'[r].since = request[r].since
    PROVE  SinceIsPast(r)'
  <1>1. request[r].since \in Nat /\ Len(loads) \in Nat /\ Len(loads') \in Nat
    BY DEF Types, Flights, LoadsKept
  <1> QED
    BY <1>1 DEF SinceIsPast, LoadsKept

\* A step of one request leaves every other as it is, if it loads nothing under the lock
\* of the other and does not take that lock away.
LEMMA OthersInFlight ==
    ASSUME Types, NEW q \in Requests, InFlight(q), request'[q] = request[q], LoadsKept,
           holder = q => holder' = holder /\ loads' = loads
    PROVE  InFlight(q)'
  <1>1. Syncing(q)' /\ OnlyRunsRead(q)' /\ ReadsAsShown(q)'
    BY DEF InFlight, Syncing, OnlyRunsRead, ReadsAsShown
  <1>4. SinceIsPast(q)'
    BY StillPast DEF InFlight
  <1>2. EverySourceIsTried(q)'
    BY DEF InFlight, EverySourceIsTried, LoadedSince, LoadsKept
  <1>3. ShownIsCurrent(q)'
    <2> SUFFICES ASSUME request[q].stage \in {"capture", "commit"}
                 PROVE  ShownIsCurrent(q)'
      BY DEF ShownIsCurrent
    <2>1. holder = q /\ holder' = q /\ loads' = loads
      BY DEF InFlight, ShownIsCurrent
    <2>2. Loaded' = Loaded /\ Down(q)' = Down(q)
      BY <2>1 DEF Loaded, Down
    <2>3. \A n : Current(n)' = Current(n)
      BY <2>1 DEF Current
    <2>4. request'[q].shown = [n \in Loaded' \ Down(q)' |-> Current(n)']
      BY <2>2, <2>3 DEF InFlight, ShownIsCurrent
    <2> QED
      BY <2>1, <2>2, <2>4 DEF InFlight, ShownIsCurrent
  <1> QED
    BY <1>1, <1>2, <1>3, <1>4 DEF InFlight

LEMMA Initially == Init => Inv
  <1> SUFFICES ASSUME Init PROVE Inv
    OBVIOUS
  <1>1. Types
    BY IdleType, SourcesAssumption DEF Init, Types
  <1>2. \A r \in Requests : InFlight(r)
    BY DEF Init, Idle, InFlight, SinceIsPast, Syncing, OnlyRunsRead, EverySourceIsTried,
           ShownIsCurrent, ReadsAsShown
  <1> QED
    BY <1>1, <1>2 DEF Inv, Init

\* What is left to show of a step of one request.
LEMMA OneMoves ==
    ASSUME Inv, Types', NEW r \in Requests, InFlight(r)', LoadsKept,
           \A q \in Requests \ {r} : request'[q] = request[q],
           \A q \in Requests \ {r} : holder = q => holder' = holder /\ loads' = loads,
           \A e \in executions' : e \in executions \/ Sound(e)
    PROVE  Inv'
  <1>1. ASSUME NEW q \in Requests PROVE InFlight(q)'
    <2>1. CASE q = r
      BY <2>1
    <2>2. CASE q # r
      BY <2>2, OthersInFlight DEF Inv
    <2> QED
      BY <2>1, <2>2
  <1>2. \A e \in executions' : Sound(e)
    BY DEF Inv
  <1>3. (\A e \in executions : Sound(e))'
    BY <1>2 DEF Sound
  <1> QED
    BY <1>1, <1>3 DEF Inv

LEMMA SameLoads ==
    ASSUME Types, loads' = loads
    PROVE  LoadsKept /\ Loaded' = Loaded /\ \A n : Current(n)' = Current(n)
  <1>1. LoadsKept /\ Loaded' = Loaded
    BY DEF LoadsKept, Loaded, Types
  <1>2. \A n : Current(n)' = Current(n)
    BY DEF Current
  <1> QED
    BY <1>1, <1>2

LEMMA LoadsOnTop ==
    ASSUME Types, NEW more \in Seq(LoadRows), loads' = loads \o more
    PROVE  LoadsKept
  BY DEF Types, LoadsKept

-----------------------------------------------------------------------------
(***************************************************************************)
(* The steps                                                               *)
(***************************************************************************)

LEMMA RemoteChangesKeepsInv ==
    ASSUME Inv, NEW n \in Http, RemoteChanges(n)
    PROVE  Inv'
  <1>1. Types'
    BY SourcesAssumption DEF Inv, Types, RemoteChanges
  <1>2. LoadsKept
    BY SameLoads DEF RemoteChanges, Inv
  <1>3. \A q \in Requests : InFlight(q)'
    BY <1>1, <1>2, OthersInFlight DEF Inv, RemoteChanges
  <1>4. (\A e \in executions : Sound(e))'
    BY DEF Inv, RemoteChanges, Sound
  <1> QED
    BY <1>1, <1>3, <1>4 DEF Inv

LEMMA StartSyncKeepsInv ==
    ASSUME Inv, NEW r \in Requests, NEW n \in Http, StartSync(r, n)
    PROVE  Inv'
  <1> DEFINE moved == [request[r] EXCEPT !.kind = "sync", !.stage = "download",
                                         !.name = n, !.begun = clock + 1]
  <1>1. request[r] \in Flights /\ clock + 1 \in Nat
    BY DEF Inv, Types
  <1>2. request' = [request EXCEPT ![r] = moved] /\ request'[r] = moved
    BY DEF Inv, Types, StartSync
  <1>3. moved \in Flights
    BY <1>1 DEF Flights
  <1>4. moved.kind = "sync" /\ moved.stage = "download" /\ moved.name = n
        /\ moved.since = request[r].since
    BY <1>1 DEF Flights
  <1> HIDE DEF moved
  <1>5. Types'
    BY <1>1, <1>2, <1>3 DEF Inv, Types, StartSync
  <1>6. SinceIsPast(r)'
    BY <1>2, <1>4, StillPast, SameLoads DEF Inv, InFlight, StartSync
  <1>7. InFlight(r)'
    BY <1>2, <1>4, <1>6 DEF InFlight, Syncing, OnlyRunsRead, EverySourceIsTried, ShownIsCurrent,
                            ReadsAsShown
  <1> QED
    BY <1>5, <1>7, OneMoves, SameLoads DEF Inv, Types, StartSync

LEMMA StartRunKeepsInv ==
    ASSUME Inv, NEW r \in Requests, StartRun(r)
    PROVE  Inv'
  <1> DEFINE moved == [request[r] EXCEPT !.kind = "run", !.stage = "next", !.left = Live,
                           !.begun = clock + 1, !.since = Len(loads), !.seen = remote]
  <1>1. request[r] \in Flights /\ clock + 1 \in Nat
    BY DEF Inv, Types
  <1>2. request' = [request EXCEPT ![r] = moved] /\ request'[r] = moved
    BY DEF Inv, Types, StartRun
  <1>3. moved \in Flights
    <2>1. Len(loads) \in Nat /\ remote \in [Http -> 0 .. MaxRemote]
      BY DEF Inv, Types
    <2> QED
      BY <1>1, <2>1 DEF Flights
  <1>4. moved.kind = "run" /\ moved.stage = "next" /\ moved.left = Live
        /\ moved.since = Len(loads)
    BY <1>1 DEF Flights
  <1> HIDE DEF moved
  <1>5. Types'
    BY <1>1, <1>2, <1>3 DEF Inv, Types, StartRun
  <1>6. SinceIsPast(r)'
    BY <1>2, <1>4 DEF Inv, Types, SinceIsPast, StartRun
  <1>7. InFlight(r)'
    BY <1>2, <1>4, <1>6 DEF InFlight, Syncing, OnlyRunsRead, EverySourceIsTried, ShownIsCurrent,
                            ReadsAsShown
  <1> QED
    BY <1>5, <1>7, OneMoves, SameLoads DEF Inv, Types, StartRun

LEMMA NextSyncKeepsInv ==
    ASSUME Inv, NEW r \in Requests, NEW n \in request[r].left, NextSync(r, n)
    PROVE  Inv'
  <1> DEFINE moved == [request[r] EXCEPT !.stage = "download", !.name = n,
                                         !.left = request[r].left \ {n}]
  <1>1. request[r] \in Flights /\ InFlight(r)
    BY DEF Inv, Types
  <1>2. request' = [request EXCEPT ![r] = moved] /\ request'[r] = moved
    BY DEF Inv, Types, NextSync
  <1>3. n \in Live /\ n \in Http /\ request[r].left \ {n} \in SUBSET Live
    BY <1>1, SourcesAssumption DEF Flights
  <1>4. moved \in Flights
    BY <1>1, <1>3 DEF Flights
  <1>5. /\ moved.kind = request[r].kind /\ moved.stage = "download" /\ moved.name = n
        /\ moved.left = request[r].left \ {n} /\ moved.failed = request[r].failed
        /\ moved.since = request[r].since
    BY <1>1 DEF Flights
  <1> HIDE DEF moved
  <1>6. Types'
    BY <1>2, <1>4 DEF Inv, Types, NextSync
  <1>7. \A m : LoadedSince(r, m) => LoadedSince(r, m)'
    BY <1>2, <1>5 DEF NextSync, LoadedSince
  <1>8. request[r].kind = "run"
    BY <1>1 DEF InFlight, OnlyRunsRead, NextSync
  <1>9. EverySourceIsTried(r)'
    BY <1>1, <1>2, <1>5, <1>7, <1>8 DEF InFlight, EverySourceIsTried, NextSync
  <1>11. SinceIsPast(r)'
    BY <1>1, <1>2, <1>5, StillPast, SameLoads DEF Inv, InFlight, NextSync
  <1>10. InFlight(r)'
    BY <1>2, <1>3, <1>5, <1>8, <1>9, <1>11
    DEF InFlight, Syncing, OnlyRunsRead, ShownIsCurrent, ReadsAsShown
  <1> QED
    BY <1>6, <1>10, OneMoves, SameLoads DEF Inv, Types, NextSync

LEMMA DownloadKeepsInv ==
    ASSUME Inv, NEW r \in Requests, Download(r)
    PROVE  Inv'
  <1> DEFINE moved == [request[r] EXCEPT !.stage = "landing", !.got = remote[request[r].name]]
  <1>1. request[r] \in Flights /\ InFlight(r)
    BY DEF Inv, Types
  <1>2. request' = [request EXCEPT ![r] = moved] /\ request'[r] = moved
    BY DEF Inv, Types, Download
  <1>3. request[r].name \in Http /\ remote[request[r].name] \in 0 .. MaxRemote
    BY <1>1 DEF InFlight, Syncing, Download, Inv, Types
  <1>4. moved \in Flights
    BY <1>1, <1>3 DEF Flights
  <1>5. Types'
    BY <1>2, <1>4 DEF Inv, Types, Download
  <1>6. EverySourceIsTried(r)'
    BY <1>1, <1>2 DEF Flights, InFlight, EverySourceIsTried, Download, LoadedSince
  <1>8. moved.since = request[r].since
    BY <1>1 DEF Flights
  <1>9. SinceIsPast(r)'
    BY <1>1, <1>2, <1>8, StillPast, SameLoads DEF Inv, InFlight, Download
  <1>7. InFlight(r)'
    BY <1>1, <1>2, <1>6, <1>9 DEF Flights, InFlight, Syncing, OnlyRunsRead, Download,
                      ShownIsCurrent, ReadsAsShown
  <1> QED
    BY <1>5, <1>7, OneMoves, SameLoads DEF Inv, Types, Download

\* After a sync the run goes on, with its source tried.
LEMMA AfterSync ==
    ASSUME Inv, NEW r \in Requests, request[r].stage \in {"download", "landing"},
           NEW failed \in BOOLEAN, request' = [request EXCEPT ![r] = After(r, failed)],
           LoadsKept, NEW n, n = request[r].name, failed \/ LoadedSince(r, n)'
    PROVE  request' \in [Requests -> Flights] /\ InFlight(r)'
  <1>1. request[r] \in Flights /\ InFlight(r) /\ request'[r] = After(r, failed)
    BY DEF Inv, Types
  <1>2. request[r].name \in Http /\ 0 \in 0 .. MaxRemote
    BY <1>1, SourcesAssumption DEF InFlight, Syncing
  <1>3. CASE request[r].kind = "run"
    <2> DEFINE tried == IF failed THEN request[r].failed \union {request[r].name}
                        ELSE request[r].failed
               moved == [request[r] EXCEPT !.stage = "next", !.begun = 0, !.got = 0, !.name = None,
                                           !.failed = tried]
    <2>1. request'[r] = moved
      BY <1>1, <1>3 DEF After
    <2>2. tried \in SUBSET Live /\ (failed => request[r].name \in tried)
                                /\ request[r].failed \subseteq tried
      BY <1>1, <1>3 DEF Flights, InFlight, Syncing
    <2> HIDE DEF tried
    <2>3. moved \in Flights
      BY <1>1, <1>2, <2>2 DEF Flights
    <2>4. /\ moved.kind = "run" /\ moved.stage = "next"
          /\ moved.left = request[r].left /\ moved.failed = tried
          /\ moved.since = request[r].since
      BY <1>1, <1>3 DEF Flights
    <2> HIDE DEF moved
    <2>5. \A m : LoadedSince(r, m) => LoadedSince(r, m)'
      BY <2>1, <2>4 DEF LoadsKept, LoadedSince
    <2>6. EverySourceIsTried(r)'
      <3> SUFFICES ASSUME NEW m \in Live, m \notin request[r].left, m \notin tried
                   PROVE  LoadedSince(r, m)'
        BY <2>1, <2>4 DEF EverySourceIsTried
      <3>1. m \notin request[r].failed
        BY <2>2
      <3>2. CASE m = n
        BY <3>2, <2>2
      <3>3. CASE m # n
        BY <1>1, <1>3, <3>1, <3>3, <2>5 DEF InFlight, EverySourceIsTried
      <3> QED
        BY <3>2, <3>3
    <2>8. SinceIsPast(r)'
      BY <1>1, <2>1, <2>4, StillPast DEF Inv, InFlight
    <2>7. InFlight(r)'
      BY <2>1, <2>4, <2>6, <2>8 DEF InFlight, Syncing, OnlyRunsRead, ShownIsCurrent, ReadsAsShown
    <2> QED
      BY <1>1, <2>1, <2>3, <2>7 DEF Inv, Types
  <1>4. CASE request[r].kind # "run"
    <2> DEFINE moved == [request[r] EXCEPT !.stage = "done", !.begun = 0, !.got = 0, !.name = None]
    <2>1. request'[r] = moved
      BY <1>1, <1>4 DEF After
    <2>2. moved \in Flights /\ moved.stage = "done" /\ moved.since = request[r].since
      BY <1>1, <1>2 DEF Flights
    <2> HIDE DEF moved
    <2>4. SinceIsPast(r)'
      BY <1>1, <2>1, <2>2, StillPast DEF Inv, InFlight
    <2>3. InFlight(r)'
      BY <2>1, <2>2, <2>4 DEF InFlight, Syncing, OnlyRunsRead, EverySourceIsTried, ShownIsCurrent, ReadsAsShown
    <2> QED
      BY <1>1, <2>1, <2>2, <2>3 DEF Inv, Types
  <1> QED
    BY <1>3, <1>4

LEMMA SyncFailsKeepsInv ==
    ASSUME Inv, NEW r \in Requests, SyncFails(r)
    PROVE  Inv'
  <1>1. InFlight(r) /\ LoadsKept
    BY SameLoads DEF Inv, SyncFails
  <1>2. request[r].name \in Http
    BY <1>1 DEF InFlight, Syncing, SyncFails
  <1>3. request' \in [Requests -> Flights] /\ InFlight(r)'
    BY <1>1, AfterSync DEF SyncFails
  <1>4. Types'
    BY <1>2, <1>3 DEF Inv, Types, SyncFails
  <1> QED
    BY <1>1, <1>3, <1>4, OneMoves DEF Inv, Types, SyncFails

LEMMA SyncLandsKeepsInv ==
    ASSUME Inv, NEW r \in Requests, SyncLands(r)
    PROVE  Inv'
  <1> DEFINE load == [name |-> request[r].name, got |-> request[r].got,
                      loaded_at |-> IF request[r].begun = 0 THEN clock + 1 ELSE request[r].begun]
  <1>1. PICK failed \in BOOLEAN : request' = [request EXCEPT ![r] = After(r, failed)]
    BY DEF SyncLands
  <1>2. request[r] \in Flights /\ InFlight(r) /\ loads \in Seq(LoadRows) /\ clock \in Nat
    BY DEF Inv, Types
  <1>3. request[r].name \in Http
    BY <1>2 DEF InFlight, Syncing, SyncLands
  <1>4. load \in LoadRows
    BY <1>2, <1>3 DEF LoadRows, Names, Flights
  <1>5. loads' = Append(loads, load)
    BY DEF SyncLands
  <1>6. loads' \in Seq(LoadRows) /\ LoadsKept
    BY <1>2, <1>4, <1>5 DEF LoadsKept
  <1>7. loads'[Len(loads) + 1].name = request[r].name /\ Len(loads) + 1 \in DOMAIN loads'
    BY <1>2, <1>5
  <1>8. request'[r].since = request[r].since
    BY <1>1, <1>2 DEF After, Flights, Inv, Types
  <1>9. \A n : n = request[r].name => LoadedSince(r, n)'
    BY <1>2, <1>7, <1>8 DEF LoadedSince, InFlight, SinceIsPast, Flights
  <1>10. request' \in [Requests -> Flights] /\ InFlight(r)'
    BY <1>1, <1>2, <1>6, <1>9, AfterSync DEF SyncLands
  <1>11. Types'
    BY <1>2, <1>3, <1>6, <1>10 DEF Inv, Types, SyncLands
  <1>12. \A q \in Requests \ {r} : request'[q] = request[q]
    BY <1>1 DEF Inv, Types
  <1>13. holder = None /\ executions' = executions /\ None \notin Requests
    BY SourcesAssumption DEF SyncLands
  <1> QED
    BY <1>6, <1>10, <1>11, <1>12, <1>13, OneMoves

LEMMA UploadKeepsInv ==
    ASSUME Inv, NEW r \in Requests, Upload(r)
    PROVE  Inv'
  <1> DEFINE brought == {[name |-> n, got |-> 0, loaded_at |-> clock + 1] : n \in Books}
             moved == [request[r] EXCEPT !.kind = "upload", !.stage = "done"]
  <1>1. IsFiniteSet(brought) /\ brought \subseteq LoadRows
    <2>1. IsFiniteSet(brought)
      <3> DEFINE load == [n \in Books |-> [name |-> n, got |-> 0, loaded_at |-> clock + 1]]
      <3>1. load \in Surjection(Books, brought)
        BY DEF Surjection
      <3> QED
        BY <3>1, FS_Surjection, SourcesAssumption
    <2>2. brought \subseteq LoadRows
      BY SourcesAssumption DEF Inv, Types, LoadRows, Names
    <2> QED
      BY <2>1, <2>2
  <1>2. loads' = loads \o SetToSeq(brought) /\ SetToSeq(brought) \in Seq(LoadRows)
    <2>1. SetToSeq(brought) \in Seq(brought)
      BY <1>1, SetInOrder
    <2>2. SetToSeq(brought) \in Seq(LoadRows)
      <3> HIDE DEF brought
      <3> QED BY <1>1, <2>1
    <2> QED
      BY <2>2 DEF Upload
  <1>3. LoadsKept
    <2> HIDE DEF brought
    <2> QED
    BY <1>2, LoadsOnTop DEF Inv
  <1>4. request[r] \in Flights /\ InFlight(r)
    BY DEF Inv, Types
  <1>5. request' = [request EXCEPT ![r] = moved] /\ request'[r] = moved
    BY DEF Inv, Types, Upload
  <1>6. moved \in Flights /\ moved.stage = "done" /\ moved.since = request[r].since
    BY <1>4 DEF Flights
  <1> HIDE DEF moved
  <1>7. Types'
    BY <1>3, <1>5, <1>6 DEF Inv, Types, Upload, LoadsKept
  <1>8. SinceIsPast(r)'
    BY <1>3, <1>4, <1>5, <1>6, StillPast DEF Inv, InFlight
  <1>9. InFlight(r)'
    BY <1>5, <1>6, <1>8 DEF InFlight, Syncing, OnlyRunsRead, EverySourceIsTried,
                            ShownIsCurrent, ReadsAsShown
  <1>10. holder = None /\ executions' = executions /\ None \notin Requests
    BY SourcesAssumption DEF Upload
  <1>11. \A q \in Requests \ {r} : request'[q] = request[q]
    BY <1>5 DEF Inv, Types
  <1> QED
    BY <1>3, <1>7, <1>9, <1>10, <1>11, OneMoves

LEMMA RunLocksKeepsInv ==
    ASSUME Inv, NEW r \in Requests, RunLocks(r)
    PROVE  Inv'
  <1> DEFINE view == [n \in Loaded \ Down(r) |-> Current(n)]
             moved == [request[r] EXCEPT !.stage = "capture", !.down = Down(r), !.marked = Marked,
                                         !.shown = view]
  <1>1. request[r] \in Flights /\ InFlight(r)
    BY DEF Inv, Types
  <1>2. request' = [request EXCEPT ![r] = moved] /\ request'[r] = moved
    BY DEF Inv, Types, RunLocks
  <1>3. view \in Views
    BY CurrentView DEF Inv, Types
  <1>4. Marked \subseteq Http /\ Down(r) \subseteq Names
    BY <1>1, SourcesAssumption DEF Marked, Down, Names, Flights
  <1>5. /\ moved \in Flights /\ moved.stage = "capture" /\ moved.down = Down(r) /\ moved.shown = view
        /\ moved.left = request[r].left /\ moved.since = request[r].since
        /\ moved.kind = request[r].kind /\ moved.failed = request[r].failed
    <2> HIDE DEF view
    <2> QED
      BY <1>1, <1>3, <1>4 DEF Flights
  <1> HIDE DEF moved
  <1>6. LoadsKept /\ Loaded' = Loaded /\ \A n : Current(n)' = Current(n)
    BY SameLoads DEF Inv, RunLocks
  <1>7. Types'
    BY <1>2, <1>5 DEF Inv, Types, RunLocks
  <1>8. SinceIsPast(r)'
    BY <1>1, <1>2, <1>5, <1>6, StillPast DEF Inv, InFlight
  <1>9. EverySourceIsTried(r)'
    BY <1>1, <1>2, <1>5 DEF InFlight, EverySourceIsTried, LoadedSince, RunLocks
  <1>10. ShownIsCurrent(r)'
    <2>1. Down(r)' = Down(r)
      BY <1>2, <1>5, <1>6 DEF Down
    <2>2. request'[r].shown = [n \in Loaded' \ Down(r)' |-> Current(n)']
      BY <1>2, <1>5, <1>6, <2>1
    <2> QED
      BY <1>2, <1>5, <2>1, <2>2 DEF ShownIsCurrent, RunLocks
  <1>11. InFlight(r)'
    BY <1>1, <1>2, <1>5, <1>8, <1>9, <1>10
    DEF InFlight, Syncing, OnlyRunsRead, ReadsAsShown, RunLocks
  <1>12. holder = None /\ executions' = executions /\ None \notin Requests
    BY SourcesAssumption DEF RunLocks
  <1>13. \A q \in Requests \ {r} : request'[q] = request[q]
    BY <1>2 DEF Inv, Types
  <1> QED
    BY <1>6, <1>7, <1>11, <1>12, <1>13, OneMoves

\* The second look at the loads finds the ones shown.
LEMMA CapturedIsShown ==
    ASSUME Inv, NEW r \in Requests, RunCaptures(r)
    PROVE  request' = [request EXCEPT ![r] = [@ EXCEPT !.stage = "commit",
                                                       !.reads = request[r].shown]]
  <1> DEFINE shown == request[r].shown
             kept == IF request[r].down = {} THEN Loaded ELSE
                     {n \in Loaded : n \in DOMAIN shown /\ Current(n) = shown[n]}
  <1>1. shown = [n \in Loaded \ request[r].down |-> Current(n)]
    BY DEF Inv, InFlight, ShownIsCurrent, RunCaptures
  <1>2. kept = Loaded \ request[r].down
    BY <1>1
  <1>3. [n \in kept |-> Current(n)] = shown
    <2> HIDE DEF kept, shown
    <2> QED BY <1>1, <1>2
  <1> QED
    BY <1>3 DEF RunCaptures

LEMMA RunCapturesKeepsInv ==
    ASSUME Inv, NEW r \in Requests, RunCaptures(r)
    PROVE  Inv'
  <1> DEFINE moved == [request[r] EXCEPT !.stage = "commit", !.reads = request[r].shown]
  <1>1. request[r] \in Flights /\ InFlight(r)
    BY DEF Inv, Types
  <1>2. request' = [request EXCEPT ![r] = moved] /\ request'[r] = moved
    BY CapturedIsShown DEF Inv, Types
  <1>3. /\ moved \in Flights /\ moved.stage = "commit" /\ moved.down = request[r].down
        /\ moved.shown = request[r].shown /\ moved.reads = request[r].shown
        /\ moved.left = request[r].left /\ moved.since = request[r].since
        /\ moved.kind = request[r].kind /\ moved.failed = request[r].failed
    BY <1>1 DEF Flights
  <1> HIDE DEF moved
  <1>4. LoadsKept /\ Loaded' = Loaded /\ \A n : Current(n)' = Current(n)
    BY SameLoads DEF Inv, RunCaptures
  <1>5. Types'
    BY <1>2, <1>3 DEF Inv, Types, RunCaptures
  <1>6. SinceIsPast(r)'
    BY <1>1, <1>2, <1>3, <1>4, StillPast DEF Inv, InFlight
  <1>7. EverySourceIsTried(r)'
    BY <1>1, <1>2, <1>3 DEF InFlight, EverySourceIsTried, LoadedSince, RunCaptures
  <1>8. ShownIsCurrent(r)'
    <2>1. Down(r)' = Down(r)
      BY <1>2, <1>3, <1>4 DEF Down
    <2>2. request'[r].shown = [n \in Loaded' \ Down(r)' |-> Current(n)']
      BY <1>1, <1>2, <1>3, <1>4, <2>1 DEF InFlight, ShownIsCurrent, RunCaptures
    <2> QED
      BY <1>1, <1>2, <1>3, <2>1, <2>2 DEF InFlight, ShownIsCurrent, RunCaptures
  <1>9. InFlight(r)'
    BY <1>1, <1>2, <1>3, <1>6, <1>7, <1>8
    DEF InFlight, Syncing, OnlyRunsRead, ReadsAsShown, RunCaptures
  <1>10. UNCHANGED <<loads, holder, executions>>
    BY DEF RunCaptures
  <1>11. \A q \in Requests \ {r} : request'[q] = request[q]
    BY <1>2 DEF Inv, Types
  <1> QED
    BY <1>4, <1>5, <1>9, <1>10, <1>11, OneMoves

\* What a run commits.
LEMMA ExecutedIsSound ==
    ASSUME Inv, NEW r \in Requests, request[r].stage = "commit"
    PROVE  Executed(r) \in ExecutionRows /\ Sound(Executed(r))
  <1> DEFINE e == Executed(r)
  <1>1. request[r] \in Flights /\ InFlight(r) /\ loads \in Seq(LoadRows)
    BY DEF Inv, Types
  <1>2. e \in ExecutionRows
    BY <1>1 DEF Executed, ExecutionRows, Flights
  <1>3. /\ e.since = request[r].since /\ e.failed = request[r].failed /\ e.down = Down(r)
        /\ e.shown = e.reads /\ e.reads = [n \in Loaded \ Down(r) |-> Current(n)]
    BY <1>1 DEF Executed, InFlight, ShownIsCurrent, ReadsAsShown
  <1> HIDE DEF e
  <1>4. Loaded \subseteq Names
    BY <1>1, LoadedAreNames
  <1>5. e.down \subseteq Names /\ e.failed \subseteq e.down /\ Names \ Loaded \subseteq e.down
    BY <1>1, <1>3, SourcesAssumption DEF Down, Flights, Names
  <1>6. ASSUME NEW n \in Live \intersect DOMAIN e.reads PROVE e.reads[n] > e.since
    <2>1. n \in Loaded /\ n \notin request[r].failed /\ e.reads[n] = Current(n)
      BY <1>3, <1>5
    <2>2. LoadedSince(r, n)
      BY <1>1, <2>1 DEF InFlight, OnlyRunsRead, EverySourceIsTried, ShownIsCurrent
    <2>3. PICK i \in DOMAIN loads : loads[i].name = n /\ i > request[r].since
      BY <2>2 DEF LoadedSince
    <2>4. i <= Current(n) /\ Current(n) \in DOMAIN loads
      BY <1>1, <2>1, <2>3, CurrentIsLatest
    <2>5. i \in Nat /\ Current(n) \in Nat /\ request[r].since \in Nat
      BY <1>1, <2>3, <2>4 DEF Flights
    <2> QED
      BY <1>3, <2>1, <2>3, <2>4, <2>5
  <1>7. Sound(e)
    BY <1>3, <1>4, <1>5, <1>6 DEF Sound
  <1> QED
    BY <1>2, <1>7 DEF e

\* A request that is over.
LEMMA Over ==
    ASSUME Inv, NEW r \in Requests, loads' = loads,
           request' = [request EXCEPT ![r] = [Idle EXCEPT !.kind = "run", !.stage = "done"]]
    PROVE  /\ request' \in [Requests -> Flights] /\ InFlight(r)'
           /\ \A q \in Requests \ {r} : request'[q] = request[q]
  <1> DEFINE moved == [Idle EXCEPT !.kind = "run", !.stage = "done"]
  <1>1. request \in [Requests -> Flights] /\ Len(loads) \in Nat
    BY DEF Inv, Types
  <1>2. moved \in Flights
    BY IdleType DEF Flights
  <1>3. moved.stage = "done" /\ moved.since = 0
    BY DEF Idle
  <1>4. request' = [request EXCEPT ![r] = moved] /\ request'[r] = moved
    BY <1>1
  <1> HIDE DEF moved
  <1>5. SinceIsPast(r)'
    <2>1. request'[r].since = 0
      BY <1>3, <1>4, Zenon
    <2>2. 0 <= Len(loads')
      BY <1>1
    <2> QED
      BY <2>1, <2>2, Zenon DEF SinceIsPast
  <1>6. InFlight(r)'
    BY <1>3, <1>4, <1>5 DEF InFlight, Syncing, OnlyRunsRead, EverySourceIsTried,
                            ShownIsCurrent, ReadsAsShown
  <1> QED
    BY <1>1, <1>2, <1>4, <1>6

LEMMA RunCommitsKeepsInv ==
    ASSUME Inv, NEW r \in Requests, RunCommits(r)
    PROVE  Inv'
  <1>1. Executed(r) \in ExecutionRows /\ Sound(Executed(r))
    BY ExecutedIsSound DEF RunCommits
  <1>2. holder = r
    BY DEF Inv, InFlight, ShownIsCurrent, RunCommits
  <1>3. /\ request' \in [Requests -> Flights] /\ InFlight(r)'
        /\ \A q \in Requests \ {r} : request'[q] = request[q]
    BY Over DEF RunCommits
  <1>4. Types'
    BY <1>1, <1>3 DEF Inv, Types, RunCommits
  <1>5. LoadsKept
    BY SameLoads DEF Inv, RunCommits
  <1>6. \A e \in executions' : e \in executions \/ Sound(e)
    BY <1>1 DEF RunCommits
  <1> QED
    BY <1>2, <1>3, <1>4, <1>5, <1>6, OneMoves

LEMMA RunFailsKeepsInv ==
    ASSUME Inv, NEW r \in Requests, RunFails(r)
    PROVE  Inv'
  <1>1. holder = r
    BY DEF Inv, InFlight, ShownIsCurrent, RunFails
  <1>2. /\ request' \in [Requests -> Flights] /\ InFlight(r)'
        /\ \A q \in Requests \ {r} : request'[q] = request[q]
    BY Over DEF RunFails
  <1>3. Types'
    BY <1>2 DEF Inv, Types, RunFails
  <1>4. LoadsKept /\ executions' = executions
    BY SameLoads DEF Inv, RunFails
  <1> QED
    BY <1>1, <1>2, <1>3, <1>4, OneMoves

LEMMA NextKeepsInv == Inv /\ [Next]_vars => Inv'
  <1> SUFFICES ASSUME Inv, [Next]_vars PROVE Inv'
    OBVIOUS
  <1>1. ASSUME NEW n \in Http, RemoteChanges(n) PROVE Inv'
    BY <1>1, RemoteChangesKeepsInv
  <1>2. ASSUME NEW r \in Requests, Starts(r) PROVE Inv'
    BY <1>2, StartSyncKeepsInv, StartRunKeepsInv, UploadKeepsInv DEF Starts
  <1>3. ASSUME NEW r \in Requests, Steps(r) PROVE Inv'
    BY <1>3, NextSyncKeepsInv, DownloadKeepsInv, SyncFailsKeepsInv, SyncLandsKeepsInv,
       RunLocksKeepsInv, RunCapturesKeepsInv, RunCommitsKeepsInv, RunFailsKeepsInv DEF Steps
  <1>4. CASE UNCHANGED vars
    <2>1. Types' /\ LoadsKept
      BY <1>4, SameLoads DEF Inv, Types, vars
    <2>2. \A r \in Requests : InFlight(r)'
      BY <1>4, <2>1, OthersInFlight DEF Inv, vars
    <2>3. (\A e \in executions : Sound(e))'
      BY <1>4 DEF Inv, Sound, vars
    <2> QED
      BY <2>1, <2>2, <2>3 DEF Inv
  <1> QED
    BY <1>1, <1>2, <1>3, <1>4 DEF Next

-----------------------------------------------------------------------------
(***************************************************************************)
(* The theorems                                                            *)
(***************************************************************************)

LEMMA Invariant == Spec => []Inv
  BY Initially, NextKeepsInv, PTL DEF Spec

LEMMA ExecutionTypes ==
    ASSUME Inv, NEW e \in executions
    PROVE  e.down \subseteq Names /\ DOMAIN e.reads \subseteq Names
  BY DEF Inv, Types, ExecutionRows, Sound

\* Whatever other requests sync, upload or run meanwhile, and whenever a remote changes or
\* fails, a run reads of a live source a load that landed since it began, reads no source
\* whose sync failed for it, and names as down every source that it does not read
\* (sources/service.py, decisions/service.py _inputs).
THEOREM RunsReadTheirTime == Spec => []ReadsAreAccountedFor
  <1>1. Inv => TypeOK
    <2> SUFFICES ASSUME Inv PROVE TypeOK
      OBVIOUS
    <2>1. \A r \in Requests : request[r] \in Flights
      BY DEF Inv, Types
    <2> QED
      BY <2>1, ExecutionTypes DEF Inv, Types, TypeOK, Flights
  <1>2. Inv => ReadsLoadedSince /\ FailedIsNotRead /\ ReadOrDown
    BY DEF Inv, Sound, ReadsLoadedSince, FailedIsNotRead, ReadOrDown
  <1> QED
    BY <1>1, <1>2, Invariant, PTL DEF ReadsAreAccountedFor

\* The two looks at the loads that a run takes under the lock of the process agree, though
\* the second asks the database again: no sync and no upload lands between them
\* (decisions/service.py _inputs, versions/execution.py).
THEOREM ReviewerSeesWhatIsRead == Spec => []ReviewedAsRead
  <1>1. Inv => ReviewedAsRead
    BY DEF Inv, Sound, ReviewedAsRead
  <1> QED
    BY <1>1, Invariant, PTL

-----------------------------------------------------------------------------
(***************************************************************************)
(* A download                                                              *)
(***************************************************************************)

\* The instance has the operators of FiniteSets under names of its own.
LEMMA SameFiniteSets ==
    \A S : Fetch!IsFiniteSet(S) = IsFiniteSet(S) /\ Fetch!Cardinality(S) = Cardinality(S)
  <1>1. \A S : Fetch!IsFiniteSet(S) = IsFiniteSet(S)
    BY DEF IsFiniteSet, Fetch!IsFiniteSet
  <1>2. \A S : Fetch!Cardinality(S) = Cardinality(S)
    BY DEF Cardinality, Fetch!Cardinality
  <1> QED
    BY <1>1, <1>2

\* There are at most as many pages as records.
LEMMA PagesOfRecords ==
    ASSUME NEW n \in Nat
    PROVE  Fetch!Ceiling(n) \in 0 .. n
  <1>1. PageSize \in Nat /\ PageSize >= 1
    BY PartsAssumption DEF Fetch!ConnectorAssumption
  <1> DEFINE p == (n + PageSize - 1) \div PageSize
  <1>2. p \in Int /\ p * PageSize <= n + PageSize - 1 /\ n + PageSize - 1 < (p + 1) * PageSize
    BY <1>1
  <1> HIDE DEF p
  <1>3. p >= 0
    BY <1>1, <1>2
  <1>4. p <= n
    <2> SUFFICES ASSUME p >= n + 1 PROVE FALSE
      BY <1>2
    <2>1. p * PageSize >= (n + 1) * PageSize
      BY <1>1, <1>2
    <2>2. n * PageSize >= n
      BY <1>1
    <2> QED
      BY <1>1, <1>2, <2>1, <2>2
  <1> QED
    BY <1>2, <1>3, <1>4 DEF p, Fetch!Ceiling

LEMMA KeysAreFinite ==
    ASSUME NEW S \in SUBSET Keys
    PROVE  IsFiniteSet(S) /\ Cardinality(S) \in 0 .. Cardinality(Keys)
  <1>1. IsFiniteSet(Keys)
    BY PartsAssumption, SameFiniteSets DEF Fetch!ConnectorAssumption
  <1>2. IsFiniteSet(S) /\ Cardinality(S) <= Cardinality(Keys)
    BY <1>1, FS_Subset
  <1> QED
    BY <1>1, <1>2, FS_CardinalityType

\* As long as the download goes on.
UnderWay == at \in {"status", "page", "login", "send"}

InRange ==
    /\ at = "send" => uses >= 1
    /\ page = 1 => rows = {}
    /\ UnderWay => page <= Cardinality(Keys) + 1
    /\ at = "status" => page = 1

\* From the first page on, the source holds what that page reported, or is known to
\* have changed in the one direction that the count of a later page would show.
SameSource ==
    page > 1 /\ at # "failed" =>
        /\ kinds = {} => /\ source = lasting /\ rows \subseteq source
                         /\ Cardinality(source) = first.total
        /\ kinds = {"added"} => Cardinality(source) > first.total
        /\ kinds = {"removed"} => Cardinality(source) < first.total

Counted ==
    at = "done" => /\ page > 1
                   /\ Cardinality(source) = first.total
                   /\ Cardinality(rows) = first.total

FetchInv == Fetch!TypeOK /\ InRange /\ SameSource /\ Counted

LEMMA FetchInitially == Fetch!Init => FetchInv
  <1> SUFFICES ASSUME Fetch!Init PROVE FetchInv
    OBVIOUS
  <1>1. Cardinality(Keys) \in Nat
    BY KeysAreFinite
  <1>2. /\ 1 \in 1 .. MaxAttempts /\ 0 \in 0 .. MaxUses /\ 0 \in 0 .. MaxChanges
        /\ 1 \in 1 .. Cardinality(Keys) + 2
        /\ [total |-> 0, pages |-> 0] \in Fetch!Reported
    BY <1>1, PartsAssumption, SameFiniteSets DEF Fetch!ConnectorAssumption, Fetch!Reported
  <1>3. at \in {"status", "page"}
    BY DEF Fetch!Init
  <1>4. Fetch!TypeOK
    BY <1>2, <1>3, SameFiniteSets DEF Fetch!Init, Fetch!TypeOK
  <1> QED
    BY <1>1, <1>4 DEF Fetch!Init, FetchInv, InRange, SameSource, Counted, UnderWay

\* The steps that read no page and leave the source alone.
LEMMA RequestsKeepFetchInv ==
    ASSUME FetchInv, UNCHANGED <<source, lasting, kinds, changes, page, first, rows>>,
           UnderWay, at' \in {"status", "page", "login", "send", "failed"}, at' = "status" => at = "status",
           attempt' \in 1 .. MaxAttempts, waiting' \in 1 .. MaxAttempts,
           uses' \in 0 .. MaxUses, at' = "send" => uses' >= 1,
           granted' \in Nat, revoked' \in BOOLEAN
    PROVE  FetchInv'
  <1>1. Fetch!TypeOK'
    BY DEF FetchInv, Fetch!TypeOK, Fetch!Reported
  <1>2. InRange' /\ Counted'
    BY DEF FetchInv, InRange, Counted, UnderWay
  <1>3. SameSource'
    BY DEF FetchInv, SameSource, UnderWay
  <1> QED
    BY <1>1, <1>2, <1>3 DEF FetchInv

LEMMA StepKeepsFetchInv ==
    ASSUME FetchInv, Fetch!Step, ~ Fetch!PageRead
    PROVE  FetchInv'
  <1>1. /\ attempt \in 1 .. MaxAttempts /\ waiting \in 1 .. MaxAttempts
        /\ uses \in 0 .. MaxUses /\ granted \in Nat /\ revoked \in BOOLEAN
        /\ at = "send" => uses >= 1
    BY DEF FetchInv, Fetch!TypeOK, InRange
  <1>2. /\ MaxAttempts \in Nat \ {0} /\ MaxUses \in Nat \ {0} /\ Margin \in 0 .. MaxUses - 1
        /\ Grants \subseteq Nat \ {0} /\ 1 \in 1 .. MaxAttempts
    BY PartsAssumption DEF Fetch!ConnectorAssumption
  <1>3. CASE Fetch!HealthRead
    BY <1>1, <1>2, <1>3, RequestsKeepFetchInv
    DEF Fetch!HealthRead, Fetch!server, Fetch!download, UnderWay
  <1>4. CASE Fetch!EnsureToken
    <2>1. UNCHANGED <<source, granted, revoked, lasting, kinds, changes, page, first, rows, uses>>
      BY <1>4 DEF Fetch!EnsureToken, Fetch!server, Fetch!download
    <2>2. CASE uses > Margin
      BY <1>1, <1>2, <1>4, <2>1, <2>2, RequestsKeepFetchInv DEF Fetch!EnsureToken, UnderWay
    <2>3. CASE ~ (uses > Margin)
      BY <1>1, <1>2, <1>4, <2>1, <2>3, RequestsKeepFetchInv DEF Fetch!EnsureToken, UnderWay
    <2> QED
      BY <2>2, <2>3
  <1>5. CASE Fetch!LoggedIn
    <2>1. PICK g \in Grants : granted' = g /\ uses' = Fetch!CountOn(g)
      BY <1>5 DEF Fetch!LoggedIn
    <2>2. granted' \in Nat /\ uses' \in 0 .. MaxUses /\ uses' >= 1
      BY <1>2, <2>1 DEF Fetch!CountOn
    <2> QED
      BY <1>1, <1>2, <1>5, <2>2, RequestsKeepFetchInv DEF Fetch!LoggedIn, Fetch!download, UnderWay
  <1>6. Fetch!Retries => /\ attempt' \in 1 .. MaxAttempts
                         /\ at' \in {at, "page", "failed"} /\ at' # "send"
    BY <1>1, <1>2 DEF Fetch!Retries, Fetch!Fail, FetchInv, Fetch!TypeOK
  <1>7. CASE Fetch!OpenRequestFails
    BY <1>1, <1>6, <1>7, RequestsKeepFetchInv
    DEF Fetch!OpenRequestFails, Fetch!server, Fetch!download, UnderWay
  <1>8. CASE Fetch!Rejected
    BY <1>1, <1>2, <1>8, RequestsKeepFetchInv
    DEF Fetch!Rejected, Fetch!Fail, Fetch!server, Fetch!download, UnderWay
  <1>9. Fetch!Spend /\ at = "send" => uses' \in 0 .. MaxUses /\ granted' \in Nat
    BY <1>1, <1>2 DEF Fetch!Spend
  <1>10. CASE Fetch!PageFails
    BY <1>1, <1>6, <1>9, <1>10, RequestsKeepFetchInv
    DEF Fetch!PageFails, Fetch!download, UnderWay
  <1>11. CASE Fetch!PageRejected
    BY <1>1, <1>2, <1>9, <1>11, RequestsKeepFetchInv
    DEF Fetch!PageRejected, Fetch!Fail, Fetch!download, UnderWay
  <1>12. CASE Fetch!TokenRefused
    BY <1>1, <1>2, <1>6, <1>12, RequestsKeepFetchInv
    DEF Fetch!TokenRefused, Fetch!server, Fetch!download, UnderWay
  <1> QED
    BY <1>3, <1>4, <1>5, <1>7, <1>8, <1>10, <1>11, <1>12 DEF Fetch!Step

\* A page: where the source is the one of the first page, so are its records.
LEMMA PageReadKeepsFetchInv ==
    ASSUME FetchInv, Fetch!PageRead
    PROVE  FetchInv'
  <1> DEFINE report == IF page = 1 THEN Fetch!Report ELSE first
             taken == rows \union Fetch!RecordsOf(page)
  <1>1. /\ source \in SUBSET Keys /\ rows \in SUBSET Keys /\ lasting \subseteq source
        /\ page \in 1 .. Cardinality(Keys) + 1 /\ at = "send" /\ uses \in 1 .. MaxUses
        /\ granted \in Nat /\ first \in Fetch!Reported /\ Cardinality(Keys) \in Nat
    BY SameFiniteSets, KeysAreFinite
    DEF FetchInv, Fetch!TypeOK, InRange, UnderWay, Fetch!PageRead
  <1>2. Fetch!RecordsOf(page) \subseteq source
    BY DEF Fetch!RecordsOf
  <1>3. taken \in SUBSET Keys /\ Cardinality(source) \in 0 .. Cardinality(Keys)
    BY <1>1, <1>2, KeysAreFinite
  <1>4. Fetch!Report \in Fetch!Reported /\ Fetch!Report.total = Cardinality(source)
    BY <1>1, <1>3, PagesOfRecords, SameFiniteSets DEF Fetch!Report, Fetch!Reported
  <1>5. report \in Fetch!Reported
    BY <1>1, <1>4
  <1>6. /\ first' = report /\ rows' = taken /\ page' = page + 1
        /\ at' = Fetch!End(report, taken) /\ source' = source
        /\ lasting' = IF page = 1 THEN source ELSE lasting
        /\ kinds' = IF page = 1 THEN {} ELSE kinds
        /\ attempt' = 1 /\ waiting' = waiting /\ revoked' = revoked /\ changes' = changes
        /\ uses' = uses - 1 /\ granted' = IF granted > 0 THEN granted - 1 ELSE 0
    BY DEF Fetch!PageRead, Fetch!Spend
  <1>7. /\ at' \in {"page", "done", "failed"}
        /\ at' # "failed" => page = 1 \/ Fetch!Report = first
        /\ at' = "page" => page < report.pages
        /\ at' = "done" => Cardinality(taken) = report.total
    BY <1>1, <1>6, SameFiniteSets DEF Fetch!End
  <1> HIDE DEF report, taken
  <1>8. report.pages \in 0 .. Cardinality(Keys)
    BY <1>5, SameFiniteSets DEF Fetch!Reported
  <1>9. Fetch!TypeOK'
    <2>1. /\ uses' \in 0 .. MaxUses /\ granted' \in Nat /\ page' \in 1 .. Cardinality(Keys) + 2
          /\ attempt' \in 1 .. MaxAttempts
      BY <1>1, <1>6, PartsAssumption DEF Fetch!ConnectorAssumption
    <2>2. waiting' \in 1 .. MaxAttempts /\ revoked' \in BOOLEAN /\ changes' \in 0 .. MaxChanges
          /\ kinds' \subseteq {"added", "removed"}
      BY <1>6 DEF FetchInv, Fetch!TypeOK
    <2>3. source' \subseteq Keys /\ rows' \subseteq Keys /\ lasting' \subseteq source'
          /\ first' \in Fetch!Reported
      BY <1>1, <1>3, <1>5, <1>6
    <2> QED
      BY <1>7, <2>1, <2>2, <2>3, SameFiniteSets DEF Fetch!TypeOK, Fetch!Reported
  <1>10. InRange'
    BY <1>1, <1>6, <1>7, <1>8 DEF InRange, UnderWay
  <1>11. at' # "failed" => report.total = Cardinality(source)
    BY <1>4, <1>7 DEF report
  <1>12. SameSource'
    <2>1. CASE page = 1
      <3>1. rows = {}
        BY <2>1 DEF FetchInv, InRange
      <3> QED
        BY <1>2, <1>6, <1>11, <2>1, <3>1 DEF SameSource, taken
    <2>2. CASE page # 1
      <3>1. page > 1 /\ at # "failed"
        BY <1>1, <2>2
      <3>2. report = first
        BY <2>2 DEF report
      <3> QED
        BY <1>1, <1>2, <1>6, <1>11, <2>2, <3>1, <3>2 DEF FetchInv, SameSource, taken
    <2> QED
      BY <2>1, <2>2
  <1>13. Counted'
    BY <1>1, <1>6, <1>7, <1>11 DEF Counted
  <1> QED
    BY <1>9, <1>10, <1>12, <1>13 DEF FetchInv

LEMMA ServerKeepsFetchInv ==
    ASSUME FetchInv, Fetch!RecordAdded \/ Fetch!RecordRemoved \/ Fetch!TokenRevoked
    PROVE  FetchInv'
  <1>1. /\ source \in SUBSET Keys /\ IsFiniteSet(source) /\ Cardinality(source) \in Nat
        /\ first.total \in Nat /\ changes \in Nat /\ MaxChanges \in Nat
    BY KeysAreFinite, SameFiniteSets, PartsAssumption
    DEF FetchInv, Fetch!TypeOK, Fetch!Reported, Fetch!ConnectorAssumption
  <1>2. ASSUME NEW k \in Keys \ source, Fetch!SourceIs(source \union {k}, "added")
        PROVE  FetchInv'
    <2>1. Cardinality(source') = Cardinality(source) + 1
      BY <1>1, <1>2, FS_AddElement DEF Fetch!SourceIs
    <2>2. Fetch!TypeOK'
      BY <1>1, <1>2 DEF FetchInv, Fetch!TypeOK, Fetch!SourceIs, Fetch!download, Fetch!Reported
    <2>3. InRange' /\ Counted'
      BY <1>2 DEF FetchInv, InRange, Counted, UnderWay, Fetch!SourceIs, Fetch!download
    <2>4. SameSource'
      BY <1>1, <1>2, <2>1 DEF FetchInv, SameSource, Fetch!SourceIs, Fetch!download, Fetch!TypeOK
    <2> QED
      BY <2>2, <2>3, <2>4 DEF FetchInv
  <1>3. ASSUME NEW k \in source, Fetch!SourceIs(source \ {k}, "removed")
        PROVE  FetchInv'
    <2>1. Cardinality(source') = Cardinality(source) - 1
      BY <1>1, <1>3, FS_RemoveElement DEF Fetch!SourceIs
    <2>2. Fetch!TypeOK'
      BY <1>1, <1>3 DEF FetchInv, Fetch!TypeOK, Fetch!SourceIs, Fetch!download, Fetch!Reported
    <2>3. InRange' /\ Counted'
      BY <1>3 DEF FetchInv, InRange, Counted, UnderWay, Fetch!SourceIs, Fetch!download
    <2>4. SameSource'
      BY <1>1, <1>3, <2>1 DEF FetchInv, SameSource, Fetch!SourceIs, Fetch!download, Fetch!TypeOK
    <2> QED
      BY <2>2, <2>3, <2>4 DEF FetchInv
  <1>4. CASE Fetch!TokenRevoked
    <2>1. Fetch!TypeOK'
      BY <1>1, <1>4 DEF FetchInv, Fetch!TypeOK, Fetch!TokenRevoked, Fetch!download, Fetch!Reported
    <2>2. InRange' /\ Counted' /\ SameSource'
      BY <1>4 DEF FetchInv, InRange, Counted, SameSource, UnderWay, Fetch!TokenRevoked, Fetch!download
    <2> QED
      BY <2>1, <2>2 DEF FetchInv
  <1> QED
    BY <1>2, <1>3, <1>4 DEF Fetch!RecordAdded, Fetch!RecordRemoved

LEMMA NextKeepsFetchInv == FetchInv /\ [Fetch!Next]_(Fetch!vars) => FetchInv'
  <1> SUFFICES ASSUME FetchInv, [Fetch!Next]_(Fetch!vars) PROVE FetchInv'
    OBVIOUS
  <1>1. CASE UNCHANGED Fetch!vars
    BY <1>1 DEF Fetch!vars, Fetch!server, Fetch!download, FetchInv, Fetch!TypeOK, Fetch!Reported,
                InRange, SameSource, Counted, UnderWay
  <1> QED
    BY <1>1, StepKeepsFetchInv, PageReadKeepsFetchInv, ServerKeepsFetchInv DEF Fetch!Next

\* A whole download: equal counts, of rows that are all records of the source.
LEMMA WholeByCount == FetchInv => Fetch!DownloadIsWhole
  <1> SUFFICES ASSUME FetchInv, at = "done", kinds # {"added", "removed"}
               PROVE  lasting \subseteq rows
    BY DEF FetchInv, Fetch!DownloadIsWhole, Fetch!OneWayIsWhole
  <1>1. /\ source \in SUBSET Keys /\ kinds \subseteq {"added", "removed"} /\ lasting \subseteq source
        /\ first.total \in Nat
    BY DEF FetchInv, Fetch!TypeOK, Fetch!Reported
  <1>2. page > 1 /\ Cardinality(source) = first.total /\ Cardinality(rows) = first.total
    BY DEF FetchInv, Counted
  <1>3. kinds = {} \/ kinds = {"added"} \/ kinds = {"removed"}
    BY <1>1
  <1>4. kinds = {} /\ rows \subseteq source
    BY <1>1, <1>2, <1>3 DEF FetchInv, SameSource
  <1>5. rows = source
    BY <1>1, <1>2, <1>4, KeysAreFinite, FS_Subset
  <1> QED
    BY <1>1, <1>5

\* Whatever the source and the server do meanwhile, a download that succeeds has every
\* record that was there from its first page to its end, unless the source both grew and
\* shrank (sources/http_connector.py, _all_pages).
THEOREM DownloadsAreWhole == Fetch!Spec => []Fetch!DownloadIsWhole
  BY FetchInitially, NextKeepsFetchInv, WholeByCount, PTL DEF Fetch!Spec

\* The same of the downloads beside the tables, as the run checks it.
THEOREM DownloadsOfTheRun == MCSpec => []DownloadIsWhole
  <1> DEFINE DownloadInv == part = "download" => FetchInv
  <1>1. MCInit => DownloadInv
    BY FetchInitially DEF MCInit
  <1>2. DownloadInv /\ [MCNext]_<<part, vars, fetch, stale, excel>> => DownloadInv'
    <2> SUFFICES ASSUME DownloadInv, [MCNext]_<<part, vars, fetch, stale, excel>>,
                        part' = "download"
                 PROVE  FetchInv'
      OBVIOUS
    <2>1. part = "download" /\ (Fetch!Next \/ UNCHANGED fetch)
      BY DEF MCNext
    <2>2. UNCHANGED fetch => UNCHANGED Fetch!vars
      BY DEF fetch, Fetch!vars, Fetch!server, Fetch!download
    <2> QED
      BY <2>1, <2>2, NextKeepsFetchInv
  <1>3. DownloadInv => DownloadIsWhole
    BY WholeByCount DEF DownloadIsWhole
  <1> QED
    BY <1>1, <1>2, <1>3, PTL DEF MCSpec

-----------------------------------------------------------------------------
(***************************************************************************)
(* The alerts                                                              *)
(***************************************************************************)

Flipped == [before : Outcomes, after : Outcomes]

\* A detection: what it found of some of the cases.
Detections ==
    [stage : {"idle", "compare", "dry", "latest", "insert"},
     trigger : {"none", "source_sync", "rule_change"},
     flips : UNION {[S -> Flipped] : S \in SUBSET Cases},
     latest : UNION {[S -> 1 .. MaxDecisions] : S \in SUBSET Cases}]

AlertTypes ==
    /\ version \in 1 .. MaxVersions
    /\ landed \in Seq(Rows) /\ Len(landed) \in 1 .. MaxLoads
    /\ DOMAIN history = Cases
    /\ \A c \in Cases : history[c] \in Seq(Stale!DecisionRows) /\ Len(history[c]) \in 1 .. MaxDecisions
    /\ alerts \subseteq Stale!AlertRows
    /\ detection \in [Detectors -> Detections]
    /\ lost \in BOOLEAN

\* A detection compares or blames loads when there are two; one that flags has the
\* decisions of what it found.
Sensible(r) ==
    /\ detection[r].stage = "compare" \/ detection[r].trigger = "source_sync" => Len(landed) >= 2
    /\ detection[r].stage # "idle" => detection[r].trigger # "none"
    /\ detection[r].stage = "insert" => DOMAIN detection[r].latest = DOMAIN detection[r].flips

\* The stale decisions that a change of the rules, or one change of the rows, has overtaken.
Watched(c) ==
    /\ Stale!Stale(c)
    /\ \/ Len(landed) = 1
       \/ Len(landed) = 2 /\ Stale!Last(history[c]).decision # Default

\* A detection under way that will flag the case.
Finds(r, c) ==
    \/ detection[r].stage = "compare" /\ landed[1] # landed[2]
    \/ detection[r].stage = "dry"
    \/ /\ detection[r].stage \in {"latest", "insert"}
       /\ c \in DOMAIN detection[r].flips /\ detection[r].flips[c].after = Stale!Verdict(c)
       /\ detection[r].stage = "insert" => detection[r].latest[c] = Len(history[c])

Covered(c) ==
    Watched(c) => lost \/ Stale!Flagged(c) \/ \E r \in Detectors : Finds(r, c)

StaleInv ==
    /\ AlertTypes
    /\ \A r \in Detectors : Sensible(r)
    /\ \A c \in Cases : Covered(c)

LEMMA VerdictType ==
    ASSUME AlertTypes, NEW c \in Cases
    PROVE  Stale!Verdict(c) \in Outcomes
  <1>1. Verdicts \in [Cases -> [Rows -> [1 .. MaxVersions -> Outcomes]]]
    BY PartsAssumption DEF Stale!AlertsAssumption
  <1>2. landed[Len(landed)] \in Rows
    BY DEF AlertTypes
  <1>3. Verdicts[c][landed[Len(landed)]] \in [1 .. MaxVersions -> Outcomes]
    BY <1>1, <1>2
  <1>4. Verdicts[c][landed[Len(landed)]][version] \in Outcomes
    BY <1>3 DEF AlertTypes
  <1> QED
    BY <1>4 DEF Stale!Verdict, Stale!Last

LEMMA LastDecision ==
    ASSUME AlertTypes, NEW c \in Cases
    PROVE  /\ Stale!Last(history[c]) \in Stale!DecisionRows
           /\ Stale!Last(history[c]).decision \in Outcomes
  <1>1. Stale!Last(history[c]) \in Stale!DecisionRows
    BY DEF AlertTypes, Stale!Last
  <1> QED
    BY <1>1 DEF Stale!DecisionRows

LEMMA NoDetectionType ==
    ASSUME NEW stage \in {"idle", "compare", "dry"}, NEW trigger \in {"none", "source_sync", "rule_change"}
    PROVE  /\ Stale!NoDetection \in Detections
           /\ [Stale!NoDetection EXCEPT !.stage = stage, !.trigger = trigger] \in Detections
  <1>1. << >> \in [{} -> Flipped] /\ << >> \in [{} -> 1 .. MaxDecisions]
    OBVIOUS
  <1>2. /\ << >> \in UNION {[S -> Flipped] : S \in SUBSET Cases}
        /\ << >> \in UNION {[S -> 1 .. MaxDecisions] : S \in SUBSET Cases}
    BY <1>1
  <1> QED
    BY <1>2 DEF Detections, Stale!NoDetection

LEMMA StaleInitially == Stale!Init => StaleInv
  <1> SUFFICES ASSUME Stale!Init PROVE StaleInv
    OBVIOUS
  <1>1. /\ {MaxVersions, MaxLoads, MaxDecisions} \subseteq Nat \ {0}
        /\ Verdicts \in [Cases -> [Rows -> [1 .. MaxVersions -> Outcomes]]]
    BY PartsAssumption DEF Stale!AlertsAssumption
  <1>2. PICK seen_rows \in Rows :
          /\ landed = <<seen_rows>>
          /\ history = [c \in Cases |-> <<[decision |-> Verdicts[c][seen_rows][1], author |-> "engine",
                                           verdict |-> Verdicts[c][seen_rows][1]]>>]
    BY DEF Stale!Init
  <1>3. Len(landed) = 1 /\ landed \in Seq(Rows) /\ Len(landed) \in 1 .. MaxLoads
    BY <1>1, <1>2
  <1>4. ASSUME NEW c \in Cases
        PROVE  /\ history[c] \in Seq(Stale!DecisionRows) /\ Len(history[c]) \in 1 .. MaxDecisions
               /\ ~ Stale!Stale(c)
    <2> DEFINE v == Verdicts[c][seen_rows][1]
               row == [decision |-> v, author |-> "engine", verdict |-> v]
    <2>1. v \in Outcomes
      BY <1>1
    <2>2. row \in Stale!DecisionRows
      BY <2>1 DEF Stale!DecisionRows
    <2>3. history[c] = <<row>>
      BY <1>2
    <2>4. Stale!Verdict(c) = v
      BY <1>2, <1>3 DEF Stale!Verdict, Stale!Last, Stale!Init
    <2>5. Stale!Last(history[c]).decision = v
      BY <2>3 DEF Stale!Last
    <2> HIDE DEF v
    <2> QED
      BY <1>1, <2>2, <2>3, <2>4, <2>5 DEF Stale!Stale
  <1>5. detection \in [Detectors -> Detections]
    <2>1. Stale!NoDetection \in Detections
      BY NoDetectionType
    <2> QED
      BY <2>1 DEF Stale!Init
  <1>6. AlertTypes
    <2>1. version \in 1 .. MaxVersions /\ DOMAIN history = Cases /\ alerts = {} /\ lost = FALSE
      BY <1>1, <1>2 DEF Stale!Init
    <2> QED
      BY <1>3, <1>4, <1>5, <2>1 DEF AlertTypes
  <1>7. \A r \in Detectors : Sensible(r)
    BY DEF Sensible, Stale!Init, Stale!NoDetection
  <1>8. \A c \in Cases : Covered(c)
    BY <1>4 DEF Covered, Watched
  <1> QED
    BY <1>6, <1>7, <1>8 DEF StaleInv

LEMMA SameCase ==
    ASSUME NEW c, history'[c] = history[c], UNCHANGED <<version, landed>>
    PROVE  /\ Stale!Verdict(c)' = Stale!Verdict(c)
           /\ Watched(c)' <=> Watched(c)
           /\ \A r : detection'[r] = detection[r] => (Finds(r, c)' <=> Finds(r, c))
  <1>1. Stale!Verdict(c)' = Stale!Verdict(c)
    BY DEF Stale!Verdict, Stale!Last
  <1> QED
    BY <1>1 DEF Watched, Stale!Stale, Stale!Last, Finds

LEMMA DetectionType ==
    ASSUME AlertTypes, NEW r \in Detectors
    PROVE  /\ detection[r] \in Detections
           /\ DOMAIN detection[r].flips \subseteq Cases
           /\ \A c \in DOMAIN detection[r].flips : detection[r].flips[c] \in Flipped
           /\ \A c \in DOMAIN detection[r].latest : detection[r].latest[c] \in 1 .. MaxDecisions
  <1>1. detection[r] \in Detections
    BY DEF AlertTypes
  <1>2. /\ detection[r].flips \in UNION {[S -> Flipped] : S \in SUBSET Cases}
        /\ detection[r].latest \in UNION {[S -> 1 .. MaxDecisions] : S \in SUBSET Cases}
    BY <1>1 DEF Detections
  <1>3. PICK S \in SUBSET Cases : detection[r].flips \in [S -> Flipped]
    BY <1>2
  <1>4. PICK T \in SUBSET Cases : detection[r].latest \in [T -> 1 .. MaxDecisions]
    BY <1>2
  <1> QED
    BY <1>1, <1>3, <1>4

\* A step of one detection, which passes on or stores what it has found.
LEMMA DetectionMoves ==
    ASSUME StaleInv, NEW r \in Detectors, UNCHANGED <<version, landed, history>>,
           detection' \in [Detectors -> Detections], alerts' \subseteq Stale!AlertRows,
           alerts \subseteq alerts', lost' \in BOOLEAN,
           \A q \in Detectors \ {r} : detection'[q] = detection[q], Sensible(r)',
           \A c \in Cases : Watched(c) /\ (lost \/ Finds(r, c)) =>
               lost' \/ Stale!Flagged(c)' \/ Finds(r, c)'
    PROVE  StaleInv'
  <1>1. AlertTypes'
    BY DEF StaleInv, AlertTypes
  <1>2. ASSUME NEW q \in Detectors PROVE Sensible(q)'
    <2>1. CASE q = r
      BY <2>1
    <2>2. CASE q # r
      BY <2>2 DEF StaleInv, Sensible
    <2> QED
      BY <2>1, <2>2
  <1>3. ASSUME NEW c \in Cases, Watched(c)'
        PROVE  lost' \/ Stale!Flagged(c)' \/ \E q \in Detectors : Finds(q, c)'
    <2>1. Watched(c) /\ Stale!Verdict(c)' = Stale!Verdict(c)
      BY <1>3, SameCase
    <2>2. CASE lost
      BY <2>1, <2>2
    <2>3. CASE Stale!Flagged(c)
      BY <2>1, <2>3 DEF Stale!Flagged
    <2>4. ASSUME NEW q \in Detectors, Finds(q, c)
          PROVE  lost' \/ Stale!Flagged(c)' \/ \E p \in Detectors : Finds(p, c)'
      <3>1. CASE q = r
        BY <2>1, <2>4, <3>1
      <3>2. CASE q # r
        BY <2>4, <3>2, SameCase
      <3> QED
        BY <3>1, <3>2
    <2> QED
      BY <2>1, <2>2, <2>3, <2>4 DEF StaleInv, Covered
  <1>4. \A c \in Cases : Covered(c)'
    BY <1>3 DEF Covered
  <1> QED
    BY <1>1, <1>2, <1>4 DEF StaleInv

\* The detection that a change starts, or the next stage without anything found.
LEMMA NewDetection ==
    ASSUME AlertTypes, NEW r \in Detectors,
           NEW stage \in {"idle", "compare", "dry"}, NEW trigger \in {"none", "source_sync", "rule_change"},
           Stale!Detects(r, stage, trigger)
    PROVE  /\ detection' \in [Detectors -> Detections]
           /\ detection'[r].stage = stage /\ detection'[r].trigger = trigger
           /\ \A q \in Detectors \ {r} : detection'[q] = detection[q]
  <1> DEFINE moved == [Stale!NoDetection EXCEPT !.stage = stage, !.trigger = trigger]
  <1>1. moved \in Detections
    BY NoDetectionType
  <1>2. moved.stage = stage /\ moved.trigger = trigger
    BY DEF Stale!NoDetection
  <1>3. detection \in [Detectors -> Detections] /\ detection' = [detection EXCEPT ![r] = moved]
    BY DEF AlertTypes, Stale!Detects
  <1> HIDE DEF moved
  <1> QED
    BY <1>1, <1>2, <1>3

LEMMA CompareKeepsStaleInv ==
    ASSUME StaleInv, NEW r \in Detectors, Stale!Compare(r)
    PROVE  StaleInv'
  <1>1. /\ AlertTypes /\ Sensible(r) /\ Len(landed) \in Nat /\ Len(landed) >= 2
        /\ detection[r].trigger \in {"source_sync", "rule_change"}
    BY DetectionType DEF StaleInv, AlertTypes, Sensible, Stale!Compare, Detections
  <1>2. CASE landed[Len(landed) - 1] # Stale!Last(landed)
    <2>1. /\ detection' \in [Detectors -> Detections]
          /\ detection'[r].stage = "dry" /\ detection'[r].trigger = detection[r].trigger
          /\ \A q \in Detectors \ {r} : detection'[q] = detection[q]
      BY <1>1, <1>2, NewDetection DEF Stale!Compare
    <2>2. Sensible(r)'
      BY <1>1, <2>1 DEF Sensible, Stale!Compare
    <2>3. \A c \in Cases : Finds(r, c)'
      BY <2>1 DEF Finds
    <2> QED
      BY <2>1, <2>2, <2>3, DetectionMoves DEF Stale!Compare, StaleInv, AlertTypes
  <1>3. CASE landed[Len(landed) - 1] = Stale!Last(landed)
    <2>1. /\ detection' \in [Detectors -> Detections]
          /\ detection'[r].stage = "idle" /\ detection'[r].trigger = "none"
          /\ \A q \in Detectors \ {r} : detection'[q] = detection[q]
      BY <1>1, <1>3, NewDetection DEF Stale!Compare
    <2>2. Sensible(r)'
      BY <2>1 DEF Sensible
    <2>3. \A c \in Cases : ~ (Watched(c) /\ Finds(r, c))
      BY <1>1, <1>3 DEF Watched, Finds, Stale!Compare, Stale!Last
    <2> QED
      BY <2>1, <2>2, <2>3, DetectionMoves DEF Stale!Compare, StaleInv, AlertTypes
  <1> QED
    BY <1>2, <1>3

LEMMA DetectionFailsKeepsStaleInv ==
    ASSUME StaleInv, NEW r \in Detectors, Stale!DetectionFails(r)
    PROVE  StaleInv'
  <1>1. /\ detection' \in [Detectors -> Detections]
        /\ detection'[r].stage = "idle" /\ detection'[r].trigger = "none"
        /\ \A q \in Detectors \ {r} : detection'[q] = detection[q]
    BY NewDetection DEF Stale!DetectionFails, Stale!Ends, StaleInv
  <1>2. Sensible(r)'
    BY <1>1 DEF Sensible
  <1> QED
    BY <1>1, <1>2, DetectionMoves DEF Stale!DetectionFails, StaleInv, AlertTypes

LEMMA DryRunKeepsStaleInv ==
    ASSUME StaleInv, NEW r \in Detectors, Stale!DryRun(r)
    PROVE  StaleInv'
  <1> DEFINE found == [c \in Stale!Flips(detection[r].trigger) |->
                          [before |-> Stale!Last(history[c]).decision, after |-> Stale!Verdict(c)]]
             moved == [detection[r] EXCEPT !.stage = "latest", !.flips = found]
  <1>1. AlertTypes /\ Sensible(r) /\ detection[r] \in Detections
    BY DetectionType DEF StaleInv
  <1>2. found \in UNION {[S -> Flipped] : S \in SUBSET Cases}
    <2>1. Stale!Flips(detection[r].trigger) \in SUBSET Cases
      BY DEF Stale!Flips
    <2>2. \A c \in Cases : [before |-> Stale!Last(history[c]).decision, after |-> Stale!Verdict(c)]
                              \in Flipped
      BY <1>1, VerdictType, LastDecision DEF Flipped
    <2>3. found \in [Stale!Flips(detection[r].trigger) -> Flipped]
      BY <2>1, <2>2
    <2> QED
      BY <2>1, <2>3
  <1>3. /\ \A c \in DOMAIN found : found[c].after = Stale!Verdict(c)
        /\ DOMAIN found = Stale!Flips(detection[r].trigger)
    OBVIOUS
  <1>4. detection' = [detection EXCEPT ![r] = moved]
    BY DEF Stale!DryRun
  <1> HIDE DEF found
  <1>5. /\ moved \in Detections /\ moved.stage = "latest" /\ moved.flips = found
        /\ moved.trigger = detection[r].trigger
    BY <1>1, <1>2 DEF Detections
  <1> HIDE DEF moved
  <1>6. /\ detection' \in [Detectors -> Detections] /\ detection'[r] = moved
        /\ \A q \in Detectors \ {r} : detection'[q] = detection[q]
    BY <1>1, <1>4, <1>5 DEF AlertTypes
  <1>7. Sensible(r)'
    BY <1>1, <1>5, <1>6 DEF Sensible, Stale!DryRun
  <1>8. ASSUME NEW c \in Cases, Watched(c), ~ lost'
        PROVE  Finds(r, c)' \/ lost
    <2>1. CASE c \in Stale!Flips(detection[r].trigger)
      <3>1. found[c].after = Stale!Verdict(c)'
        BY <1>3, <2>1, SameCase DEF Stale!DryRun
      <3> QED
        BY <1>3, <1>5, <1>6, <2>1, <3>1 DEF Finds
    <2>2. CASE c \notin Stale!Flips(detection[r].trigger)
      <3>1. detection[r].trigger = "source_sync" /\ Stale!Last(history[c]).decision = Default
        BY <1>8, <2>2 DEF Watched, Stale!Stale, Stale!Flips
      <3>2. Len(landed) >= 2 /\ Len(landed) = 1
        BY <1>1, <1>8, <3>1 DEF Watched, Sensible
      <3> QED
        BY <3>2
    <2> QED
      BY <2>1, <2>2
  <1>9. \A c \in Cases : Watched(c) /\ (lost \/ Finds(r, c)) => lost' \/ Finds(r, c)'
    <2> SUFFICES ASSUME NEW c \in Cases, Watched(c), ~ lost' PROVE Finds(r, c)'
      OBVIOUS
    <2>1. CASE ~ lost
      BY <1>8, <2>1
    <2>2. CASE lost
      <3>1. detection[r].trigger # "source_sync"
        BY <2>2 DEF Stale!DryRun
      <3>2. c \in Stale!Flips(detection[r].trigger)
        BY <3>1 DEF Watched, Stale!Stale, Stale!Flips
      <3>3. found[c].after = Stale!Verdict(c)'
        BY <1>3, <3>2, SameCase DEF Stale!DryRun
      <3> QED
        BY <1>3, <1>5, <1>6, <3>2, <3>3 DEF Finds
    <2> QED
      BY <2>1, <2>2
  <1> QED
    BY <1>1, <1>6, <1>7, <1>9, DetectionMoves DEF Stale!DryRun, AlertTypes

LEMMA ReadLatestKeepsStaleInv ==
    ASSUME StaleInv, NEW r \in Detectors, Stale!ReadLatest(r)
    PROVE  StaleInv'
  <1> DEFINE latest == [c \in DOMAIN detection[r].flips |-> Len(history[c])]
             moved == [detection[r] EXCEPT !.stage = "insert", !.latest = latest]
  <1>1. /\ AlertTypes /\ Sensible(r) /\ detection[r] \in Detections
        /\ DOMAIN detection[r].flips \in SUBSET Cases
    BY DetectionType DEF StaleInv
  <1>2. latest \in UNION {[S -> 1 .. MaxDecisions] : S \in SUBSET Cases}
    <2>1. latest \in [DOMAIN detection[r].flips -> 1 .. MaxDecisions]
      BY <1>1 DEF AlertTypes
    <2> QED
      BY <1>1, <2>1
  <1>3. /\ \A c \in DOMAIN latest : latest[c] = Len(history[c])
        /\ DOMAIN latest = DOMAIN detection[r].flips
    OBVIOUS
  <1>4. detection' = [detection EXCEPT ![r] = moved]
    BY DEF Stale!ReadLatest
  <1> HIDE DEF latest
  <1>5. /\ moved \in Detections /\ moved.stage = "insert" /\ moved.flips = detection[r].flips
        /\ moved.latest = latest /\ moved.trigger = detection[r].trigger
    BY <1>1, <1>2 DEF Detections
  <1> HIDE DEF moved
  <1>6. /\ detection' \in [Detectors -> Detections] /\ detection'[r] = moved
        /\ \A q \in Detectors \ {r} : detection'[q] = detection[q]
    BY <1>1, <1>4, <1>5 DEF AlertTypes
  <1>7. Sensible(r)'
    BY <1>1, <1>3, <1>5, <1>6 DEF Sensible, Stale!ReadLatest
  <1>8. \A c \in Cases : Finds(r, c) => Finds(r, c)'
    <2> SUFFICES ASSUME NEW c \in Cases, Finds(r, c) PROVE Finds(r, c)'
      OBVIOUS
    <2>1. /\ c \in DOMAIN detection[r].flips /\ detection[r].flips[c].after = Stale!Verdict(c)
          /\ history' = history
      BY DEF Finds, Stale!ReadLatest
    <2>2. Stale!Verdict(c)' = Stale!Verdict(c)
      BY SameCase DEF Stale!ReadLatest
    <2> QED
      BY <1>3, <1>5, <1>6, <2>1, <2>2 DEF Finds
  <1> QED
    BY <1>1, <1>6, <1>7, <1>8, DetectionMoves DEF Stale!ReadLatest, AlertTypes

LEMMA InsertKeepsStaleInv ==
    ASSUME StaleInv, NEW r \in Detectors, Stale!Insert(r)
    PROVE  StaleInv'
  <1>1. /\ AlertTypes /\ Sensible(r) /\ detection[r] \in Detections
        /\ detection[r].stage = "insert"
        /\ DOMAIN detection[r].latest = DOMAIN detection[r].flips
        /\ detection[r].trigger \in {"source_sync", "rule_change"}
    BY DetectionType DEF StaleInv, Sensible, Stale!Insert, Detections
  <1>2. ASSUME NEW c \in Stale!Missing(r) PROVE Stale!NewAlert(r, c) \in Stale!AlertRows
    <2>1. /\ c \in DOMAIN detection[r].flips /\ c \in DOMAIN detection[r].latest /\ c \in Cases
          /\ detection[r].flips[c] \in Flipped /\ detection[r].latest[c] \in 1 .. MaxDecisions
      BY <1>1, DetectionType DEF Stale!Missing
    <2> QED
      BY <1>1, <2>1 DEF Stale!NewAlert, Stale!AlertRows, Flipped
  <1>3. alerts' \subseteq Stale!AlertRows /\ alerts \subseteq alerts'
    BY <1>1, <1>2 DEF Stale!Insert, AlertTypes
  <1>4. /\ detection' \in [Detectors -> Detections]
        /\ detection'[r].stage = "idle" /\ detection'[r].trigger = "none"
        /\ \A q \in Detectors \ {r} : detection'[q] = detection[q]
    BY <1>1, NewDetection DEF Stale!Insert, Stale!Ends
  <1>5. Sensible(r)'
    BY <1>4 DEF Sensible
  <1>6. ASSUME NEW c \in Cases, Finds(r, c) PROVE Stale!Flagged(c)'
    <2>1. /\ c \in DOMAIN detection[r].flips /\ detection[r].flips[c].after = Stale!Verdict(c)
          /\ detection[r].latest[c] = Len(history[c])
      BY <1>1, <1>6 DEF Finds
    <2>2. Stale!Verdict(c)' = Stale!Verdict(c) /\ history' = history
      BY SameCase DEF Stale!Insert
    <2>3. PICK a \in alerts' : Stale!SameFlag(a, Stale!NewAlert(r, c))
      <3>1. CASE c \in Stale!Missing(r)
        BY <3>1 DEF Stale!Insert, Stale!SameFlag
      <3>2. CASE c \notin Stale!Missing(r)
        BY <1>3, <2>1, <3>2 DEF Stale!Missing
      <3> QED
        BY <3>1, <3>2
    <2>4. a.case = c /\ a.decision = Len(history[c]) /\ a.after = Stale!Verdict(c)
      BY <2>1, <2>3 DEF Stale!SameFlag, Stale!NewAlert
    <2> QED
      BY <2>2, <2>4 DEF Stale!Flagged
  <1> QED
    BY <1>1, <1>3, <1>4, <1>5, <1>6, DetectionMoves DEF Stale!Insert, AlertTypes

\* A load, with a detection that compares it unless it changes nothing.
LEMMA LandingKeepsStaleInv ==
    ASSUME StaleInv, NEW r \in Detectors, NEW new \in Rows,
           detection[r].stage = "idle", Len(landed) < MaxLoads, landed' = Append(landed, new),
           UNCHANGED <<version, history, alerts, lost>>,
           \/ Stale!Detects(r, "compare", "source_sync")
           \/ UNCHANGED detection /\ new = Stale!Last(landed)
    PROVE  StaleInv'
  <1>1. /\ AlertTypes /\ Len(landed) \in Nat /\ Len(landed) >= 1 /\ landed \in Seq(Rows)
        /\ MaxLoads \in Nat
    BY PartsAssumption DEF StaleInv, AlertTypes, Stale!AlertsAssumption
  <1>2. /\ landed' \in Seq(Rows) /\ Len(landed') = Len(landed) + 1 /\ Len(landed') \in 1 .. MaxLoads
        /\ landed'[Len(landed')] = new /\ \A i \in 1 .. Len(landed) : landed'[i] = landed[i]
    BY <1>1
  <1>3. /\ detection' \in [Detectors -> Detections]
        /\ \A q \in Detectors \ {r} : detection'[q] = detection[q]
        /\ \/ detection'[r].stage = "compare" /\ detection'[r].trigger = "source_sync"
           \/ detection'[r] = detection[r] /\ new = Stale!Last(landed)
    BY <1>1, NewDetection DEF AlertTypes
  <1>4. AlertTypes'
    BY <1>1, <1>2, <1>3 DEF AlertTypes
  <1>5. ASSUME NEW q \in Detectors PROVE Sensible(q)'
    <2>1. CASE detection'[q] = detection[q]
      BY <1>1, <1>2, <2>1 DEF StaleInv, Sensible
    <2>2. CASE detection'[q] # detection[q]
      BY <1>1, <1>2, <1>3, <2>2 DEF Sensible
    <2> QED
      BY <2>1, <2>2
  <1>6. ASSUME NEW c \in Cases, Watched(c)', ~ lost'
        PROVE  Stale!Flagged(c)' \/ \E q \in Detectors : Finds(q, c)'
    <2>1. Len(landed) = 1 /\ Len(landed') = 2 /\ landed'[1] = landed[1] /\ landed'[2] = new
      <3>1. Len(landed') \in {1, 2}
        BY <1>6 DEF Watched
      <3>2. \A n \in Nat : n >= 1 /\ n + 1 \in {1, 2} => n = 1 /\ n + 1 = 2
        OBVIOUS
      <3>3. Len(landed) = 1 /\ Len(landed') = 2
        <4>1. Len(landed) + 1 \in {1, 2}
          BY <1>2, <3>1, Zenon
        <4> QED
          BY <1>1, <1>2, <3>2, <4>1, Zenon
      <3> QED
        BY <1>2, <3>3
    <2>2. CASE new # Stale!Last(landed)
      BY <1>3, <2>1, <2>2 DEF Finds, Stale!Last
    <2>3. CASE new = Stale!Last(landed)
      <3>1. Stale!Last(landed)' = Stale!Last(landed)
        BY <2>1, <2>3 DEF Stale!Last
      <3>2. Stale!Verdict(c)' = Stale!Verdict(c)
        BY <3>1 DEF Stale!Verdict
      <3>3. Watched(c)
        BY <1>6, <2>1, <3>2 DEF Watched, Stale!Stale, Stale!Last
      <3>4. CASE Stale!Flagged(c)
        BY <3>2, <3>4 DEF Stale!Flagged
      <3>5. ASSUME NEW q \in Detectors, Finds(q, c) PROVE Finds(q, c)'
        <4>1. q # r
          BY <3>5 DEF Finds
        <4>2. detection'[q] = detection[q] /\ detection[q].stage # "compare"
          BY <1>3, <2>1, <4>1 DEF StaleInv, Sensible
        <4> QED
          BY <3>2, <3>5, <4>2 DEF Finds
      <3> QED
        BY <1>6, <3>3, <3>4, <3>5 DEF StaleInv, Covered
    <2> QED
      BY <2>2, <2>3
  <1>7. \A c \in Cases : Covered(c)'
    BY <1>6 DEF Covered
  <1> QED
    BY <1>4, <1>5, <1>7 DEF StaleInv

LEMMA PublishKeepsStaleInv ==
    ASSUME StaleInv, NEW r \in Detectors, Stale!Publish(r)
    PROVE  StaleInv'
  <1>1. AlertTypes /\ MaxVersions \in Nat
    BY PartsAssumption DEF StaleInv, Stale!AlertsAssumption
  <1>2. /\ detection' \in [Detectors -> Detections]
        /\ detection'[r].stage = "dry" /\ detection'[r].trigger = "rule_change"
        /\ \A q \in Detectors \ {r} : detection'[q] = detection[q]
    BY <1>1, NewDetection DEF Stale!Publish
  <1>3. AlertTypes'
    BY <1>1, <1>2 DEF AlertTypes, Stale!Publish
  <1>4. ASSUME NEW q \in Detectors PROVE Sensible(q)'
    <2>1. CASE q = r
      BY <1>2, <2>1 DEF Sensible
    <2>2. CASE q # r
      BY <1>2, <2>2 DEF StaleInv, Sensible, Stale!Publish
    <2> QED
      BY <2>1, <2>2
  <1>5. \A c \in Cases : Covered(c)'
    BY <1>2 DEF Covered, Finds
  <1> QED
    BY <1>3, <1>4, <1>5 DEF StaleInv

\* New decisions leave the other cases as they are, and are what the engine says now.
LEMMA DecidingKeepsStaleInv ==
    ASSUME StaleInv, UNCHANGED <<version, landed, alerts, detection, lost>>, DOMAIN history' = Cases,
           \A c \in Cases :
              \/ history'[c] = history[c]
              \/ /\ Len(history[c]) < MaxDecisions
                 /\ \E decision \in Outcomes, author \in {"engine", "person"} :
                       history'[c] = Stale!Decided(c, decision, author)
    PROVE  StaleInv'
  <1>1. AlertTypes /\ MaxDecisions \in Nat
    BY PartsAssumption DEF StaleInv, Stale!AlertsAssumption
  <1>2. ASSUME NEW c \in Cases, NEW decision \in Outcomes, NEW author \in {"engine", "person"},
               Len(history[c]) < MaxDecisions, history'[c] = Stale!Decided(c, decision, author)
        PROVE  /\ history'[c] \in Seq(Stale!DecisionRows) /\ Len(history'[c]) \in 1 .. MaxDecisions
               /\ ~ Stale!Stale(c)'
    <2> DEFINE row == [decision |-> decision, author |-> author, verdict |-> Stale!Verdict(c)]
    <2>1. row \in Stale!DecisionRows /\ row.verdict = Stale!Verdict(c)
      BY <1>1, VerdictType DEF Stale!DecisionRows
    <2>2. history[c] \in Seq(Stale!DecisionRows) /\ Len(history[c]) \in 1 .. MaxDecisions
      BY <1>1 DEF AlertTypes
    <2>3. history'[c] = Append(history[c], row)
      BY <1>2 DEF Stale!Decided
    <2> HIDE DEF row
    <2>4. /\ history'[c] \in Seq(Stale!DecisionRows) /\ Len(history'[c]) = Len(history[c]) + 1
          /\ history'[c][Len(history'[c])] = row
      BY <2>1, <2>2, <2>3
    <2>5. Stale!Verdict(c)' = Stale!Verdict(c)
      BY DEF Stale!Verdict, Stale!Last
    <2>6. Stale!Last(history[c])'.verdict = Stale!Verdict(c)'
      BY <2>1, <2>4, <2>5 DEF Stale!Last
    <2>7. ~ Stale!Stale(c)'
      BY <2>6 DEF Stale!Stale
    <2> QED
      BY <1>1, <1>2, <2>2, <2>4, <2>7
  <1>3. ASSUME NEW c \in Cases
        PROVE  /\ history'[c] \in Seq(Stale!DecisionRows) /\ Len(history'[c]) \in 1 .. MaxDecisions
               /\ history'[c] = history[c] \/ ~ Stale!Stale(c)'
    BY <1>1, <1>2 DEF AlertTypes
  <1>4. AlertTypes'
    BY <1>1, <1>3 DEF AlertTypes
  <1>5. \A r \in Detectors : Sensible(r)'
    BY DEF StaleInv, Sensible
  <1>6. ASSUME NEW c \in Cases PROVE Covered(c)'
    <2>1. CASE ~ Stale!Stale(c)'
      BY <2>1 DEF Covered, Watched
    <2>2. CASE history'[c] = history[c]
      <3>1. Stale!Verdict(c)' = Stale!Verdict(c) /\ (Watched(c)' <=> Watched(c))
            /\ \A r \in Detectors : Finds(r, c)' <=> Finds(r, c)
        BY <2>2, SameCase
      <3>2. Stale!Flagged(c) => Stale!Flagged(c)'
        BY <2>2, <3>1 DEF Stale!Flagged
      <3> QED
        BY <3>1, <3>2 DEF StaleInv, Covered
    <2> QED
      BY <1>3, <2>1, <2>2
  <1> QED
    BY <1>4, <1>5, <1>6 DEF StaleInv

LEMMA AckKeepsStaleInv ==
    ASSUME StaleInv, NEW a \in alerts, Stale!Ack(a)
    PROVE  StaleInv'
  <1> DEFINE acknowledged == [a EXCEPT !.status = "acknowledged"]
  <1>1. a \in Stale!AlertRows
    BY DEF StaleInv, AlertTypes
  <1>2. /\ acknowledged \in Stale!AlertRows /\ acknowledged.case = a.case
        /\ acknowledged.decision = a.decision /\ acknowledged.after = a.after
    BY <1>1 DEF Stale!AlertRows
  <1>3. alerts' = (alerts \ {a}) \union {acknowledged}
        /\ UNCHANGED <<version, landed, history, detection, lost>>
    BY DEF Stale!Ack
  <1> HIDE DEF acknowledged
  <1>4. AlertTypes'
    BY <1>2, <1>3 DEF StaleInv, AlertTypes
  <1>5. \A r \in Detectors : Sensible(r)'
    BY <1>3 DEF StaleInv, Sensible
  <1>6. ASSUME NEW c \in Cases PROVE Covered(c)'
    <2>1. Stale!Verdict(c)' = Stale!Verdict(c) /\ (Watched(c)' <=> Watched(c))
          /\ \A r \in Detectors : Finds(r, c)' <=> Finds(r, c)
      BY <1>3, SameCase
    <2>2. Stale!Flagged(c) => Stale!Flagged(c)'
      BY <1>2, <1>3, <2>1 DEF Stale!Flagged
    <2> QED
      BY <1>3, <2>1, <2>2 DEF StaleInv, Covered
  <1> QED
    BY <1>4, <1>5, <1>6 DEF StaleInv

LEMMA NextKeepsStaleInv == StaleInv /\ [Stale!Next]_(Stale!vars) => StaleInv'
  <1> SUFFICES ASSUME StaleInv, [Stale!Next]_(Stale!vars) PROVE StaleInv'
    OBVIOUS
  <1>1. ASSUME NEW r \in Detectors, NEW new \in Rows, Stale!SyncLands(r, new) PROVE StaleInv'
    BY <1>1, LandingKeepsStaleInv DEF Stale!SyncLands
  <1>2. ASSUME NEW r \in Detectors, NEW new \in Rows, Stale!WorkbookLands(r, new) PROVE StaleInv'
    BY <1>2, LandingKeepsStaleInv DEF Stale!WorkbookLands
  <1>3. ASSUME NEW c \in Cases, NEW decision \in Outcomes, Stale!Resolve(c, decision) PROVE StaleInv'
    <2>1. DOMAIN history = Cases
      BY DEF StaleInv, AlertTypes
    <2> QED
      BY <1>3, <2>1, DecidingKeepsStaleInv DEF Stale!Resolve
  <1>4. CASE Stale!Reprocess
    <2>1. \A c \in Cases : Stale!Verdict(c) \in Outcomes
      BY VerdictType DEF StaleInv
    <2> QED
      BY <1>4, <2>1, DecidingKeepsStaleInv DEF Stale!Reprocess
  <1>5. CASE UNCHANGED Stale!vars
    BY <1>5, DecidingKeepsStaleInv DEF Stale!vars, StaleInv, AlertTypes
  <1> QED
    BY <1>1, <1>2, <1>3, <1>4, <1>5, PublishKeepsStaleInv, CompareKeepsStaleInv, DryRunKeepsStaleInv,
       ReadLatestKeepsStaleInv, InsertKeepsStaleInv, DetectionFailsKeepsStaleInv, AckKeepsStaleInv
    DEF Stale!Next

LEMMA FlaggedWhenQuiet == StaleInv => Stale!ChangesAreFlagged
  <1> SUFFICES ASSUME StaleInv PROVE Stale!ChangesAreFlagged
    OBVIOUS
  <1>1. Stale!TypeOK
    <2>1. ASSUME NEW r \in Detectors
          PROVE  /\ detection[r].stage \in {"idle", "compare", "dry", "latest", "insert"}
                 /\ DOMAIN detection[r].flips \subseteq Cases
      BY DetectionType DEF StaleInv, Detections
    <2> QED
      BY <2>1 DEF StaleInv, AlertTypes, Stale!TypeOK
  <1>2. ASSUME Stale!Quiet, ~ lost, NEW c \in Cases, Watched(c) PROVE Stale!Flagged(c)
    <2>1. ~ \E r \in Detectors : Finds(r, c)
      BY <1>2 DEF Stale!Quiet, Finds
    <2> QED
      BY <1>2, <2>1 DEF StaleInv, Covered
  <1>3. Len(landed) \in Nat /\ Len(landed) >= 1
    BY DEF StaleInv, AlertTypes
  <1>4. Stale!RuleChangeIsFlagged
    BY <1>2 DEF Stale!RuleChangeIsFlagged, Watched
  <1>5. Stale!DataChangeIsFlagged
    <2>1. \A n \in Nat : n >= 1 /\ n <= 2 => n = 1 \/ n = 2
      OBVIOUS
    <2>2. Len(landed) <= 2 => Len(landed) = 1 \/ Len(landed) = 2
      BY <1>3, <2>1, Zenon
    <2> QED
      BY <1>2, <2>2 DEF Stale!DataChangeIsFlagged, Watched
  <1> QED
    BY <1>1, <1>4, <1>5 DEF Stale!ChangesAreFlagged

\* However many detections overlap with each other, with decisions and with new versions,
\* once they are over every decision that has become stale is flagged, unless the last of
\* them was lost (alerts/service.py).
THEOREM StaleDecisionsAreFlagged == Stale!Spec => []Stale!ChangesAreFlagged
  BY StaleInitially, NextKeepsStaleInv, FlaggedWhenQuiet, PTL DEF Stale!Spec

\* The same of the alerts beside the tables, as the run checks it.
THEOREM AlertsOfTheRun == MCSpec => []ChangesAreFlagged
  <1> DEFINE AlertsInv == part = "alerts" => StaleInv
  <1>1. MCInit => AlertsInv
    BY StaleInitially DEF MCInit
  <1>2. AlertsInv /\ [MCNext]_<<part, vars, fetch, stale, excel>> => AlertsInv'
    <2> SUFFICES ASSUME AlertsInv, [MCNext]_<<part, vars, fetch, stale, excel>>, part' = "alerts"
                 PROVE  StaleInv'
      OBVIOUS
    <2>1. part = "alerts" /\ (Stale!Next \/ UNCHANGED stale)
      BY DEF MCNext
    <2>2. UNCHANGED stale => UNCHANGED Stale!vars
      BY DEF stale, Stale!vars
    <2> QED
      BY <2>1, <2>2, NextKeepsStaleInv
  <1>3. AlertsInv => ChangesAreFlagged
    BY FlaggedWhenQuiet DEF ChangesAreFlagged
  <1> QED
    BY <1>1, <1>2, <1>3, PTL DEF MCSpec

-----------------------------------------------------------------------------
(***************************************************************************)
(* What is taken from a workbook (module Workbook).  A record is made from *)
(* its row alone, every identity has its first row, a row of the same      *)
(* identity has the same values or has been reported, and so has every     *)
(* formula.                                                                *)
(***************************************************************************)

\* What a row becomes.
Made(row) ==
    [role |-> Excel!Role(row.sheet),
     fields |-> IF Excel!Role(row.sheet) = "unstructured" THEN << >> ELSE Excel!Fields(row)]

IdentityOf(i) == Excel!Identity(records[i].role, records[i].fields)

Conflict(role, id) == [code |-> "DUPLICATE_CONFLICT", role |-> role, about |-> id]

Scanned ==
    /\ book \in Workbooks /\ scanned \in Nat /\ scanned <= Len(book)
    /\ records \in Seq({records[i] : i \in 1 .. scanned}) /\ Len(records) = scanned
    /\ \A i \in 1 .. scanned : records[i] = Made(book[i])

\* The first rows of the identities.
Seen ==
    /\ \A s \in seen : /\ s.row \in 1 .. scanned
                       /\ s.role = records[s.row].role /\ s.identity = IdentityOf(s.row)
    /\ \A s, t \in seen : s.role = t.role /\ s.identity = t.identity => s = t

\* Every other row says the same as the first one of its identity, or it was reported.
Reported ==
    \A i \in 1 .. scanned :
        records[i].role # "unstructured" /\ IdentityOf(i) # None =>
            \E s \in seen :
                /\ s.role = records[i].role /\ s.identity = IdentityOf(i)
                /\ \/ Excel!Signature(records[s.row].fields) = Excel!Signature(records[i].fields)
                   \/ Conflict(s.role, s.identity) \in warnings

\* Every formula of a row that was read and shows something.
FormulasReported ==
    \A i \in 1 .. scanned : \A c \in Excel!Wide(book[i].sheet) :
        book[i].cells[c] # None /\ book[i].cells[c].shows # None /\ book[i].cells[c].formula =>
            Excel!Formula("FORMULA_CACHED_VALUE", i, c) \in warnings

WorkbookInv ==
    /\ Scanned /\ Seen /\ Reported /\ FormulasReported
    /\ phase = "scan" => tables = None
    /\ Excel!TablesAreUndisputed

LEMMA LeftmostIs ==
    ASSUME NEW columns \in SUBSET Nat, columns # {}
    PROVE  Excel!Leftmost(columns) \in columns
  <1>1. PICK i \in columns : \A j \in columns : ~ (<<j, i>> \in OpToRel(<, Nat))
    BY NatLessThanWellFounded, WFMin
  <1>2. \A j \in columns : ~ (j < i)
    BY <1>1 DEF OpToRel
  <1>3. \A j \in columns : i <= j
    BY <1>2
  <1> QED
    BY <1>3 DEF Excel!Leftmost

\* What a cell with something in it says.
LEMMA FieldSays ==
    ASSUME NEW name, NEW cell, cell # None, cell.shows # None
    PROVE  /\ Excel!Field(name, cell).status # "MISSING"
           /\ Excel!Field(name, cell).value # None =>
                 Excel!Field(name, cell).value = cell.shows /\ (cell.formula \/ ~cell.error)
  BY DEF Excel!Field

\* A field has the value that all of its columns show.
LEMMA FlattenedAgrees ==
    ASSUME NEW b \in Workbooks, NEW i \in DOMAIN b, NEW name, NEW c \in Excel!Wide(b[i].sheet),
           Sheets[b[i].sheet].header[c] = name,
           b[i].cells[c] # None, b[i].cells[c].shows # None,
           Excel!Flattened(b[i], name).value # None
    PROVE  /\ b[i].cells[c].shows = Excel!Flattened(b[i], name).value
           /\ b[i].cells[c].formula \/ ~b[i].cells[c].error
  <1> DEFINE found == Excel!Populated(b[i], name)
             value(k) == Excel!Field(name, b[i].cells[k]).value
  <1>1. c \in found
    BY FieldSays DEF Excel!Populated
  <1>2. found \in SUBSET Nat
    BY PartsAssumption DEF Excel!WorkbookAssumption, Excel!Populated
  <1>3. Excel!Leftmost(found) \in found
    BY <1>1, <1>2, LeftmostIs
  <1>4. /\ \A k, l \in found : value(k) = value(l)
        /\ Excel!Flattened(b[i], name) = Excel!Field(name, b[i].cells[Excel!Leftmost(found)])
    <2>1. found # {}
      BY <1>1
    <2>2. ~ \E k, l \in found : value(k) # value(l)
      BY <2>1 DEF Excel!Flattened
    <2> QED
      BY <2>1, <2>2 DEF Excel!Flattened
  <1>5. value(c) = Excel!Flattened(b[i], name).value
    <2> HIDE DEF found
    <2> QED
      BY <1>1, <1>3, <1>4
  <1> QED
    BY <1>5, FieldSays

\* A table holds rows that know what they are about.
LEMMA CompleteIsSomething ==
    ASSUME NEW name \in DOMAIN Excel!TableOf, NEW fields, Excel!Complete(name, fields)
    PROVE  Excel!Identity(Excel!TableOf[name], fields) # None /\ Excel!TableOf[name] # "unstructured"
  <1>1. name \in {"suppliers", "orders"}
    BY DEF Excel!TableOf
  <1>2. CASE name = "suppliers"
    <2>1. Excel!TableOf[name] = "suppliers" /\ Excel!Primary("suppliers") = "supplier_ref"
      BY <1>2 DEF Excel!TableOf, Excel!Primary
    <2>2. Excel!ValueOf(fields, "supplier_ref") # None
      BY <1>2 DEF Excel!Complete
    <2> QED
      BY <2>1, <2>2 DEF Excel!Identity
  <1>3. CASE name = "orders"
    <2>1. Excel!TableOf[name] = "purchase_orders" /\ Excel!Primary("purchase_orders") = "purchase_order_ref"
      BY <1>3 DEF Excel!TableOf, Excel!Primary
    <2>2. Excel!ValueOf(fields, "purchase_order_ref") # None
      BY <1>3 DEF Excel!Complete
    <2> QED
      BY <2>1, <2>2 DEF Excel!Identity
  <1> QED
    BY <1>1, <1>2, <1>3

-----------------------------------------------------------------------------
LEMMA ReadRowKeeps ==
    ASSUME WorkbookInv, Excel!ReadRow
    PROVE  WorkbookInv'
  <1>1. PICK n, row, role, fields, id :
            n = scanned + 1 /\ row = book[n] /\ role = Excel!Role(row.sheet)
            /\ fields = Excel!Fields(row) /\ id = Excel!Identity(role, fields)
    OBVIOUS
  <1>2. /\ phase = "scan" /\ scanned < Len(book) /\ scanned' = n
        /\ UNCHANGED <<book, phase, tables>>
        /\ records' = Append(records, Made(row))
        /\ role = "unstructured" => warnings' = warnings \union Excel!Formulas(n) /\ UNCHANGED seen
        /\ role # "unstructured" =>
              /\ warnings' = warnings \union Excel!Formulas(n)
                               \union Excel!Repeats(role, fields) \union Excel!Doubts(role, fields)
              /\ seen' = IF id = None \/ \E t \in seen : t.role = role /\ t.identity = id
                         THEN seen
                         ELSE seen \union {[role |-> role, identity |-> id, row |-> n]}
    BY <1>1 DEF Excel!ReadRow, Made
  <1>3. /\ n \in Nat /\ n <= Len(book) /\ scanned \in Nat /\ n = scanned + 1
        /\ Len(records') = n /\ records'[n] = Made(row)
        /\ \A i \in 1 .. scanned : records'[i] = records[i]
        /\ records' \in Seq({records'[i] : i \in 1 .. n})
    <2> DEFINE S == {records[i] : i \in 1 .. scanned} \union {Made(row)}
    <2>1. /\ scanned \in Nat /\ scanned < Len(book) /\ Len(records) = scanned
          /\ records \in Seq(S) /\ Made(row) \in S
      BY <1>2 DEF WorkbookInv, Scanned
    <2>2. Len(book) \in Nat
      BY PartsAssumption DEF Excel!WorkbookAssumption, WorkbookInv, Scanned
    <2> HIDE DEF S, Made
    <2>3. /\ records' \in Seq(S) /\ Len(records') = scanned + 1 /\ records'[scanned + 1] = Made(row)
          /\ \A i \in 1 .. scanned : records'[i] = records[i]
      BY <1>2, <2>1
    <2>4. records' \in Seq({records'[i] : i \in 1 .. Len(records')})
      BY <2>3
    <2> QED
      BY <1>1, <2>1, <2>2, <2>3, <2>4
  <1>4. Scanned'
    <2>1. \A i \in 1 .. n : i = n \/ i \in 1 .. scanned
      BY <1>3
    <2>2. ASSUME NEW i \in 1 .. n PROVE records'[i] = Made(book[i])
      BY <1>1, <1>3, <2>1 DEF WorkbookInv, Scanned
    <2> QED
      BY <1>2, <1>3, <2>2 DEF WorkbookInv, Scanned, Made
  <1>5. \A i \in 1 .. scanned : IdentityOf(i)' = IdentityOf(i)
    BY <1>3 DEF IdentityOf, Excel!Identity, Excel!ValueOf
  <1>a. /\ records'[n].role = role
        /\ role # "unstructured" => records'[n].fields = fields
    BY <1>1, <1>3 DEF Made
  <1>b. role # "unstructured" => IdentityOf(n)' = id
    BY <1>1, <1>a DEF IdentityOf, Excel!Identity, Excel!ValueOf
  <1>6. Seen'
    <2>1. CASE seen' = seen
      <3>1. \A s \in seen : s.row \in 1 .. n /\ s.row \in 1 .. scanned
        BY <1>3 DEF WorkbookInv, Seen
      <3> QED
        BY <1>2, <1>3, <1>5, <2>1, <3>1 DEF WorkbookInv, Seen
    <2>2. CASE seen' # seen
      <3>1. PICK new : new = [role |-> role, identity |-> id, row |-> n]
        OBVIOUS
      <3>2. /\ role # "unstructured" /\ seen' = seen \union {new}
            /\ \A t \in seen : ~(t.role = role /\ t.identity = id)
        BY <1>2, <2>2, <3>1
      <3>3. new.row = n /\ new.role = records'[n].role /\ new.identity = IdentityOf(n)'
        BY <1>a, <1>b, <3>1, <3>2
      <3>4. \A s \in seen' : /\ s.row \in 1 .. n
                             /\ s.role = records'[s.row].role /\ s.identity = IdentityOf(s.row)'
        <4> SUFFICES ASSUME NEW s \in seen'
                     PROVE  /\ s.row \in 1 .. n
                            /\ s.role = records'[s.row].role /\ s.identity = IdentityOf(s.row)'
          OBVIOUS
        <4>1. CASE s = new
          BY <1>3, <3>3, <4>1
        <4>2. CASE s \in seen
          <5>1. s.row \in 1 .. scanned /\ s.role = records[s.row].role /\ s.identity = IdentityOf(s.row)
            BY <4>2 DEF WorkbookInv, Seen
          <5> QED
            BY <1>3, <1>5, <5>1
        <4> QED
          BY <3>2, <4>1, <4>2
      <3>5. \A s, t \in seen' : s.role = t.role /\ s.identity = t.identity => s = t
        BY <3>1, <3>2 DEF WorkbookInv, Seen
      <3> QED
        BY <1>2, <3>4, <3>5 DEF Seen
    <2> QED
      BY <2>1, <2>2
  <1>c. seen \subseteq seen' /\ warnings \subseteq warnings'
    BY <1>2
  <1>d. ASSUME role # "unstructured", id # None
        PROVE  \E s \in seen' :
                  /\ s.role = role /\ s.identity = id
                  /\ \/ Excel!Signature(records'[s.row].fields) = Excel!Signature(fields)
                     \/ Conflict(s.role, s.identity) \in warnings'
    <2>1. CASE \E t \in seen : t.role = role /\ t.identity = id
      <3>1. PICK t \in seen : t.role = role /\ t.identity = id
        BY <2>1
      <3>2. t.row \in 1 .. scanned
        BY DEF WorkbookInv, Seen
      <3>3. ASSUME Excel!Signature(records[t.row].fields) # Excel!Signature(fields)
            PROVE  Conflict(t.role, t.identity) \in warnings'
        <4>1. Conflict(t.role, t.identity) \in Excel!Repeats(role, fields)
          BY <1>1, <3>1, <3>3 DEF Excel!Repeats, Conflict
        <4> QED
          BY <1>2, <1>d, <4>1
      <3> QED
        BY <1>3, <1>c, <3>1, <3>2, <3>3
    <2>2. CASE ~ \E t \in seen : t.role = role /\ t.identity = id
      <3>1. PICK new : new = [role |-> role, identity |-> id, row |-> n]
        OBVIOUS
      <3>2. new \in seen' /\ new.role = role /\ new.identity = id /\ new.row = n
        BY <1>2, <1>d, <2>2, <3>1
      <3> QED
        BY <1>a, <1>d, <3>2
    <2> QED
      BY <2>1, <2>2
  <1>7. Reported'
    <2> SUFFICES ASSUME NEW i \in 1 .. n, records'[i].role # "unstructured", IdentityOf(i)' # None
                 PROVE  \E s \in seen' :
                          /\ s.role = records'[i].role /\ s.identity = IdentityOf(i)'
                          /\ \/ Excel!Signature(records'[s.row].fields) = Excel!Signature(records'[i].fields)
                             \/ Conflict(s.role, s.identity) \in warnings'
      BY <1>2 DEF Reported, Conflict, Excel!Signature
    <2>1. CASE i = n
      <3>1. role # "unstructured" /\ IdentityOf(i)' = id
        BY <1>a, <1>b, <2>1
      <3> QED
        BY <1>a, <1>d, <2>1, <3>1
    <2>2. CASE i # n
      <3>1. i \in 1 .. scanned
        BY <1>3, <2>2
      <3>2. PICK s \in seen :
                /\ s.role = records[i].role /\ s.identity = IdentityOf(i)
                /\ \/ Excel!Signature(records[s.row].fields) = Excel!Signature(records[i].fields)
                   \/ Conflict(s.role, s.identity) \in warnings
        BY <1>3, <1>5, <3>1 DEF WorkbookInv, Reported
      <3>3. s.row \in 1 .. scanned
        BY DEF WorkbookInv, Seen
      <3> QED
        BY <1>3, <1>5, <1>c, <3>1, <3>2, <3>3
    <2> QED
      BY <2>1, <2>2
  <1>8. Excel!TablesAreUndisputed'
    BY <1>2 DEF WorkbookInv, Excel!TablesAreUndisputed
  <1>9. FormulasReported'
    <2> SUFFICES ASSUME NEW i \in 1 .. n, NEW c \in Excel!Wide(book[i].sheet),
                        book[i].cells[c] # None, book[i].cells[c].shows # None,
                        book[i].cells[c].formula
                 PROVE  Excel!Formula("FORMULA_CACHED_VALUE", i, c) \in warnings'
      BY <1>2 DEF FormulasReported, Excel!Formula, Excel!Wide
    <2>1. CASE i = n
      BY <1>2, <2>1 DEF Excel!Formulas
    <2>2. CASE i # n
      <3>1. i \in 1 .. scanned
        BY <1>3, <2>2
      <3> QED
        BY <1>c, <3>1 DEF WorkbookInv, FormulasReported
    <2> QED
      BY <2>1, <2>2
  <1> QED
    BY <1>2, <1>4, <1>6, <1>7, <1>8, <1>9 DEF WorkbookInv

\* All the rows, or none: those of the upload.
LEMMA LoadKeeps ==
    ASSUME WorkbookInv, Excel!Load
    PROVE  Excel!TablesAreUndisputed'
  <1>1. /\ tables' = [name \in DOMAIN Excel!TableOf |->
                         {[at |-> i, values |-> Excel!Signature(records[i].fields)] : i \in Excel!RowsOf(name)}]
        /\ UNCHANGED <<book, records, warnings>>
    BY DEF Excel!Load
  <1>2. DOMAIN Excel!TableOf = {"suppliers", "orders"}
    BY DEF Excel!TableOf
  <1>3. DOMAIN records = 1 .. scanned
    BY DEF WorkbookInv, Scanned
  <1>4. ASSUME NEW name \in DOMAIN Excel!TableOf, NEW r \in tables'[name]
        PROVE  /\ r.at \in 1 .. scanned /\ records[r.at].role = Excel!TableOf[name]
               /\ r.values = Excel!Signature(records[r.at].fields)
               /\ IdentityOf(r.at) # None /\ Excel!TableOf[name] # "unstructured"
    <2>1. PICK i \in Excel!RowsOf(name) : r = [at |-> i, values |-> Excel!Signature(records[i].fields)]
      BY <1>1
    <2>2. r.at = i /\ r.values = Excel!Signature(records[i].fields)
      BY <2>1
    <2>3. i \in 1 .. scanned /\ records[i].role = Excel!TableOf[name] /\ Excel!Complete(name, records[i].fields)
      BY <1>3 DEF Excel!RowsOf, Excel!Load, Excel!Loadable
    <2> QED
      BY <2>2, <2>3, CompleteIsSomething DEF IdentityOf
  <1>5. ASSUME NEW name \in DOMAIN Excel!TableOf, NEW r \in tables'[name],
               NEW f \in DOMAIN r.values, r.values[f] # None, NEW c \in Excel!Shown(r.at, f)
        PROVE  Excel!Backs(r.at, c, r.values[f])
    <2>1. /\ r.at \in 1 .. scanned /\ r.values = Excel!Signature(records[r.at].fields)
          /\ records[r.at].role # "unstructured"
      BY <1>4
    <2>2. records[r.at] = Made(book[r.at])
      BY <2>1 DEF WorkbookInv, Scanned
    <2>3. records[r.at].fields = Excel!Fields(book[r.at])
      BY <2>1, <2>2 DEF Made
    <2>4. f \in Excel!Names(book[r.at].sheet) /\ r.values[f] = Excel!Flattened(book[r.at], f).value
      BY <2>1, <2>3 DEF Excel!Signature, Excel!Fields
    <2>5. book \in Workbooks /\ r.at \in DOMAIN book
      <3>1. book \in Workbooks /\ scanned <= Len(book) /\ scanned \in Nat
        BY DEF WorkbookInv, Scanned
      <3>2. DOMAIN book = 1 .. Len(book) /\ Len(book) \in Nat
        BY <3>1, PartsAssumption DEF Excel!WorkbookAssumption
      <3> QED
        BY <2>1, <3>1, <3>2
    <2>6. /\ c \in Excel!Wide(book[r.at].sheet) /\ Sheets[book[r.at].sheet].header[c] = f
          /\ book[r.at].cells[c] # None /\ book[r.at].cells[c].shows # None
      BY DEF Excel!Shown
    <2>7. /\ book[r.at].cells[c].shows = r.values[f]
          /\ book[r.at].cells[c].formula \/ ~book[r.at].cells[c].error
      BY <1>5, <2>4, <2>5, <2>6, FlattenedAgrees
    <2>8. book[r.at].cells[c].formula => Excel!Formula("FORMULA_CACHED_VALUE", r.at, c) \in warnings
      BY <2>1, <2>6 DEF WorkbookInv, FormulasReported
    <2> QED
      BY <2>7, <2>8 DEF Excel!Backs
  <1>6. ASSUME NEW name \in DOMAIN Excel!TableOf, NEW r \in tables'[name], NEW q \in tables'[name],
               IdentityOf(r.at) = IdentityOf(q.at), r.values # q.values
        PROVE  Conflict(Excel!TableOf[name], IdentityOf(r.at)) \in warnings
    <2>1. /\ r.at \in 1 .. scanned /\ records[r.at].role = Excel!TableOf[name]
          /\ r.values = Excel!Signature(records[r.at].fields)
          /\ IdentityOf(r.at) # None /\ Excel!TableOf[name] # "unstructured"
      BY <1>4
    <2>2. /\ q.at \in 1 .. scanned /\ records[q.at].role = Excel!TableOf[name]
          /\ q.values = Excel!Signature(records[q.at].fields)
      BY <1>4
    <2>3. PICK s \in seen :
              /\ s.role = Excel!TableOf[name] /\ s.identity = IdentityOf(r.at)
              /\ \/ Excel!Signature(records[s.row].fields) = r.values
                 \/ Conflict(s.role, s.identity) \in warnings
      BY <2>1 DEF WorkbookInv, Reported
    <2>4. PICK t \in seen :
              /\ t.role = Excel!TableOf[name] /\ t.identity = IdentityOf(q.at)
              /\ \/ Excel!Signature(records[t.row].fields) = q.values
                 \/ Conflict(t.role, t.identity) \in warnings
      BY <1>6, <2>1, <2>2 DEF WorkbookInv, Reported
    <2>5. s = t
      BY <1>6, <2>3, <2>4 DEF WorkbookInv, Seen
    <2> QED
      BY <1>6, <2>3, <2>4, <2>5
  <1>7. DOMAIN tables' = DOMAIN Excel!TableOf /\ "proposed" \notin DOMAIN tables'
    BY <1>1, <1>2
  <1>8. \A name \in DOMAIN tables' :
            /\ \A r \in tables'[name] : \A f \in DOMAIN r.values :
                  r.values[f] # None =>
                      \A c \in Excel!Shown(r.at, f)' : Excel!Backs(r.at, c, r.values[f])'
            /\ \A r, q \in tables'[name] :
                  Excel!Identity(Excel!TableOf[name], records'[r.at].fields)
                        = Excel!Identity(Excel!TableOf[name], records'[q.at].fields)
                    /\ r.values # q.values =>
                      Conflict(Excel!TableOf[name], Excel!Identity(Excel!TableOf[name], records'[r.at].fields))
                          \in warnings'
    <2> SUFFICES ASSUME NEW name \in DOMAIN Excel!TableOf
                 PROVE  /\ \A r \in tables'[name] : \A f \in DOMAIN r.values :
                              r.values[f] # None =>
                                  \A c \in Excel!Shown(r.at, f)' :
                                      Excel!Backs(r.at, c, r.values[f])'
                        /\ \A r, q \in tables'[name] :
                              Excel!Identity(Excel!TableOf[name], records'[r.at].fields)
                                    = Excel!Identity(Excel!TableOf[name], records'[q.at].fields)
                                /\ r.values # q.values =>
                                  Conflict(Excel!TableOf[name],
                                           Excel!Identity(Excel!TableOf[name], records'[r.at].fields))
                                      \in warnings'
      BY <1>7
    <2>1. \A i, f : Excel!Shown(i, f)' = Excel!Shown(i, f)
      BY <1>1 DEF Excel!Shown
    <2>2. \A r \in tables'[name] :
              IdentityOf(r.at) = Excel!Identity(Excel!TableOf[name], records'[r.at].fields)
      BY <1>1, <1>4 DEF IdentityOf
    <2>3. \A r \in tables'[name] : \A f \in DOMAIN r.values :
              r.values[f] # None =>
                  \A c \in Excel!Shown(r.at, f)' : Excel!Backs(r.at, c, r.values[f])'
      BY <1>1, <1>5, <2>1 DEF Excel!Backs, Excel!Formula
    <2> QED
      BY <1>1, <1>6, <2>2, <2>3
  <1> QED
    BY <1>7, <1>8 DEF Excel!TablesAreUndisputed, Conflict

\* What a plan takes: no formula, no error.
LEMMA MaterializeKeeps ==
    ASSUME WorkbookInv, NEW m \in Mappings, Excel!Materialize(m)
    PROVE  Excel!TablesAreUndisputed'
  <1>1. PICK held : /\ tables' = [proposed |-> held]
                    /\ \A r \in held : \E i \in Excel!Mapped(m) : r = [at |-> i, values |-> Excel!Taken(m, i)]
    BY DEF Excel!Materialize
  <1>2. UNCHANGED book /\ \A i \in Excel!Mapped(m) : ~Excel!Unverified(m, i)
    BY DEF Excel!Materialize
  <1>3. ASSUME NEW r \in held, NEW f \in DOMAIN r.values, r.values[f] # None
        PROVE  \E c \in DOMAIN book[r.at].cells :
                  /\ book[r.at].cells[c] # None /\ book[r.at].cells[c].shows = r.values[f]
                  /\ ~book[r.at].cells[c].formula /\ ~book[r.at].cells[c].error
    <2>1. PICK i \in Excel!Mapped(m) : r = [at |-> i, values |-> Excel!Taken(m, i)]
      BY <1>1
    <2>2. r.at = i /\ r.values = Excel!Taken(m, i)
      BY <2>1
    <2>3. PICK c : c = m.columns[f]
      OBVIOUS
    <2>4. /\ f \in DOMAIN m.columns
          /\ r.values[f] = IF book[i].cells[c] = None THEN None ELSE book[i].cells[c].shows
      BY <2>2, <2>3 DEF Excel!Taken
    <2>5. book[i].cells[c] # None /\ book[i].cells[c].shows = r.values[f]
      BY <1>3, <2>4
    <2>6. ~(book[i].cells[c].formula \/ book[i].cells[c].error)
      BY <1>2, <2>3, <2>4, <2>5 DEF Excel!Unverified
    <2>7. c \in DOMAIN book[i].cells
      BY <2>3, <2>4, PartsAssumption
         DEF Excel!WorkbookAssumption, Excel!Mapped, WorkbookInv, Scanned
    <2> QED
      BY <2>2, <2>5, <2>6, <2>7
  <1>4. "proposed" \in DOMAIN tables' /\ tables'["proposed"] = held
    BY <1>1
  <1> QED
    BY <1>2, <1>3, <1>4 DEF Excel!TablesAreUndisputed

LEMMA WorkbookKept ==
    ASSUME WorkbookInv, [Excel!Next]_(Excel!bookVars)
    PROVE  WorkbookInv'
  <1>1. ASSUME UNCHANGED <<book, scanned, records, seen, warnings>>
        PROVE  (Scanned /\ Seen /\ Reported /\ FormulasReported)'
    <2>1. Scanned'
      BY <1>1 DEF WorkbookInv, Scanned, Made
    <2>2. \A i : IdentityOf(i)' = IdentityOf(i)
      BY <1>1 DEF IdentityOf, Excel!Identity, Excel!ValueOf
    <2>3. Seen'
      BY <1>1, <2>2 DEF WorkbookInv, Seen
    <2>4. Reported'
      BY <1>1, <2>2 DEF WorkbookInv, Reported, Conflict, Excel!Signature
    <2>5. FormulasReported'
      BY <1>1 DEF WorkbookInv, FormulasReported, Excel!Formula, Excel!Wide
    <2> QED
      BY <2>1, <2>3, <2>4, <2>5
  <1>2. ASSUME UNCHANGED <<book, records, warnings, tables>> PROVE Excel!TablesAreUndisputed'
    <2>1. book' = book /\ tables' = tables /\ Excel!TablesAreUndisputed
      BY <1>2 DEF WorkbookInv
    <2>2. \A i, f : Excel!Shown(i, f)' = Excel!Shown(i, f)
      BY <2>1 DEF Excel!Shown
    <2>3. records' = records /\ warnings' = warnings
      BY <1>2
    <2>4. \A role, fields : Excel!Identity(role, fields)' = Excel!Identity(role, fields)
      BY DEF Excel!Identity, Excel!ValueOf
    <2>7. \A i, c, v : Excel!Backs(i, c, v)' = Excel!Backs(i, c, v)
      BY <2>1, <2>3 DEF Excel!Backs, Excel!Formula
    <2>5. CASE "proposed" \in DOMAIN tables
      BY <2>1, <2>5 DEF Excel!TablesAreUndisputed
    <2>6. CASE "proposed" \notin DOMAIN tables
      BY <2>1, <2>2, <2>3, <2>4, <2>6, <2>7 DEF Excel!TablesAreUndisputed
    <2> QED
      BY <2>5, <2>6
  <1>3. ASSUME UNCHANGED Excel!bookVars PROVE WorkbookInv'
    BY <1>1, <1>2, <1>3 DEF Excel!bookVars, WorkbookInv
  <1>4. ASSUME Excel!TooLarge \/ Excel!Finish PROVE WorkbookInv'
    BY <1>1, <1>2, <1>4 DEF Excel!TooLarge, Excel!Finish, WorkbookInv
  <1>5. ASSUME Excel!Load PROVE WorkbookInv'
    BY <1>1, <1>5, LoadKeeps DEF Excel!Load, WorkbookInv
  <1>6. ASSUME NEW m \in Mappings, Excel!Materialize(m) PROVE WorkbookInv'
    BY <1>1, <1>6, MaterializeKeeps DEF Excel!Materialize, WorkbookInv
  <1> QED
    BY <1>3, <1>4, <1>5, <1>6, ReadRowKeeps DEF Excel!Next

WorkbookPart == part = "workbook" => WorkbookInv

\* Whatever a workbook holds, an uploaded value is the one its columns agree on and no error
\* but what a formula shows, every formula was reported and so were rows that differ on one
\* thing, and a plan takes neither formula nor error (excel.py, workbook.py).
THEOREM TablesOfTheRun == MCSpec => []TablesAreUndisputed
  <1>1. MCInit => WorkbookPart
    <2> SUFFICES ASSUME MCInit, part = "workbook" PROVE WorkbookInv
      BY DEF WorkbookPart
    <2>1. Excel!Init
      BY DEF MCInit
    <2>2. book \in Workbooks /\ scanned = 0 /\ records = << >> /\ seen = {} /\ tables = None
      BY <2>1 DEF Excel!Init
    <2>3. Scanned
      <3>1. Len(book) \in Nat
        BY <2>2, PartsAssumption DEF Excel!WorkbookAssumption
      <3> QED
        BY <2>2, <3>1 DEF Scanned
    <2> QED
      BY <2>2, <2>3 DEF WorkbookInv, Seen, Reported, FormulasReported, Excel!TablesAreUndisputed
  <1>2. WorkbookPart /\ [MCNext]_<<part, vars, fetch, stale, excel>> => WorkbookPart'
    <2> SUFFICES ASSUME WorkbookPart, [MCNext]_<<part, vars, fetch, stale, excel>>, part' = "workbook"
                 PROVE  WorkbookInv'
      BY DEF WorkbookPart
    <2>1. part = "workbook" /\ [Excel!Next]_(Excel!bookVars)
      BY DEF MCNext, excel, Excel!bookVars
    <2> QED
      BY <2>1, WorkbookKept DEF WorkbookPart
  <1>3. WorkbookPart => TablesAreUndisputed
    BY DEF WorkbookPart, WorkbookInv, TablesAreUndisputed
  <1> QED
    BY <1>1, <1>2, <1>3, PTL DEF MCSpec
=============================================================================
