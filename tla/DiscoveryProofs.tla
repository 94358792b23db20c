-------------------------- MODULE DiscoveryProofs --------------------------
(***************************************************************************)
(* Proofs about the conversations that write a process, for any number of  *)
(* requests and sessions, any kinds of change and any bounds.              *)
(*                                                                         *)
(* Why an approval is about the plan it stands beside: an open proposal    *)
(* always belongs to the current plan.  A new plan supersedes the open     *)
(* proposals its request read without a lock; that it missed none follows  *)
(* from the revision check, since only another plan could have opened one. *)
(* And a proposal that is being settled cannot be superseded under its     *)
(* lock.                                                                   *)
(***************************************************************************)
EXTENDS MCDiscovery, TLAPS

\* What a request knows.
FlightAgrees(r) ==
    LET f == req[r]
    IN  req[r] # Idle =>
            /\ f.proposal \subseteq held[r]
            /\ \A p \in f.proposal : p[1] = f.session
            /\ f.at \in {"reading", "settling"} => f.op = "review"
            /\ f.op # "review" => f.proposal = {}
            /\ f.op # "revise" => f.olds = {}
            /\ f.at \in {"awaiting", "saving"} => f.saw \in 1 .. Last(f.session)
            /\ f.at = "saving" =>
                  /\ \A p \in f.proposal : p[2] = Read(f).plan
                  /\ f.op = "prepare" => Ready(Read(f))
                  /\ (f.op = "revise" /\ f.saw = Last(f.session)) => OpenOf(f.session) \subseteq f.olds

FlightsAgree == \A r \in Requests : FlightAgrees(r)

\* Row locks.
HeldOpen ==
    /\ \A r \in Requests : \A p \in held[r] : proposals[p] = "open"
    /\ \A q, r \in Requests : q # r => held[q] \intersect held[r] = {}

OpenIsCurrent ==
    \A p \in ProposalIds :
        proposals[p] = "open" => Last(p[1]) > 0 /\ p[2] = Current(p[1]).plan

\* The n-th revision of a session.
SoundRevision(d, n) ==
    /\ d.over = n - 1
    /\ \A k \in Keys : d.reviews[k].verdict # "none" => d.reviews[k].plan = d.plan
    /\ d.preview # NoPreview => d.preview.content = d.content /\ Ready(d)

RevisionsSound == \A s \in Sessions : \A n \in 1 .. Last(s) : SoundRevision(rows[s][n], n)

Talks == FlightsAgree /\ HeldOpen /\ OpenIsCurrent /\ RevisionsSound

\* The versions of the process.
Based ==
    /\ process.active = Len(versions)
    /\ \A v \in DOMAIN versions :
          versions[v] # Others =>
              /\ Last(versions[v]) > 0
              /\ v = base[versions[v]].active + 1

IInv == TypeOK /\ Talks /\ Based

-----------------------------------------------------------------------------
(***************************************************************************)
(* Types                                                                   *)
(***************************************************************************)

LEMMA RowFacts ==
    ASSUME TypeOK, NEW s \in Sessions
    PROVE  /\ Last(s) \in Nat
           /\ rows[s] \in Seq(Revisions)
           /\ \A n \in 1 .. Last(s) : rows[s][n] \in Revisions
  BY DEF TypeOK, Last

LEMMA FlightFacts ==
    ASSUME TypeOK, NEW r \in Requests, req[r] # Idle
    PROVE  /\ req[r] \in Flights
           /\ req[r].session \in Sessions /\ req[r].saw \in Nat
           /\ req[r].op \in Operations /\ req[r].key \in Keys
           /\ req[r].verdict \in {"accepted", "rejected"}
           /\ req[r].proposal \in SUBSET ProposalIds /\ req[r].olds \in SUBSET ProposalIds
  BY DEF TypeOK, Flights

LEMMA IdleFacts == Idle.at = "idle" /\ Idle.op = "none" /\ Idle \notin Flights
  BY DEF Idle, Flights, Operations

LEMMA NewFlightTyped ==
    ASSUME TypeOK, NEW op \in Operations, NEW at \in {"reading", "awaiting", "saving"},
           NEW s \in Sessions, NEW key \in Keys, NEW verdict \in {"accepted", "rejected"},
           NEW proposal \in SUBSET ProposalIds
    PROVE  NewFlight(op, at, s, key, verdict, proposal) \in Flights
  BY RowFacts DEF NewFlight, Flights

LEMMA KeyTyped ==
    /\ "setup" \in Keys
    /\ \A kind \in Kinds : KeyOf(kind) \in Keys
  BY DEF Keys

LEMMA ProposalFacts ==
    ASSUME NEW p \in ProposalIds
    PROVE  p[1] \in Sessions /\ p[2] \in Nat /\ p[2] \in 1 .. MaxRevisions /\ p[3] \in Kinds
           /\ p = <<p[1], p[2], p[3]>>
  BY DiscoveryAssumption DEF ProposalIds

LEMMA Constants ==
    /\ MaxRevisions \in Nat /\ MaxVersions \in Nat
    /\ NoReview \in Reviews /\ NoReview.verdict = "none"
    /\ NoPreview \in Previews
    /\ Unreviewed \in [Keys -> Reviews]
  <1>1. MaxRevisions \in Nat /\ MaxVersions \in Nat
    BY DiscoveryAssumption
  <1>2. NoReview \in Reviews /\ NoReview.verdict = "none"
    BY DEF NoReview, Reviews
  <1>3. NoPreview \in Previews
    BY DEF NoPreview, Previews
  <1>4. Unreviewed \in [Keys -> Reviews]
    BY <1>2 DEF Unreviewed
  <1> QED
    BY <1>1, <1>2, <1>3, <1>4

LEMMA FirstTyped ==
    /\ FirstRevision \in Revisions /\ SoundRevision(FirstRevision, 1)
  <1>1. FirstRevision \in Revisions
    BY Constants DEF FirstRevision, Revisions
  <1>2. \A k \in Keys : FirstRevision.reviews[k] = NoReview
    BY DEF FirstRevision, Unreviewed
  <1>3. FirstRevision.preview = NoPreview /\ FirstRevision.over = 0
    BY DEF FirstRevision
  <1> QED
    BY <1>1, <1>2, <1>3, Constants DEF SoundRevision

-----------------------------------------------------------------------------
(***************************************************************************)
(* What an operation writes                                                *)
(***************************************************************************)

LEMMA ReviewedTyped ==
    ASSUME NEW f \in Flights, Read(f) \in Revisions
    PROVE  /\ Reviewed(f) \in Reviews
           /\ Reviewed(f).plan = IF f.proposal = {} THEN Read(f).plan
                                 ELSE (CHOOSE p \in f.proposal : TRUE)[2]
  <1>1. f.verdict \in {"accepted", "rejected"} /\ f.proposal \in SUBSET ProposalIds
        /\ Read(f).plan \in Nat
    BY DEF Flights, Revisions
  <1>2. CASE f.proposal = {}
    BY <1>1, <1>2 DEF Reviewed, Reviews
  <1>3. CASE f.proposal # {}
    <2>1. (CHOOSE p \in f.proposal : TRUE) \in f.proposal
      BY <1>3
    <2>2. (CHOOSE p \in f.proposal : TRUE)[2] \in Nat
      BY <1>1, <2>1, ProposalFacts
    <2> QED
      BY <1>1, <1>3, <2>2 DEF Reviewed, Reviews
  <1> QED
    BY <1>2, <1>3

LEMMA WrittenParts ==
    ASSUME NEW f \in Flights, Read(f) \in Revisions, NEW valid \in BOOLEAN
    PROVE  LET w == Written(f, valid)
               z == Read(f)
           IN  /\ w \in Revisions
               /\ w.over = f.saw
               /\ w.plan = IF f.op = "revise" THEN f.saw + 1 ELSE z.plan
               /\ w.content = IF f.op \in {"revise", "supply"} THEN f.saw + 1 ELSE z.content
               /\ w.reviews = IF f.op \in {"revise", "supply"} THEN Unreviewed
                              ELSE IF f.op = "review"
                                   THEN [z.reviews EXCEPT ![f.key] = Reviewed(f)]
                              ELSE z.reviews
               /\ w.preview = IF f.op \in {"revise", "supply", "review"} THEN NoPreview
                              ELSE IF f.op = "prepare"
                                   THEN [content |-> z.content, valid |-> valid]
                              ELSE z.preview
  <1> DEFINE z == Read(f)
             d == [z EXCEPT !.over = f.saw]
             n == f.saw + 1
             i == Invalidated(d)
  <1>1. f.saw \in Nat /\ f.key \in Keys /\ n \in Nat /\ Reviewed(f) \in Reviews
    BY ReviewedTyped DEF Flights
  <1>2. /\ d \in Revisions /\ d.over = f.saw /\ d.plan = z.plan /\ d.content = z.content
        /\ d.reviews = z.reviews /\ d.preview = z.preview
    BY <1>1 DEF Revisions
  <1>w. Written(f, valid) =
           CASE f.op = "revise" -> [i EXCEPT !.plan = n, !.content = n]
             [] f.op = "supply" -> [i EXCEPT !.content = n]
             [] f.op = "review" -> [d EXCEPT !.preview = NoPreview, !.reviews[f.key] = Reviewed(f)]
             [] f.op = "prepare" -> [d EXCEPT !.preview = [content |-> d.content, valid |-> valid]]
             [] OTHER -> d
    BY DEF Written
  <1> HIDE DEF d, z, n
  <1>3. /\ i \in Revisions /\ i.over = f.saw /\ i.plan = z.plan /\ i.content = z.content
        /\ i.reviews = Unreviewed /\ i.preview = NoPreview
    BY <1>2, Constants DEF Invalidated, Revisions
  <1> HIDE DEF i
  <1>4. CASE f.op = "revise"
    <2>1. Written(f, valid) = [i EXCEPT !.plan = n, !.content = n]
      BY <1>4, <1>w
    <2> QED
      BY <1>1, <1>3, <1>4, <2>1 DEF Revisions, z, n
  <1>5. CASE f.op = "supply"
    <2>1. Written(f, valid) = [i EXCEPT !.content = n]
      BY <1>5, <1>w
    <2> QED
      BY <1>1, <1>3, <1>5, <2>1 DEF Revisions, z, n
  <1>6. CASE f.op = "review"
    <2>1. Written(f, valid) = [d EXCEPT !.preview = NoPreview, !.reviews[f.key] = Reviewed(f)]
      BY <1>6, <1>w
    <2> DEFINE v == [d.reviews EXCEPT ![f.key] = Reviewed(f)]
    <2>2. v \in [Keys -> Reviews]
      BY <1>1, <1>2 DEF Revisions
    <2>3. Written(f, valid) = [d EXCEPT !.preview = NoPreview, !.reviews = v]
      BY <1>2, <2>1 DEF Revisions
    <2> HIDE DEF v
    <2>4. /\ Written(f, valid) \in Revisions
          /\ Written(f, valid).over = f.saw /\ Written(f, valid).plan = z.plan
          /\ Written(f, valid).content = z.content
          /\ Written(f, valid).reviews = v /\ Written(f, valid).preview = NoPreview
      BY <1>2, <2>2, <2>3, Constants DEF Revisions
    <2> QED
      BY <1>2, <1>6, <2>4 DEF v, z
  <1>7. CASE f.op = "prepare"
    <2>1. Written(f, valid) = [d EXCEPT !.preview = [content |-> d.content, valid |-> valid]]
      BY <1>7, <1>w
    <2>2. [content |-> d.content, valid |-> valid] \in Previews
      BY <1>2 DEF Revisions, Previews
    <2> QED
      BY <1>2, <1>7, <2>1, <2>2 DEF Revisions, z
  <1>8. CASE f.op \notin {"revise", "supply", "review", "prepare"}
    <2>1. Written(f, valid) = d
      BY <1>8, <1>w
    <2> QED
      BY <1>2, <1>8, <2>1 DEF z
  <1> QED
    BY <1>4, <1>5, <1>6, <1>7, <1>8

\* A sound revision is followed by a sound one: the plan of a review that comes from a
\* proposal is the plan that was read, and only a reviewed plan is compiled.
LEMMA WrittenSound ==
    ASSUME NEW f \in Flights, Read(f) \in Revisions, NEW valid \in BOOLEAN,
           SoundRevision(Read(f), f.saw),
           \A p \in f.proposal : p[2] = Read(f).plan,
           f.op = "prepare" => Ready(Read(f))
    PROVE  SoundRevision(Written(f, valid), f.saw + 1)
  <1> DEFINE w == Written(f, valid)
             z == Read(f)
  <1>1. /\ w.over = f.saw /\ f.saw \in Nat /\ f.key \in Keys
        /\ z.reviews \in [Keys -> Reviews]
    BY WrittenParts DEF Flights, Revisions
  <1>2. \A k \in Keys : w.reviews[k].verdict # "none" => w.reviews[k].plan = w.plan
    <2>1. CASE f.op \in {"revise", "supply"}
      <3>1. \A k \in Keys : w.reviews[k] = NoReview
        BY <2>1, WrittenParts DEF Unreviewed
      <3> QED
        BY <3>1, Constants
    <2>2. CASE f.op = "review"
      <3>1. w.plan = z.plan /\ w.reviews = [z.reviews EXCEPT ![f.key] = Reviewed(f)]
        BY <2>2, WrittenParts
      <3>2. Reviewed(f).plan = z.plan
        BY ReviewedTyped
      <3>3. \A k \in Keys : w.reviews[k] = IF k = f.key THEN Reviewed(f) ELSE z.reviews[k]
        BY <1>1, <3>1
      <3> QED
        BY <3>1, <3>2, <3>3 DEF SoundRevision
    <2>3. CASE f.op \notin {"revise", "supply", "review"}
      <3>1. w.plan = z.plan /\ w.reviews = z.reviews
        BY <2>3, WrittenParts
      <3> QED
        BY <3>1 DEF SoundRevision
    <2> QED
      BY <2>1, <2>2, <2>3
  <1>3. w.preview # NoPreview => w.preview.content = w.content /\ Ready(w)
    <2>1. CASE f.op \in {"revise", "supply", "review"}
      BY <2>1, WrittenParts
    <2>2. CASE f.op = "prepare"
      <3>1. w.preview = [content |-> z.content, valid |-> valid] /\ w.content = z.content
            /\ w.reviews = z.reviews
        BY <2>2, WrittenParts
      <3> QED
        BY <2>2, <3>1 DEF Ready
    <2>3. CASE f.op \notin {"revise", "supply", "review", "prepare"}
      <3>1. w.preview = z.preview /\ w.content = z.content /\ w.reviews = z.reviews
        BY <2>3, WrittenParts
      <3> QED
        BY <3>1 DEF SoundRevision, Ready
    <2> QED
      BY <2>1, <2>2, <2>3
  <1> QED
    BY <1>1, <1>2, <1>3 DEF SoundRevision

-----------------------------------------------------------------------------
(***************************************************************************)
(* Frames: what other steps leave of a request's knowledge                 *)
(***************************************************************************)

\* Nothing of the conversations changes.
LEMMA TalksStay ==
    ASSUME Talks, UNCHANGED <<rows, proposals, held, req>>
    PROVE  Talks'
  <1>1. rows' = rows /\ proposals' = proposals /\ held' = held /\ req' = req
    OBVIOUS
  <1>2. \A s : Last(s)' = Last(s) /\ Current(s)' = Current(s) /\ OpenOf(s)' = OpenOf(s)
    BY <1>1 DEF Last, Current, OpenOf
  <1>3. FlightsAgree'
    <2> SUFFICES ASSUME NEW r \in Requests PROVE FlightAgrees(r)'
      BY DEF FlightsAgree
    <2>1. FlightAgrees(r)
      BY DEF Talks, FlightsAgree
    <2>2. req'[r] = req[r] /\ held'[r] = held[r] /\ Last(req[r].session)' = Last(req[r].session)
          /\ Read(req[r])' = Read(req[r]) /\ OpenOf(req[r].session)' = OpenOf(req[r].session)
      BY <1>1, <1>2 DEF Read
    <2> QED
      BY <2>1, <2>2 DEF FlightAgrees
  <1>4. HeldOpen'
    BY <1>1 DEF Talks, HeldOpen
  <1>5. OpenIsCurrent'
    BY <1>1, <1>2 DEF Talks, OpenIsCurrent
  <1>6. RevisionsSound'
    BY <1>1, <1>2 DEF Talks, RevisionsSound
  <1> QED
    BY <1>3, <1>4, <1>5, <1>6 DEF Talks

\* A request that is done holds nothing; the others go on.
LEMMA EndsTyped ==
    ASSUME TypeOK, NEW r \in Requests, Ends(r)
    PROVE  /\ req' \in [Requests -> Flights \union {Idle}]
           /\ held' \in [Requests -> SUBSET ProposalIds]
           /\ req'[r] = Idle /\ held'[r] = {}
           /\ \A q \in Requests \ {r} : req'[q] = req[q] /\ held'[q] = held[q]
  BY DEF TypeOK, Ends

\* While no revision is added and no proposal opened, a request knows what it knew.
LEMMA FlightStays ==
    ASSUME TypeOK, NEW q \in Requests, FlightAgrees(q),
           req'[q] = req[q], held'[q] = held[q], rows' = rows,
           \A p \in ProposalIds : proposals'[p] = "open" => proposals[p] = "open"
    PROVE  FlightAgrees(q)'
  <1>1. OpenOf(req[q].session)' \subseteq OpenOf(req[q].session)
    BY DEF OpenOf
  <1>2. req'[q].session = req[q].session
    OBVIOUS
  <1> QED
    BY <1>1, <1>2 DEF FlightAgrees, Last, Read, Ready, OpenOf

\* A revision that another request adds takes nothing away: if it is of the same
\* session, the request is not about the latest revision any more.
LEMMA FlightSurvives ==
    ASSUME TypeOK, NEW q \in Requests, FlightAgrees(q),
           req'[q] = req[q], held'[q] = held[q],
           NEW s \in Sessions, NEW d, rows' = [rows EXCEPT ![s] = Append(@, d)],
           \A p \in ProposalIds : proposals'[p] = "open" => proposals[p] = "open" \/ p[1] = s
    PROVE  FlightAgrees(q)'
  <1> SUFFICES ASSUME req[q] # Idle PROVE FlightAgrees(q)'
    BY DEF FlightAgrees
  <1>0. PICK f : f = req[q] /\ f = req'[q]
    OBVIOUS
  <1>1. f.session \in Sessions
    BY <1>0, FlightFacts
  <1>2. rows[f.session] \in Seq(Revisions) /\ rows[s] \in Seq(Revisions) /\ s \in DOMAIN rows
    BY <1>1 DEF TypeOK
  <1>3. /\ Last(f.session)' = Last(f.session) + (IF f.session = s THEN 1 ELSE 0)
        /\ \A n \in 1 .. Last(f.session) : rows'[f.session][n] = rows[f.session][n]
    <2>1. CASE f.session = s
      <3>1. rows'[s] = Append(rows[s], d)
        BY <1>2
      <3> QED
        BY <1>2, <2>1, <3>1 DEF Last
    <2>2. CASE f.session # s
      <3>1. rows'[f.session] = rows[f.session]
        BY <1>1, <1>2, <2>2 DEF TypeOK
      <3> QED
        BY <1>2, <2>2, <3>1 DEF Last
    <2> QED
      BY <2>1, <2>2
  <1>4. Last(f.session) \in Nat
    BY <1>1, RowFacts
  <1>5. f.session # s => OpenOf(f.session)' \subseteq OpenOf(f.session)
    BY DEF OpenOf
  <1>6. f.at \in {"awaiting", "saving"} =>
           /\ f.saw \in 1 .. Last(f.session) /\ f.saw \in 1 .. Last(f.session)'
           /\ Read(f)' = Read(f)
           /\ f.saw = Last(f.session)' => f.session # s /\ f.saw = Last(f.session)
    <2> SUFFICES ASSUME f.at \in {"awaiting", "saving"}
                 PROVE  /\ f.saw \in 1 .. Last(f.session) /\ f.saw \in 1 .. Last(f.session)'
                        /\ Read(f)' = Read(f)
                        /\ f.saw = Last(f.session)' => f.session # s /\ f.saw = Last(f.session)
      OBVIOUS
    <2>1. f.saw \in 1 .. Last(f.session)
      BY <1>0 DEF FlightAgrees
    <2>2. Read(f)' = Read(f)
      BY <1>3, <2>1 DEF Read
    <2> QED
      BY <1>3, <1>4, <2>1, <2>2
  <1>8. /\ f.proposal \subseteq held'[q]
        /\ \A p \in f.proposal : p[1] = f.session
        /\ f.at \in {"reading", "settling"} => f.op = "review"
        /\ f.op # "review" => f.proposal = {}
        /\ f.op # "revise" => f.olds = {}
    BY <1>0 DEF FlightAgrees
  <1>9. f.at = "saving" =>
           /\ \A p \in f.proposal : p[2] = Read(f)'.plan
           /\ f.op = "prepare" => Ready(Read(f)')
           /\ (f.op = "revise" /\ f.saw = Last(f.session)') => OpenOf(f.session)' \subseteq f.olds
    BY <1>0, <1>5, <1>6 DEF FlightAgrees
  <1> QED
    BY <1>0, <1>6, <1>8, <1>9 DEF FlightAgrees, Read, Ready

\* An idle request knows nothing.
LEMMA IdleAgrees ==
    ASSUME NEW r \in Requests, req'[r] = Idle
    PROVE  FlightAgrees(r)'
  BY DEF FlightAgrees

-----------------------------------------------------------------------------
(***************************************************************************)
(* Steps that write neither a revision nor a version                       *)
(***************************************************************************)

LEMMA InitIInv == Init => IInv
  <1> SUFFICES ASSUME Init PROVE IInv
    OBVIOUS
  <1>1. process \in Processes /\ process.active = 1
    <2>1. process = [active |-> 1, evidence |-> process.evidence, busy |-> FALSE]
          /\ process.evidence \in Evidence
      BY DEF Init
    <2>2. \A e \in Evidence : [active |-> 1, evidence |-> e, busy |-> FALSE] \in Processes
      BY DEF Processes
    <2> QED
      BY <2>1, <2>2
  <1>2. \A s \in Sessions : rows[s] = <<>> /\ Last(s) = 0
    BY DEF Init, Last
  <1>3. TypeOK
    BY <1>1, <1>2 DEF Init, TypeOK
  <1>4. Talks
    BY <1>2 DEF Init, Talks, FlightsAgree, FlightAgrees, HeldOpen, OpenIsCurrent, RevisionsSound
  <1>5. Len(versions) = 1 /\ \A v \in DOMAIN versions : versions[v] = Others
    BY DEF Init
  <1> QED
    BY <1>1, <1>3, <1>4, <1>5 DEF IInv, Based

LEMMA ProcessKeeps ==
    ASSUME IInv, EvidenceChanges \/ DraftOpens \/ DraftIsDiscarded \/ DraftIsPublished
    PROVE  IInv'
  <1>1. process \in Processes /\ versions \in Seq(Sessions \union {Others})
    BY DEF IInv, TypeOK
  <1>2. process' \in Processes /\ versions' \in Seq(Sessions \union {Others})
    <2>1. /\ \A e \in Evidence : [process EXCEPT !.evidence = e] \in Processes
          /\ [process EXCEPT !.busy = TRUE] \in Processes
          /\ [process EXCEPT !.busy = FALSE] \in Processes
          /\ [process EXCEPT !.busy = FALSE, !.active = @ + 1] \in Processes
      <3>1. \A e \in Evidence : [process EXCEPT !.evidence = e] \in Processes
        BY <1>1 DEF Processes
      <3>2. [process EXCEPT !.busy = TRUE] \in Processes
        BY <1>1 DEF Processes
      <3>3. [process EXCEPT !.busy = FALSE] \in Processes
        BY <1>1 DEF Processes
      <3>4. process.active + 1 \in Nat
        BY <1>1 DEF Processes
      <3>5. \A n \in Nat : [process EXCEPT !.busy = FALSE, !.active = n] \in Processes
        BY <1>1 DEF Processes
      <3> QED
        BY <3>1, <3>2, <3>3, <3>4, <3>5
    <2>2. CASE DraftIsPublished
      BY <1>1, <2>1, <2>2 DEF DraftIsPublished
    <2>3. CASE EvidenceChanges \/ DraftOpens \/ DraftIsDiscarded
      BY <1>1, <2>1, <2>3 DEF EvidenceChanges, DraftOpens, DraftIsDiscarded
    <2> QED
      BY <2>2, <2>3
  <1>3. UNCHANGED <<rows, base, published, proposals, held, req>>
    BY DEF EvidenceChanges, DraftOpens, DraftIsDiscarded, DraftIsPublished
  <1>4. TypeOK'
    BY <1>2, <1>3 DEF IInv, TypeOK
  <1>5. Talks'
    BY <1>3, TalksStay DEF IInv
  <1>6. Based'
    <2>1. CASE DraftIsPublished
      <3>1. process'.active = process.active + 1 /\ versions' = Append(versions, Others)
        BY <1>1, <2>1 DEF DraftIsPublished, Processes
      <3> QED
        BY <1>1, <1>3, <3>1 DEF IInv, Based, Last
    <2>2. CASE EvidenceChanges \/ DraftOpens \/ DraftIsDiscarded
      <3>1. process'.active = process.active /\ versions' = versions
        BY <1>1, <2>2 DEF EvidenceChanges, DraftOpens, DraftIsDiscarded, Processes
      <3> QED
        BY <1>3, <3>1 DEF IInv, Based, Last
    <2> QED
      BY <2>1, <2>2
  <1> QED
    BY <1>4, <1>5, <1>6 DEF IInv

\* A step of one request that changes no row of a conversation but its own locks.
LEMMA RequestKeeps ==
    ASSUME IInv, NEW r \in Requests,
           UNCHANGED <<process, versions, rows, base, published, proposals>>,
           req' \in [Requests -> Flights \union {Idle}],
           held' \in [Requests -> SUBSET ProposalIds],
           \A q \in Requests \ {r} : req'[q] = req[q] /\ held'[q] = held[q],
           \A p \in held'[r] : p \in held[r] \/ (proposals[p] = "open"
                                                  /\ \A q \in Requests : p \notin held[q]),
           FlightAgrees(r)'
    PROVE  IInv'
  <1>1. TypeOK'
    BY DEF IInv, TypeOK
  <1>2. FlightsAgree'
    <2>1. ASSUME NEW q \in Requests, q # r PROVE FlightAgrees(q)'
      BY <2>1, FlightStays DEF IInv, Talks, FlightsAgree
    <2> QED
      BY <2>1 DEF FlightsAgree
  <1>3. HeldOpen'
    <2>1. \A q \in Requests : \A p \in held'[q] : proposals[p] = "open"
      BY DEF IInv, Talks, HeldOpen
    <2>2. ASSUME NEW q \in Requests, NEW u \in Requests, q # u,
                 NEW p \in held'[q] \intersect held'[u]
          PROVE  FALSE
      BY <2>2 DEF IInv, Talks, HeldOpen
    <2> QED
      BY <2>1, <2>2 DEF HeldOpen
  <1>4. OpenIsCurrent' /\ RevisionsSound' /\ Based'
    BY DEF IInv, Talks, OpenIsCurrent, RevisionsSound, SoundRevision, Based, Last, Current, Ready
  <1> QED
    BY <1>1, <1>2, <1>3, <1>4 DEF IInv, Talks

\* Conflict and Fails.
LEMMA EndKeeps ==
    ASSUME IInv, NEW r \in Requests, Ends(r),
           UNCHANGED <<process, versions, rows, base, published, proposals>>
    PROVE  IInv'
  BY EndsTyped, IdleAgrees, RequestKeeps DEF IInv

LEMMA BeginKeeps ==
    ASSUME IInv, NEW r \in Requests, req[r] = Idle,
           NEW op \in Operations, NEW s \in Sessions, NEW key \in Keys,
           NEW verdict \in {"accepted", "rejected"}, Begin(r, op, s, key, verdict)
    PROVE  IInv'
  <1> DEFINE at == IF op = "revise" THEN "awaiting" ELSE "saving"
             f == NewFlight(op, at, s, key, verdict, {})
  <1>1. req' = [req EXCEPT ![r] = f] /\ UNCHANGED <<process, versions, rows, base, published, proposals, held>>
    BY DEF Begin
  <1>2. TypeOK /\ f \in Flights
    BY NewFlightTyped DEF IInv
  <1>3. /\ req' \in [Requests -> Flights \union {Idle}] /\ req'[r] = f
        /\ \A q \in Requests \ {r} : req'[q] = req[q]
    BY <1>1, <1>2 DEF TypeOK
  <1>4. Last(s) \in Nat /\ Last(s) > 0 /\ f.saw = Last(s) /\ f.saw \in 1 .. Last(s)
    BY <1>2, RowFacts DEF Begin, IsOpen, NewFlight
  <1>5. /\ f.op = op /\ f.at = at /\ f.session = s /\ f.proposal = {} /\ f.olds = {}
        /\ op = "prepare" => Ready(Read(f))
    BY DEF Begin, NewFlight, Read, Current
  <1> HIDE DEF f
  <1>6. FlightAgrees(r)'
    BY <1>1, <1>3, <1>4, <1>5 DEF FlightAgrees, Last, Read, Ready
  <1> QED
    BY <1>1, <1>2, <1>3, <1>6, RequestKeeps DEF TypeOK

\* The open proposals are read when the answer has come: none is missed that was opened
\* before the revision it saw was followed by another.
LEMMA AnsweredKeeps ==
    ASSUME IInv, NEW r \in Requests, NEW kinds \in SUBSET Kinds, Answered(r, kinds)
    PROVE  IInv'
  <1>0. PICK f, g : f = req[r] /\ g = req'[r]
    OBVIOUS
  <1>1. f # Idle /\ f.op = "revise" /\ f.at = "awaiting" /\ TypeOK
        /\ UNCHANGED <<process, versions, rows, base, published, proposals, held>>
    BY <1>0, IdleFacts DEF IInv, Answered
  <1>2. f \in Flights /\ OpenOf(f.session) \in SUBSET ProposalIds
    BY <1>0, <1>1, FlightFacts DEF OpenOf
  <1>3. req' = [req EXCEPT ![r].at = "saving", ![r].kinds = kinds, ![r].olds = OpenOf(f.session)]
    BY <1>0 DEF Answered
  <1>4. g = [f EXCEPT !.at = "saving", !.kinds = kinds, !.olds = OpenOf(f.session)]
        /\ \A q \in Requests \ {r} : req'[q] = req[q]
    BY <1>0, <1>1, <1>3 DEF TypeOK
  <1>5. /\ g \in Flights
        /\ g.op = "revise" /\ g.at = "saving" /\ g.session = f.session /\ g.saw = f.saw
        /\ g.proposal = f.proposal /\ g.olds = OpenOf(f.session)
    BY <1>1, <1>2, <1>4 DEF Flights
  <1>6. req' \in [Requests -> Flights \union {Idle}]
    BY <1>0, <1>1, <1>3, <1>4, <1>5 DEF TypeOK
  <1>7. f.saw \in 1 .. Last(f.session) /\ f.proposal = {}
    BY <1>0, <1>1 DEF IInv, Talks, FlightsAgree, FlightAgrees
  <1>8. OpenOf(f.session)' = OpenOf(f.session) /\ Last(f.session)' = Last(f.session)
    BY <1>1 DEF OpenOf, Last
  <1>9. FlightAgrees(r)'
    BY <1>0, <1>1, <1>5, <1>7, <1>8 DEF FlightAgrees
  <1> QED
    BY <1>1, <1>4, <1>6, <1>9, RequestKeeps DEF TypeOK

LEMMA SettleKeeps ==
    ASSUME IInv, NEW r \in Requests, req[r] = Idle, NEW p \in ProposalIds,
           NEW verdict \in {"accepted", "rejected"}, Settle(r, p, verdict)
    PROVE  IInv'
  <1> DEFINE f == NewFlight("review", "reading", p[1], KeyOf(p[3]), verdict, {p})
  <1>1. /\ req' = [req EXCEPT ![r] = f] /\ held' = [held EXCEPT ![r] = {p}]
        /\ proposals[p] = "open" /\ \A q \in Requests : p \notin held[q]
        /\ UNCHANGED <<process, versions, rows, base, published, proposals>>
    BY DEF Settle
  <1>2. TypeOK /\ f \in Flights
    BY NewFlightTyped, ProposalFacts, KeyTyped DEF IInv, Operations
  <1>3. /\ f.op = "review" /\ f.at = "reading" /\ f.session = p[1] /\ f.proposal = {p}
        /\ f.olds = {}
    BY DEF NewFlight
  <1> HIDE DEF f
  <1>4. /\ req' \in [Requests -> Flights \union {Idle}] /\ req'[r] = f
        /\ held' \in [Requests -> SUBSET ProposalIds] /\ held'[r] = {p}
        /\ \A q \in Requests \ {r} : req'[q] = req[q] /\ held'[q] = held[q]
    BY <1>1, <1>2 DEF TypeOK
  <1>5. FlightAgrees(r)'
    BY <1>3, <1>4 DEF FlightAgrees
  <1> QED
    BY <1>1, <1>2, <1>4, <1>5, RequestKeeps

\* The proposal is still open, so it belongs to the plan that is read now.
LEMMA JudgeKeeps ==
    ASSUME IInv, NEW r \in Requests, Judge(r)
    PROVE  IInv'
  <1>0. PICK f, g : f = req[r] /\ g = req'[r]
    OBVIOUS
  <1>1. f # Idle /\ f.at = "reading" /\ TypeOK
        /\ UNCHANGED <<process, versions, rows, base, published, proposals>>
    BY <1>0, IdleFacts DEF IInv, Judge
  <1>2. CASE Ends(r)
    BY <1>1, <1>2, EndKeeps
  <1>3. CASE ~Ends(r)
    <2>1. PICK at \in {"settling", "saving"} :
             /\ req' = [req EXCEPT ![r].at = at, ![r].saw = Last(f.session)]
             /\ at = "saving" => IsOpen(f.session)
             /\ held' = held
      BY <1>0, <1>3 DEF Judge
    <2>2. f \in Flights /\ f.session \in Sessions /\ Last(f.session) \in Nat
      BY <1>0, <1>1, FlightFacts, RowFacts
    <2>3. g = [f EXCEPT !.at = at, !.saw = Last(f.session)]
          /\ \A q \in Requests \ {r} : req'[q] = req[q]
      BY <1>0, <1>1, <2>1 DEF TypeOK
    <2>4. /\ g \in Flights /\ g.op = f.op /\ g.at = at /\ g.session = f.session
          /\ g.saw = Last(f.session) /\ g.proposal = f.proposal /\ g.olds = f.olds
      BY <2>2, <2>3 DEF Flights
    <2>5. req' \in [Requests -> Flights \union {Idle}]
      BY <1>0, <1>1, <2>1, <2>3, <2>4 DEF TypeOK
    <2>6. /\ f.op = "review" /\ f.olds = {} /\ f.proposal \subseteq held[r]
          /\ \A p \in f.proposal : p[1] = f.session
      BY <1>0, <1>1 DEF IInv, Talks, FlightsAgree, FlightAgrees
    <2>7. \A p \in f.proposal : p[2] = Current(f.session).plan
      <3>1. \A p \in f.proposal : p \in ProposalIds /\ proposals[p] = "open"
        BY <1>0, <1>1, <2>6, FlightFacts DEF IInv, Talks, HeldOpen
      <3> QED
        BY <2>6, <3>1 DEF IInv, Talks, OpenIsCurrent
    <2>8. at = "saving" => Last(f.session) \in 1 .. Last(f.session)
      BY <2>1, <2>2 DEF IsOpen
    <2>9. Read(g)' = Current(f.session)
      BY <1>1, <2>4 DEF Read, Current, Last
    <2>10. Last(f.session)' = Last(f.session)
      BY <1>1 DEF Last
    <2>11. FlightAgrees(r)'
      BY <1>0, <2>1, <2>4, <2>6, <2>7, <2>8, <2>9, <2>10 DEF FlightAgrees
    <2> QED
      BY <1>1, <2>1, <2>3, <2>5, <2>11, RequestKeeps DEF TypeOK
  <1> QED
    BY <1>2, <1>3

-----------------------------------------------------------------------------
(***************************************************************************)
(* Steps that write proposals, revisions and versions                      *)
(***************************************************************************)

\* Settling alone: the proposals are locked, and none is opened.
LEMMA SettledAloneKeeps ==
    ASSUME IInv, NEW r \in Requests, SettledAlone(r)
    PROVE  IInv'
  <1>0. PICK f : f = req[r]
    OBVIOUS
  <1>1. f # Idle /\ f.at = "settling" /\ TypeOK /\ Ends(r) /\ proposals' = Settles(f)
        /\ UNCHANGED <<process, versions, rows, base, published>>
    BY <1>0, IdleFacts DEF IInv, SettledAlone
  <1>2. f.op = "review" /\ f.olds = {} /\ f.proposal \subseteq held[r]
    BY <1>0, <1>1 DEF IInv, Talks, FlightsAgree, FlightAgrees
  <1>3. f.verdict \in {"accepted", "rejected"} /\ f.proposal \in SUBSET ProposalIds
    BY <1>0, <1>1, FlightFacts
  <1>4. \A p \in ProposalIds :
           proposals'[p] = IF p \in f.proposal THEN f.verdict ELSE proposals[p]
    BY <1>1, <1>2 DEF Settles
  <1>5. TypeOK'
    <2>1. proposals' \in [ProposalIds -> {"none", "open", "accepted", "rejected", "superseded"}]
      BY <1>1, <1>2, <1>3 DEF Settles, TypeOK
    <2> QED
      BY <1>1, <2>1, EndsTyped DEF TypeOK
  <1>6. \A p \in ProposalIds : proposals'[p] = "open" => proposals[p] = "open"
    BY <1>3, <1>4
  <1>7. FlightsAgree'
    <2>1. ASSUME NEW q \in Requests, q # r PROVE FlightAgrees(q)'
      BY <1>1, <1>6, <2>1, EndsTyped, FlightStays DEF IInv, Talks, FlightsAgree
    <2> QED
      BY <1>1, <2>1, EndsTyped, IdleAgrees DEF FlightsAgree
  <1>8. HeldOpen'
    <2>1. ASSUME NEW q \in Requests, NEW p \in held'[q] PROVE proposals'[p] = "open"
      <3>1. q # r /\ p \in held[q] /\ p \in ProposalIds
        BY <1>1, <2>1, EndsTyped DEF TypeOK
      <3>2. p \notin f.proposal /\ proposals[p] = "open"
        BY <1>2, <3>1 DEF IInv, Talks, HeldOpen
      <3> QED
        BY <1>4, <3>1, <3>2
    <2>2. \A q, u \in Requests : q # u => held'[q] \intersect held'[u] = {}
      BY <1>1, EndsTyped DEF IInv, Talks, HeldOpen
    <2> QED
      BY <2>1, <2>2 DEF HeldOpen
  <1>9. OpenIsCurrent' /\ RevisionsSound' /\ Based'
    BY <1>1, <1>6 DEF IInv, Talks, OpenIsCurrent, RevisionsSound, SoundRevision, Based, Last,
                      Current, Ready
  <1> QED
    BY <1>5, <1>7, <1>8, <1>9 DEF IInv, Talks

\* A session starts: nothing was known of it.
LEMMA StartKeeps ==
    ASSUME IInv, NEW s \in Sessions, Start(s)
    PROVE  IInv'
  <1>1. TypeOK /\ rows \in [Sessions -> Seq(Revisions)] /\ Last(s) = 0
        /\ rows' = [rows EXCEPT ![s] = <<FirstRevision>>]
        /\ base' = [base EXCEPT ![s] = [process EXCEPT !.busy = FALSE]]
        /\ UNCHANGED <<process, versions, published, proposals, held, req>>
    BY DEF IInv, TypeOK, Start
  <1>2. rows[s] = <<>>
    BY <1>1 DEF Last
  <1>3. rows' = [rows EXCEPT ![s] = Append(@, FirstRevision)]
    BY <1>1, <1>2
  <1>4. /\ rows' \in [Sessions -> Seq(Revisions)]
        /\ rows'[s] = <<FirstRevision>> /\ Last(s)' = 1
        /\ \A t \in Sessions \ {s} : rows'[t] = rows[t] /\ Last(t)' = Last(t)
    BY <1>1, FirstTyped DEF Last
  <1>5. TypeOK'
    <2>1. process \in Processes /\ base \in [Sessions -> Processes]
      BY <1>1 DEF TypeOK
    <2>2. [process EXCEPT !.busy = FALSE] \in Processes
      BY <2>1 DEF Processes
    <2>3. base' \in [Sessions -> Processes]
      BY <1>1, <2>1, <2>2
    <2> QED
      BY <1>1, <1>4, <2>3 DEF TypeOK
  <1>6. FlightsAgree'
    <2>1. ASSUME NEW q \in Requests PROVE FlightAgrees(q)'
      BY <1>1, <1>3, FlightSurvives DEF IInv, Talks, FlightsAgree
    <2> QED
      BY <2>1 DEF FlightsAgree
  <1>7. HeldOpen'
    BY <1>1 DEF IInv, Talks, HeldOpen
  <1>8. OpenIsCurrent'
    <2> SUFFICES ASSUME NEW p \in ProposalIds, proposals[p] = "open"
                 PROVE  Last(p[1])' > 0 /\ p[2] = Current(p[1])'.plan
      BY <1>1 DEF OpenIsCurrent
    <2>1. p[1] \in Sessions /\ Last(p[1]) > 0 /\ p[2] = Current(p[1]).plan
      BY ProposalFacts DEF IInv, Talks, OpenIsCurrent
    <2>2. p[1] # s
      BY <1>1, <2>1
    <2> QED
      BY <1>4, <2>1, <2>2 DEF Current
  <1>9. RevisionsSound'
    <2>1. ASSUME NEW t \in Sessions, NEW n \in 1 .. Last(t)' PROVE SoundRevision(rows'[t][n], n)
      <3>1. CASE t = s
        BY <1>4, <2>1, <3>1, FirstTyped
      <3>2. CASE t # s
        BY <1>4, <2>1, <3>2 DEF IInv, Talks, RevisionsSound
      <3> QED
        BY <3>1, <3>2
    <2> QED
      BY <2>1 DEF RevisionsSound, SoundRevision, Ready
  <1>10. Based'
    <2> SUFFICES ASSUME NEW v \in DOMAIN versions, versions[v] # Others
                 PROVE  Last(versions[v])' > 0 /\ v = base'[versions[v]].active + 1
      BY <1>1 DEF IInv, Based
    <2>1. versions[v] \in Sessions /\ Last(versions[v]) > 0
          /\ v = base[versions[v]].active + 1
      BY <1>1 DEF IInv, Based, TypeOK
    <2>2. versions[v] # s
      BY <1>1, <2>1
    <2> QED
      BY <1>1, <1>4, <2>1, <2>2 DEF TypeOK
  <1> QED
    BY <1>5, <1>6, <1>7, <1>8, <1>9, <1>10 DEF IInv, Talks

\* A position of a sequence grown by one is the new one or an earlier one.
LEMMA LastOrEarlier ==
    ASSUME NEW m, m \in Nat, NEW n \in 1 .. (m + 1) PROVE n = m + 1 \/ n \in 1 .. m
  OBVIOUS

\* What Save and Publish write is a sound revision after the latest.
Wrote(f, w) ==
    /\ f \in Flights /\ f.session \in Sessions /\ f.saw = Last(f.session)
    /\ rows' \in [Sessions -> Seq(Revisions)]
    /\ Last(f.session)' = f.saw + 1 /\ Current(f.session)' = w
    /\ w.plan = IF f.op = "revise" THEN f.saw + 1 ELSE Current(f.session).plan
    /\ \A t \in Sessions \ {f.session} : rows'[t] = rows[t] /\ Last(t)' = Last(t)
    /\ RevisionsSound'

LEMMA Appended ==
    ASSUME IInv, NEW r \in Requests, NEW f, f = req[r], f.at = "saving", Latest(f),
           NEW valid \in BOOLEAN, NEW w, w = Written(f, valid),
           rows' = [rows EXCEPT ![f.session] = Append(@, w)]
    PROVE  Wrote(f, w)
  <1>1. TypeOK /\ f # Idle /\ f \in Flights /\ f.session \in Sessions
        /\ f.saw = Last(f.session) /\ Read(f) = Current(f.session)
    BY IdleFacts, FlightFacts DEF IInv, Latest, Read, Current
  <1>2. /\ f.saw \in 1 .. Last(f.session)
        /\ \A p \in f.proposal : p[2] = Read(f).plan
        /\ f.op = "prepare" => Ready(Read(f))
    BY <1>1 DEF IInv, Talks, FlightsAgree, FlightAgrees
  <1>3. f.saw \in Nat /\ rows[f.session] \in Seq(Revisions) /\ Read(f) \in Revisions
        /\ rows \in [Sessions -> Seq(Revisions)]
    BY <1>1, <1>2, RowFacts DEF Read, TypeOK
  <1>4. SoundRevision(Read(f), f.saw)
    BY <1>1, <1>2 DEF IInv, Talks, RevisionsSound, Read
  <1>5. w \in Revisions /\ SoundRevision(w, f.saw + 1)
        /\ w.plan = IF f.op = "revise" THEN f.saw + 1 ELSE Current(f.session).plan
    BY <1>1, <1>2, <1>3, <1>4, WrittenParts, WrittenSound
  <1>6. /\ rows' \in [Sessions -> Seq(Revisions)]
        /\ rows'[f.session] = Append(rows[f.session], w)
        /\ \A t \in Sessions \ {f.session} : rows'[t] = rows[t] /\ Last(t)' = Last(t)
    <2>1. Append(rows[f.session], w) \in Seq(Revisions)
      BY <1>3, <1>5
    <2>2. rows'[f.session] = Append(rows[f.session], w)
      BY <1>1, <1>3
    <2> DEFINE z == Append(rows[f.session], w)
    <2>0. rows' = [rows EXCEPT ![f.session] = z]
      OBVIOUS
    <2> HIDE DEF z
    <2>3. \A t \in Sessions \ {f.session} : rows'[t] = rows[t]
      BY <1>3, <2>0
    <2>4. rows' \in [Sessions -> Seq(Revisions)]
      BY <1>1, <1>3, <2>0, <2>1 DEF z
    <2> QED
      BY <2>2, <2>3, <2>4 DEF Last
  <1>7. Len(rows'[f.session]) = f.saw + 1 /\ rows'[f.session][f.saw + 1] = w
        /\ \A n \in 1 .. f.saw : rows'[f.session][n] = rows[f.session][n]
    <2> DEFINE z == rows[f.session]
    <2>1. z \in Seq(Revisions) /\ Len(z) = f.saw
      BY <1>1, <1>3 DEF Last
    <2>2. rows'[f.session] = Append(z, w)
      BY <1>6
    <2> HIDE DEF z
    <2>3. /\ Len(Append(z, w)) = Len(z) + 1 /\ Append(z, w)[Len(z) + 1] = w
          /\ \A n \in 1 .. Len(z) : Append(z, w)[n] = z[n]
      BY <2>1
    <2> QED
      BY <2>1, <2>2, <2>3 DEF z
  <1>8. Last(f.session)' = f.saw + 1 /\ Current(f.session)' = w
    <2>1. ASSUME NEW s \in Sessions, s = f.session
          PROVE  Last(s)' = f.saw + 1 /\ Current(s)' = w
      BY <1>7, <2>1 DEF Last, Current
    <2> QED
      BY <1>1, <2>1
  <1>9. RevisionsSound'
    <2>1. ASSUME NEW t \in Sessions, NEW n \in 1 .. Last(t)' PROVE SoundRevision(rows'[t][n], n)
      <3>1. CASE t = f.session
        <4>1. n \in 1 .. (f.saw + 1)
          BY <1>8, <2>1, <3>1
        <4>2. CASE n = f.saw + 1
          <5>1. rows'[t][n] = w
            BY <1>7, <3>1, <4>2
          <5> QED
            BY <1>5, <4>2, <5>1
        <4>3. CASE n \in 1 .. f.saw
          <5>1. rows'[t][n] = rows[t][n]
            BY <1>7, <3>1, <4>3
          <5>2. SoundRevision(rows[t][n], n)
            BY <1>1, <3>1, <4>3 DEF IInv, Talks, RevisionsSound
          <5> QED
            BY <5>1, <5>2
        <4>4. n = f.saw + 1 \/ n \in 1 .. f.saw
          BY <1>3, <4>1, LastOrEarlier
        <4> QED
          BY <4>2, <4>3, <4>4, Zenon
      <3>2. CASE t # f.session
        BY <1>6, <2>1, <3>2 DEF IInv, Talks, RevisionsSound
      <3> QED
        BY <3>1, <3>2
    <2> QED
      BY <2>1 DEF RevisionsSound, SoundRevision, Ready
  <1> QED
    BY <1>1, <1>5, <1>6, <1>8, <1>9 DEF Wrote

LEMMA SaveKeeps ==
    ASSUME IInv, NEW r \in Requests, Save(r)
    PROVE  IInv'
  <1>0. PICK f : f = req[r]
    OBVIOUS
  <1>1. /\ f.at = "saving" /\ f.op # "publish" /\ Writable(r) /\ Latest(f)
        /\ f.saw < MaxRevisions
        /\ proposals' = Settles(f) /\ Ends(r)
        /\ UNCHANGED <<process, versions, base, published>>
    BY <1>0 DEF Save
  <1>2. PICK valid \in BOOLEAN :
           rows' = [rows EXCEPT ![f.session] = Append(@, Written(f, valid))]
    BY <1>0 DEF Save
  <1>3. PICK w : w = Written(f, valid)
    OBVIOUS
  <1>4. /\ f \in Flights /\ f.session \in Sessions /\ f.saw = Last(f.session)
        /\ rows' \in [Sessions -> Seq(Revisions)]
        /\ Last(f.session)' = f.saw + 1 /\ Current(f.session)' = w
        /\ w.plan = IF f.op = "revise" THEN f.saw + 1 ELSE Current(f.session).plan
        /\ \A t \in Sessions \ {f.session} : rows'[t] = rows[t] /\ Last(t)' = Last(t)
        /\ RevisionsSound'
    <2>1. rows' = [rows EXCEPT ![f.session] = Append(@, w)]
      BY <1>2, <1>3
    <2>2. IInv /\ r \in Requests /\ f = req[r] /\ f.at = "saving" /\ Latest(f)
          /\ valid \in BOOLEAN /\ w = Written(f, valid)
      BY <1>0, <1>1, <1>2, <1>3
    <2>3. Wrote(f, w)
      BY <2>1, <2>2, Appended
    <2> QED
      BY <2>3 DEF Wrote
  <1>5. /\ f # Idle /\ f.proposal \subseteq held[r] /\ f.saw \in Nat
        /\ f.verdict \in {"accepted", "rejected"}
        /\ f.op # "revise" => f.olds = {}
        /\ f.op = "revise" => f.proposal = {} /\ OpenOf(f.session) \subseteq f.olds
    BY <1>0, <1>1, <1>4, IdleFacts DEF IInv, Talks, FlightsAgree, FlightAgrees, Flights
  <1>6. \A p \in ProposalIds :
           /\ proposals'[p] \in {"none", "open", "accepted", "rejected", "superseded"}
           /\ p \in f.olds => proposals'[p] = "superseded"
           /\ proposals'[p] = "open" =>
                 \/ proposals[p] = "open" /\ p \notin f.olds
                 \/ f.op = "revise" /\ p[1] = f.session /\ p[2] = f.saw + 1
           /\ proposals[p] = "open" /\ p \notin f.olds /\ p \notin f.proposal
                 => proposals'[p] = "open"
    <2> TAKE p \in ProposalIds
    <2>1. proposals[p] \in {"none", "open", "accepted", "rejected", "superseded"}
      BY DEF IInv, TypeOK
    <2>2. proposals'[p] =
             IF p \in f.olds THEN "superseded"
             ELSE IF p \in f.proposal THEN f.verdict
             ELSE IF f.op = "revise" /\ p \in {<<f.session, f.saw + 1, k>> : k \in f.kinds} THEN "open"
             ELSE proposals[p]
      BY <1>1 DEF Settles
    <2>3. p \in {<<f.session, f.saw + 1, k>> : k \in f.kinds} => p[1] = f.session /\ p[2] = f.saw + 1
      OBVIOUS
    <2>4. p \in f.olds => f.op = "revise" /\ p \notin f.proposal
      BY <1>5
    <2> DEFINE new == p \in {<<f.session, f.saw + 1, k>> : k \in f.kinds}
    <2> HIDE DEF new
    <2>5. CASE p \in f.olds
      BY <2>2, <2>4, <2>5
    <2>6. CASE p \in f.proposal
      BY <1>5, <2>2, <2>4, <2>6
    <2>7. CASE p \notin f.olds /\ p \notin f.proposal
      <3>1. proposals'[p] = IF f.op = "revise" /\ new THEN "open" ELSE proposals[p]
        BY <2>2, <2>7 DEF new
      <3>2. new => p[1] = f.session /\ p[2] = f.saw + 1
        BY <2>3 DEF new
      <3> QED
        BY <2>1, <2>7, <3>1, <3>2
    <2> QED
      BY <2>5, <2>6, <2>7
  <1>7. TypeOK'
    <2>1. proposals' \in [ProposalIds -> {"none", "open", "accepted", "rejected", "superseded"}]
      <3>1. proposals' = [p \in ProposalIds |-> proposals'[p]]
        BY <1>1 DEF Settles
      <3> QED
        BY <1>6, <3>1
    <2> QED
      BY <1>1, <1>4, <2>1, EndsTyped DEF IInv, TypeOK
  <1>8. FlightsAgree'
    <2>1. \A p \in ProposalIds : proposals'[p] = "open" => proposals[p] = "open" \/ p[1] = f.session
      BY <1>6
    <2>2. ASSUME NEW q \in Requests, q # r PROVE FlightAgrees(q)'
      <3>1. TypeOK /\ FlightAgrees(q)
        BY DEF IInv, Talks, FlightsAgree
      <3>2. req'[q] = req[q] /\ held'[q] = held[q]
        BY <1>1, <2>2, <3>1, EndsTyped
      <3>3. PICK s \in Sessions : s = f.session
        BY <1>4
      <3>4. PICK d : d = Written(f, valid)
        OBVIOUS
      <3>5. rows' = [rows EXCEPT ![s] = Append(@, d)]
        BY <1>2, <3>3, <3>4
      <3>6. \A p \in ProposalIds : proposals'[p] = "open" => proposals[p] = "open" \/ p[1] = s
        BY <2>1, <3>3
      <3> QED
        BY <3>1, <3>2, <3>5, <3>6, FlightSurvives
    <2> QED
      BY <1>1, <2>2, EndsTyped, IdleAgrees DEF IInv, FlightsAgree
  <1>9. HeldOpen'
    <2>1. ASSUME NEW q \in Requests, NEW p \in held'[q] PROVE proposals'[p] = "open"
      <3>1. q # r /\ p \in held[q] /\ p \in ProposalIds
        BY <1>1, <2>1, EndsTyped DEF IInv, TypeOK
      <3>2. p \notin f.proposal /\ proposals[p] = "open"
        BY <1>5, <3>1 DEF IInv, Talks, HeldOpen
      <3>3. p \notin f.olds
        BY <1>0, <1>1, <3>1 DEF Writable
      <3> QED
        BY <1>6, <3>1, <3>2, <3>3
    <2>2. \A q, u \in Requests : q # u => held'[q] \intersect held'[u] = {}
      BY <1>1, EndsTyped DEF IInv, Talks, HeldOpen
    <2> QED
      BY <2>1, <2>2 DEF HeldOpen
  <1>10. OpenIsCurrent'
    <2> SUFFICES ASSUME NEW p \in ProposalIds, proposals'[p] = "open"
                 PROVE  Last(p[1])' > 0 /\ p[2] = Current(p[1])'.plan
      BY DEF OpenIsCurrent
    <2>1. p[1] \in Sessions
      BY ProposalFacts
    <2>2. CASE p[1] = f.session
      <3>1. Last(p[1])' = f.saw + 1 /\ Current(p[1])' = w
        BY <1>4, <2>2
      <3>2. CASE f.op = "revise"
        <4>1. p[2] = f.saw + 1
          BY <1>5, <1>6, <2>2, <3>2 DEF OpenOf
        <4> QED
          BY <1>4, <1>5, <3>1, <3>2, <4>1
      <3>3. CASE f.op # "revise"
        <4>1. p[2] = Current(f.session).plan
          BY <1>6, <2>2, <3>3 DEF IInv, Talks, OpenIsCurrent
        <4> QED
          BY <1>4, <1>5, <3>1, <3>3, <4>1
      <3> QED
        BY <3>2, <3>3
    <2>3. CASE p[1] # f.session
      <3>1. Last(p[1]) > 0 /\ p[2] = Current(p[1]).plan
        BY <1>6, <2>3 DEF IInv, Talks, OpenIsCurrent
      <3>2. Last(p[1])' = Last(p[1]) /\ rows'[p[1]] = rows[p[1]]
        BY <1>4, <2>1, <2>3
      <3> QED
        BY <3>1, <3>2 DEF Current
    <2> QED
      BY <2>2, <2>3
  <1>11. Based'
    <2> SUFFICES ASSUME NEW v \in DOMAIN versions, versions[v] # Others
                 PROVE  Last(versions[v])' > 0
      BY <1>1 DEF IInv, Based
    <2>0. PICK u : u = versions[v] /\ u = versions'[v]
      BY <1>1
    <2>1. u \in Sessions /\ Last(u) > 0
      <3>1. versions \in Seq(Sessions \union {Others})
        BY DEF IInv, TypeOK
      <3>2. versions[v] \in Sessions
        BY <3>1
      <3>3. Last(versions[v]) > 0
        BY DEF IInv, Based
      <3> QED
        BY <2>0, <3>2, <3>3
    <2>2. Last(u)' > 0
      BY <1>4, <1>5, <2>1
    <2> QED
      BY <1>1, <2>0, <2>2 DEF Last
  <1> QED
    BY <1>4, <1>7, <1>8, <1>9, <1>10, <1>11 DEF IInv, Talks

LEMMA PublishKeeps ==
    ASSUME IInv, NEW r \in Requests, Publish(r)
    PROVE  IInv'
  <1>0. PICK f, w : f = req[r] /\ w = Written(f, FALSE)
    OBVIOUS
  <1>1. /\ f.at = "saving" /\ f.op = "publish" /\ Latest(f) /\ BaseHolds(f.session)
        /\ rows' = [rows EXCEPT ![f.session] = Append(@, w)]
        /\ published' = published \union {f.session}
        /\ process' = [process EXCEPT !.active = @ + 1]
        /\ versions' = Append(versions, f.session)
        /\ Ends(r) /\ UNCHANGED <<base, proposals>>
    BY <1>0 DEF Publish, StillValid
  <1>2. /\ f \in Flights /\ f.session \in Sessions /\ f.saw = Last(f.session)
        /\ rows' \in [Sessions -> Seq(Revisions)]
        /\ Last(f.session)' = f.saw + 1 /\ Current(f.session)' = w
        /\ w.plan = Current(f.session).plan
        /\ \A t \in Sessions \ {f.session} : rows'[t] = rows[t] /\ Last(t)' = Last(t)
        /\ RevisionsSound'
    <2>1. FALSE \in BOOLEAN /\ f.op # "revise"
      BY <1>1
    <2>2. Wrote(f, w)
      BY <1>0, <1>1, <2>1, Appended
    <2> QED
      BY <2>1, <2>2 DEF Wrote
  <1>3. TypeOK /\ f.saw \in Nat /\ process \in Processes /\ process.active \in Nat
        /\ versions \in Seq(Sessions \union {Others})
    BY <1>2 DEF IInv, TypeOK, Flights, Processes
  <1>4. process' \in Processes /\ process'.active = process.active + 1
    BY <1>1, <1>3 DEF Processes
  <1>5. versions' \in Seq(Sessions \union {Others}) /\ published' \subseteq Sessions
    BY <1>1, <1>2, <1>3 DEF TypeOK
  <1>6. TypeOK'
    BY <1>1, <1>2, <1>3, <1>4, <1>5, EndsTyped DEF TypeOK
  <1>7. FlightsAgree'
    <2>1. ASSUME NEW q \in Requests, q # r PROVE FlightAgrees(q)'
      <3>1. TypeOK /\ FlightAgrees(q)
        BY DEF IInv, Talks, FlightsAgree
      <3>2. req'[q] = req[q] /\ held'[q] = held[q]
        BY <1>1, <2>1, <3>1, EndsTyped
      <3>3. PICK s \in Sessions : s = f.session
        BY <1>2
      <3>4. rows' = [rows EXCEPT ![s] = Append(@, w)] /\ proposals' = proposals
        BY <1>1, <3>3
      <3> QED
        BY <3>1, <3>2, <3>4, FlightSurvives
    <2> QED
      BY <1>1, <1>3, <2>1, EndsTyped, IdleAgrees DEF FlightsAgree
  <1>8. HeldOpen'
    BY <1>1, <1>3, EndsTyped DEF IInv, Talks, HeldOpen
  <1>9. OpenIsCurrent'
    <2> SUFFICES ASSUME NEW p \in ProposalIds, proposals[p] = "open"
                 PROVE  Last(p[1])' > 0 /\ p[2] = Current(p[1])'.plan
      BY <1>1 DEF OpenIsCurrent
    <2>1. p[1] \in Sessions /\ Last(p[1]) > 0 /\ p[2] = Current(p[1]).plan
      BY ProposalFacts DEF IInv, Talks, OpenIsCurrent
    <2>2. CASE p[1] = f.session
      BY <1>2, <1>3, <2>1, <2>2
    <2>3. CASE p[1] # f.session
      <3>1. Last(p[1])' = Last(p[1]) /\ rows'[p[1]] = rows[p[1]]
        BY <1>2, <2>1, <2>3
      <3> QED
        BY <2>1, <3>1 DEF Current
    <2> QED
      BY <2>2, <2>3
  <1>10. Based'
    <2>1. process'.active = Len(versions')
      BY <1>1, <1>3, <1>4 DEF IInv, Based
    <2>2. ASSUME NEW v \in DOMAIN versions', versions'[v] # Others
          PROVE  Len(rows'[versions'[v]]) > 0 /\ v = base'[versions'[v]].active + 1
      <3>0. \A t \in Sessions : Last(t)' = Len(rows'[t])
        BY DEF Last
      <3>1. CASE v \in DOMAIN versions
        <4>1. versions'[v] = versions[v]
          BY <1>1, <1>3, <3>1
        <4>2. versions[v] \in Sessions /\ Last(versions[v]) > 0
              /\ v = base[versions[v]].active + 1
          BY <1>3, <2>2, <3>1, <4>1 DEF IInv, Based
        <4> QED
          BY <1>1, <1>2, <1>3, <3>0, <4>1, <4>2
      <3>2. CASE v \notin DOMAIN versions
        <4>1. v = Len(versions) + 1 /\ versions'[v] = f.session
          BY <1>1, <1>3, <2>2, <3>2
        <4>2. base[f.session] = process
          BY <1>1 DEF BaseHolds
        <4> QED
          BY <1>1, <1>2, <1>3, <3>0, <4>1, <4>2 DEF IInv, Based
      <3> QED
        BY <3>1, <3>2
    <2> QED
      BY <2>1, <2>2 DEF Based, Last
  <1> QED
    BY <1>2, <1>6, <1>7, <1>8, <1>9, <1>10 DEF IInv, Talks

-----------------------------------------------------------------------------
(***************************************************************************)
(* Every step, and the theorems                                            *)
(***************************************************************************)

LEMMA StepIInv == IInv /\ [Next]_vars => IInv'
  <1> SUFFICES ASSUME IInv, [Next]_vars PROVE IInv'
    OBVIOUS
  <1>1. CASE UNCHANGED vars
    <2>1. TypeOK' /\ Based'
      BY <1>1 DEF vars, IInv, TypeOK, Based, Last
    <2>2. Talks'
      BY <1>1, TalksStay DEF vars, IInv
    <2> QED
      BY <2>1, <2>2 DEF IInv
  <1>2. CASE EvidenceChanges \/ DraftOpens \/ DraftIsDiscarded \/ DraftIsPublished
    BY <1>2, ProcessKeeps
  <1>3. ASSUME NEW s \in Sessions, Start(s) PROVE IInv'
    BY <1>3, StartKeeps
  <1>4. ASSUME NEW r \in Requests, Begins(r) PROVE IInv'
    <2>1. ASSUME NEW s \in Sessions, NEW op \in {"discuss", "revise", "supply", "prepare", "publish"},
                 Begin(r, op, s, "setup", "accepted")
          PROVE  IInv'
      BY <1>4, <2>1, BeginKeeps, KeyTyped DEF Begins, Operations
    <2>2. ASSUME NEW s \in Sessions, NEW key \in Keys, NEW verdict \in {"accepted", "rejected"},
                 Begin(r, "review", s, key, verdict)
          PROVE  IInv'
      BY <1>4, <2>2, BeginKeeps DEF Begins, Operations
    <2>3. ASSUME NEW p \in ProposalIds, NEW verdict \in {"accepted", "rejected"},
                 Settle(r, p, verdict)
          PROVE  IInv'
      BY <1>4, <2>3, SettleKeeps DEF Begins
    <2> QED
      BY <1>4, <2>1, <2>2, <2>3 DEF Begins
  <1>5. ASSUME NEW r \in Requests, Advances(r) PROVE IInv'
    <2>1. CASE Conflict(r)
      BY <2>1, EndKeeps DEF Conflict
    <2> QED
      BY <1>5, <2>1, AnsweredKeeps, JudgeKeeps, SettledAloneKeeps, SaveKeeps, PublishKeeps
         DEF Advances
  <1>6. ASSUME NEW r \in Requests, Fails(r) PROVE IInv'
    BY <1>6, EndKeeps DEF Fails
  <1> QED
    BY <1>1, <1>2, <1>3, <1>4, <1>5, <1>6 DEF Next

\* The invariant holds in every reachable state.
THEOREM SpecInv == Spec => []IInv
  <1> QED
    BY InitIInv, StepIInv, PTL DEF Spec

LEMMA StoredFacts ==
    ASSUME NEW x \in Stored
    PROVE  x[1] \in Sessions /\ x[2] \in 1 .. Last(x[1])
  <1>1. x \in Sessions \X (1 .. MaxRevisions) /\ x[2] <= Last(x[1])
    BY DEF Stored
  <1> QED
    BY <1>1, DiscoveryAssumption

\* No answer that was awaited meanwhile overwrites another: every revision was made
\* from the one before it.
THEOREM NoneOverwritten == Spec => []NothingOverwritten
  <1>1. IInv => NothingOverwritten
    BY StoredFacts DEF IInv, Talks, RevisionsSound, SoundRevision, NothingOverwritten
  <1> QED
    BY <1>1, SpecInv, PTL

\* A session publishes on the very version it started from, however long its agent
\* and its manager took.
THEOREM OnItsBase == Spec => []PublishedOnItsBase
  <1>1. IInv => PublishedOnItsBase
    BY DEF IInv, Based, PublishedOnItsBase
  <1> QED
    BY <1>1, SpecInv, PTL

\* What a manager approved is the plan beside the approval, also when the approval came
\* from a proposal, and what may be published was compiled from what stands beside it.
THEOREM ApprovedAsSeen == Spec => []ApprovalsHold
  <1>1. IInv => ApprovalsHold
    <2> SUFFICES ASSUME IInv PROVE ApprovalsHold
      OBVIOUS
    <2>1. ASSUME NEW x \in Stored PROVE SoundRevision(rows[x[1]][x[2]], x[2])
      BY StoredFacts DEF IInv, Talks, RevisionsSound
    <2>2. ReviewsAreOfThePlan
      BY <2>1 DEF ReviewsAreOfThePlan, SoundRevision
    <2>3. PreviewIsOfTheContent
      BY <2>1 DEF PreviewIsOfTheContent, SoundRevision
    <2> QED
      BY <2>2, <2>3 DEF IInv, ApprovalsHold
  <1> QED
    BY <1>1, SpecInv, PTL


-----------------------------------------------------------------------------
(***************************************************************************)
(* The plan of one conversation (PlanCompilation), for any contexts, rows, *)
(* proposals and examples.  The version that a conversation starts from is *)
(* the one of its process until it publishes, and its rule and the row of  *)
(* the rule differ in the build only.                                      *)
(***************************************************************************)
Original ==
    \E c \in Contexts, t \in Tables, l \in Tables, b \in {0, 1} :
        /\ found = [context |-> c, rules |-> {Plan!First(c, t)}, loads |-> l]
        /\ version = [context |-> c, rules |-> {Plan!First(c, t)}]
        /\ row = [Plan!First(c, t) EXCEPT !.build = b]

OnePlan == plan \in Plan!Plans

\* A rule that a proposal has become, in a plan.
RuleOf(r, q) ==
    /\ r.slot \in Plan!Slots /\ r.slot[1] = q.name
    /\ r.text = q.text /\ r.decision = q.decision /\ r.concludes = q.decision
    /\ r.context = plan.context

\* A rule is compiled with the rows of the plan, or kept because they are those of the
\* published one, whose row is as it is but for the build.
Made(r) ==
    IF r.kept
      THEN /\ plan.tables = found.loads
           /\ row.slot = r.slot /\ row.text = r.text /\ row.decision = r.decision
           /\ row.concludes = r.concludes /\ row.context = r.context
      ELSE r.tables = plan.tables

Compiled(rules) ==
    /\ \A q \in plan.rules : \E r \in rules : r.slot[1] = q.name
    /\ \A r \in rules : Made(r) /\ \E q \in plan.rules : RuleOf(r, q)

\* What a preview that is valid has shown.
Judged(p) ==
    /\ \A e \in p.failed : Plan!Missing(e, plan.context) # {}
    /\ \A s \in Plan!NewlyRequired(plan.context) :
          \E e \in plan.examples : s \in e.lacks /\ e.expects = Escalate
    /\ (plan.context.reviewed /\ (plan.tables # found.loads \/ \E r \in p.rules : ~r.kept)) =>
          p.review \in {"approves", "no cases"}

PlanInv ==
    \/ /\ result = None
       /\ Original /\ OnePlan
       /\ preview # None => Compiled(preview.rules) /\ (preview.valid => Judged(preview))
    \/ result # None /\ Plan!PublishedIsReviewed

LEMMA FirstIs ==
    ASSUME NEW c, NEW t
    PROVE  Plan!First(c, t) =
              [slot |-> <<Existing.name, 1>>, text |-> Existing.text,
               decision |-> Existing.decision, concludes |-> Existing.decision,
               context |-> c, tables |-> t, kept |-> FALSE, build |-> 0]
  BY DEF Plan!First, Plan!Rule

LEMMA Planned ==
    ASSUME NEW p \in Plan!Plans
    PROVE  /\ p.context \in Contexts /\ p.tables \in Tables /\ p.rules \subseteq Proposals
           /\ \A q, r \in p.rules : q.name = r.name => q = r
           /\ p.examples \subseteq Examples /\ p # None
  BY PartsAssumption DEF Plan!Plans, Plan!Selections, Plan!PlanCompilationAssumption

\* The plan of a conversation that starts is the rule of its process.
LEMMA PlanOfTheVersion ==
    ASSUME NEW c \in Contexts, NEW t, NEW l \in Tables
    PROVE  Plan!PlanOf([context |-> c, rules |-> {Plan!First(c, t)}], l) \in Plan!Plans
  <1> DEFINE chosen == {p \in Proposals : \E r \in {Plan!First(c, t)} :
                           r.slot[1] = p.name /\ r.text = p.text /\ r.decision = p.decision}
  <1>1. Plan!PlanOf([context |-> c, rules |-> {Plan!First(c, t)}], l) =
           [context |-> c, tables |-> l, examples |-> {}, rules |-> chosen]
    BY DEF Plan!PlanOf
  <1>2. \A q \in chosen : q \in Proposals /\ q.text = Existing.text
                          /\ q.decision = Existing.decision
    BY FirstIs
  <1>3. \A q \in chosen : q = [name |-> q.name, text |-> q.text, decision |-> q.decision]
    BY <1>2, PartsAssumption DEF Plan!PlanCompilationAssumption
  <1>4. chosen \subseteq Proposals
    OBVIOUS
  <1> HIDE DEF chosen
  <1>5. \A q, r \in chosen : q.name = r.name => q = r
    BY <1>2, <1>3
  <1>6. chosen \in Plan!Selections
    BY <1>4, <1>5 DEF Plan!Selections
  <1>7. {} \in SUBSET Examples
    OBVIOUS
  <1>8. [context |-> c, tables |-> l, rules |-> chosen, examples |-> {}] \in Plan!Plans
    BY <1>6, <1>7 DEF Plan!Plans
  <1>9. [context |-> c, tables |-> l, rules |-> chosen, examples |-> {}]
           = [context |-> c, tables |-> l, examples |-> {}, rules |-> chosen]
    OBVIOUS
  <1> QED
    BY <1>1, <1>8, <1>9

LEMMA PlanInitially == Plan!Init => PlanInv
  <1> SUFFICES ASSUME Plan!Init PROVE PlanInv
    OBVIOUS
  <1>1. PICK c \in Contexts, t \in Tables :
           /\ version = [context |-> c, rules |-> {Plan!First(c, t)}]
           /\ row = Plan!First(c, t)
           /\ found = [context |-> c, rules |-> {Plan!First(c, t)}, loads |-> t]
           /\ plan = Plan!PlanOf(version, t)
           /\ result = None /\ preview = None
    BY DEF Plan!Init
  <1>2. row = [Plan!First(c, t) EXCEPT !.build = 0]
    BY <1>1, FirstIs
  <1>3. Original
    BY <1>1, <1>2 DEF Original
  <1>4. OnePlan
    BY <1>1, PlanOfTheVersion DEF OnePlan
  <1> QED
    BY <1>1, <1>3, <1>4 DEF PlanInv

\* What a proposal may become: at least one rule, kept or made for the plan.
LEMMA MadeOf ==
    ASSUME Original, OnePlan, NEW q \in plan.rules, NEW made \in Plan!Compilations(q)
    PROVE  made # {} /\ \A r \in made : RuleOf(r, q) /\ Made(r)
  <1>1. PICK c \in Contexts, t \in Tables, l \in Tables, b \in {0, 1} :
           /\ found = [context |-> c, rules |-> {Plan!First(c, t)}, loads |-> l]
           /\ row = [Plan!First(c, t) EXCEPT !.build = b]
    BY DEF Original
  <1>2. MaxChecks \in Nat \ {0} /\ q \in Proposals
    BY PartsAssumption, Planned DEF Plan!PlanCompilationAssumption, OnePlan
  <1>3. CASE Plan!Kept(q) # {}
    <2>1. made = {[r EXCEPT !.kept = TRUE] : r \in Plan!Kept(q)}
      BY <1>3 DEF Plan!Compilations
    <2>2. ASSUME NEW r \in Plan!Kept(q)
          PROVE  RuleOf([r EXCEPT !.kept = TRUE], q) /\ Made([r EXCEPT !.kept = TRUE])
      <3>1. /\ r = Plan!First(c, t) /\ Existing.name = q.name /\ Existing.text = q.text
            /\ Existing.decision = q.decision /\ plan.context = c /\ plan.tables = found.loads
        BY <1>1, FirstIs DEF Plan!Kept
      <3>2. LET k == [r EXCEPT !.kept = TRUE]
            IN  /\ k.slot = <<Existing.name, 1>> /\ k.text = Existing.text /\ k.context = c
                /\ k.decision = Existing.decision /\ k.concludes = Existing.decision /\ k.kept
        <4>1. r = [slot |-> <<Existing.name, 1>>, text |-> Existing.text,
                   decision |-> Existing.decision, concludes |-> Existing.decision,
                   context |-> c, tables |-> t, kept |-> FALSE, build |-> 0]
          BY <3>1, FirstIs
        <4> QED
          BY <4>1
      <3>3. row = [slot |-> <<Existing.name, 1>>, text |-> Existing.text,
                   decision |-> Existing.decision, concludes |-> Existing.decision,
                   context |-> c, tables |-> t, kept |-> FALSE, build |-> b]
        BY <1>1, FirstIs
      <3>4. <<Existing.name, 1>> \in Plan!Slots
        BY <1>2, <3>1 DEF Plan!Slots, Plan!Names
      <3> QED
        BY <3>1, <3>2, <3>3, <3>4 DEF RuleOf, Made
    <2> QED
      BY <1>3, <2>1, <2>2
  <1>4. CASE Plan!Kept(q) = {}
    <2>1. made \in UNION {{{Plan!Rule(<<q.name, i>>, q, read[i], plan.context, plan.tables)
                              : i \in 1 .. n} : read \in [1 .. n -> Plan!Conclusions(q)]}
                          : n \in 1 .. MaxChecks}
      BY <1>4 DEF Plan!Compilations
    <2>2. PICK n \in 1 .. MaxChecks :
             made \in {{Plan!Rule(<<q.name, i>>, q, read[i], plan.context, plan.tables)
                              : i \in 1 .. n} : read \in [1 .. n -> Plan!Conclusions(q)]}
      BY <2>1
    <2>3. PICK read \in [1 .. n -> Plan!Conclusions(q)] :
             made = {Plan!Rule(<<q.name, i>>, q, read[i], plan.context, plan.tables) : i \in 1 .. n}
      BY <2>2
    <2>4. 1 \in 1 .. n /\ \A i \in 1 .. n : i \in 1 .. MaxChecks /\ read[i] = q.decision
      BY <1>2, <2>3 DEF Plan!Conclusions
    <2>5. ASSUME NEW i \in 1 .. n, NEW r,
                 r = Plan!Rule(<<q.name, i>>, q, read[i], plan.context, plan.tables)
          PROVE  RuleOf(r, q) /\ Made(r)
      <3>1. <<q.name, i>> \in Plan!Slots
        BY <1>2, <2>4 DEF Plan!Slots, Plan!Names
      <3> QED
        BY <2>4, <2>5, <3>1 DEF Plan!Rule, RuleOf, Made
    <2> QED
      BY <2>3, <2>4, <2>5
  <1> QED
    BY <1>3, <1>4

LEMMA RulesAreMade ==
    ASSUME Original, OnePlan, NEW rules \in Plan!RuleSets
    PROVE  Compiled(rules)
  <1>1. PICK f : /\ DOMAIN f = plan.rules
                 /\ \A p \in plan.rules : f[p] \in Plan!Compilations(p)
                 /\ rules = UNION {f[p] : p \in plan.rules}
    BY DEF Plan!RuleSets
  <1>2. ASSUME NEW q \in plan.rules
        PROVE  f[q] # {} /\ \A r \in f[q] : RuleOf(r, q) /\ Made(r)
    BY <1>1, MadeOf
  <1>3. \A q \in plan.rules : \E r \in rules : r.slot[1] = q.name
    BY <1>1, <1>2 DEF RuleOf
  <1>4. \A r \in rules : Made(r) /\ \E q \in plan.rules : RuleOf(r, q)
    BY <1>1, <1>2
  <1> QED
    BY <1>3, <1>4 DEF Compiled

\* An example that passes although it lacks a symbol expects a person; and one with a rule
\* that failed lacks one.
LEMMA PassedExamples ==
    ASSUME NEW rules, \A r \in rules : r.slot \in Plan!Slots,
           NEW x \in Plan!Passing(rules)
    PROVE  /\ x[2] => Plan!Missing(x[1], plan.context) # {}
           /\ Plan!Missing(x[1], plan.context) # {} => x[1].expects = Escalate
  <1> DEFINE e == x[1]
             missing == Plan!Missing(e, plan.context)
             doc == [missing |-> missing, scanned |-> FALSE, unconfirmed |-> {}]
  <1>1. PICK a \in [{r.slot : r \in rules} -> Plan!Engine!Answers] :
           /\ x[2] = \E s \in DOMAIN a : a[s] = "failed"
           /\ Plan!Passed(Plan!Verdict(rules, plan.context, e, a), e)
    BY DEF Plan!Passing, Plan!Passes, Plan!Answers
  <1> DEFINE d == [s \in Plan!Slots |-> IF s \in DOMAIN a
                                          THEN (CHOOSE r \in rules : r.slot = s).decision ELSE Default]
             res == [s \in Plan!Slots |-> IF s \in DOMAIN a THEN a[s] ELSE "silent"]
  <1>2. Plan!Verdict(rules, plan.context, e, a) = Plan!Engine!Combine(d, res, doc)
    BY DEF Plan!Verdict
  <1>3. DOMAIN a \subseteq Plan!Slots
    BY <1>1
  <1>4. (\E s \in DOMAIN a : a[s] = "failed") => Plan!Engine!Returned(res, "failed") # {}
    BY <1>3 DEF Plan!Engine!Returned
  <1>5. doc.missing = missing /\ doc.scanned = FALSE
    OBVIOUS
  <1> HIDE DEF res, d, doc, missing
  <1>6. missing # {} => Plan!Engine!Combine(d, res, doc).decision = Escalate
    BY <1>5 DEF Plan!Engine!Combine, Plan!Engine!Escalation
  <1>7. missing = {} /\ Plan!Engine!Returned(res, "failed") # {} =>
           Plan!Engine!Combine(d, res, doc).cause = "RULE_FAILURE"
    BY <1>5 DEF Plan!Engine!Combine, Plan!Engine!Escalation
  <1>8. x[2] => missing # {}
    BY <1>1, <1>2, <1>4, <1>7 DEF Plan!Passed
  <1>9. missing # {} => e.expects = Escalate
    BY <1>1, <1>2, <1>6 DEF Plan!Passed
  <1> QED
    BY <1>8, <1>9 DEF missing

LEMMA PreviewsJudge ==
    ASSUME NEW rules, Compiled(rules),
           NEW p \in Plan!Previews(rules)
    PROVE  p.rules = rules /\ (p.valid => Judged(p))
  <1>1. CASE p = Plan!Preview(rules, {}, "none")
    BY <1>1 DEF Plan!Preview
  <1>2. ASSUME NEW f \in Plan!Passable(rules), NEW r \in Plan!Reviews(rules),
               p = Plan!Preview(rules, f, r)
        PROVE  p.rules = rules /\ (p.valid => Judged(p))
    <2>1. /\ \A e \in plan.examples : <<e, e \in f>> \in Plan!Passing(rules)
          /\ Plan!Exercised(plan.context, plan.examples) /\ f \subseteq plan.examples
      BY DEF Plan!Passable
    <2>2. p.rules = rules /\ p.failed = f /\ p.review = r /\ p.valid = (r \notin {"none", "refuses"})
      BY <1>2 DEF Plan!Preview
    <2>3. \A s \in rules : s.slot \in Plan!Slots
      BY DEF Compiled, RuleOf
    <2>4. ASSUME NEW e \in plan.examples
          PROVE  /\ e \in f => Plan!Missing(e, plan.context) # {}
                 /\ Plan!Missing(e, plan.context) # {} => e.expects = Escalate
      <3>1. <<e, e \in f>> \in Plan!Passing(rules)
        BY <2>1
      <3>2. /\ <<e, e \in f>>[2] => Plan!Missing(<<e, e \in f>>[1], plan.context) # {}
            /\ Plan!Missing(<<e, e \in f>>[1], plan.context) # {}
                  => <<e, e \in f>>[1].expects = Escalate
        BY <2>3, <3>1, PassedExamples
      <3> QED
        BY <3>2
    <2>5. \A e \in p.failed : Plan!Missing(e, plan.context) # {}
      BY <2>1, <2>2, <2>4
    <2>6. ASSUME NEW s \in Plan!NewlyRequired(plan.context)
          PROVE  \E e \in plan.examples : s \in e.lacks /\ e.expects = Escalate
      <3>1. PICK e \in plan.examples : Plan!Missing(e, plan.context) = {s}
        BY <2>1 DEF Plan!Exercised
      <3>2. s \in e.lacks
        BY <3>1 DEF Plan!Missing
      <3> QED
        BY <2>4, <3>1, <3>2
    <2>7. ASSUME p.valid, plan.context.reviewed,
                 plan.tables # found.loads \/ \E x \in rules : ~x.kept
          PROVE  p.review \in {"approves", "no cases"}
      <3>1. Plan!ReviewChanged(rules)
        BY <2>7 DEF Plan!ReviewChanged
      <3> QED
        BY <2>2, <2>7, <3>1 DEF Plan!Reviews
    <2> QED
      BY <2>2, <2>5, <2>6, <2>7 DEF Judged
  <1>3. \/ p = Plan!Preview(rules, {}, "none")
        \/ \E f \in Plan!Passable(rules), r \in Plan!Reviews(rules) :
              p = Plan!Preview(rules, f, r)
    BY DEF Plan!Previews
  <1> QED
    BY <1>1, <1>2, <1>3

LEMMA PublishKeepsPlan ==
    ASSUME result = None, PlanInv, Plan!Publish
    PROVE  Plan!PublishedIsReviewed'
  <1>1. /\ Original /\ OnePlan /\ Compiled(preview.rules) /\ Judged(preview)
        /\ found' = found
    BY DEF Plan!Publish, PlanInv
  <1> DEFINE Row(r) == IF r.kept THEN [row EXCEPT !.kept = TRUE] ELSE r
             rules == {Row(r) : r \in preview.rules}
  <1>2. /\ version' = [context |-> plan.context, rules |-> rules]
        /\ result' = plan /\ preview' = preview
    BY DEF Plan!Publish
  <1>3. version'.rules = rules /\ result' = plan /\ preview' = preview
    BY <1>2
  <1>4. ASSUME NEW r \in preview.rules
        PROVE  /\ Row(r).slot = r.slot /\ Row(r).text = r.text /\ Row(r).decision = r.decision
               /\ Row(r).concludes = r.concludes /\ Row(r).context = r.context
               /\ Row(r).kept <=> r.kept
               /\ ~r.kept => Row(r) = r
    <2>1. CASE r.kept
      <3>1. PICK c \in Contexts, t \in Tables, b \in {0, 1} :
               row = [Plan!First(c, t) EXCEPT !.build = b]
        BY <1>1 DEF Original
      <3>2. row = [slot |-> <<Existing.name, 1>>, text |-> Existing.text,
                   decision |-> Existing.decision, concludes |-> Existing.decision,
                   context |-> c, tables |-> t, kept |-> FALSE, build |-> b]
        BY <3>1, FirstIs
      <3>3. /\ row.slot = r.slot /\ row.text = r.text /\ row.decision = r.decision
            /\ row.concludes = r.concludes /\ row.context = r.context
        BY <1>1, <2>1 DEF Compiled, Made
      <3>4. Row(r) = [row EXCEPT !.kept = TRUE]
        BY <2>1
      <3> HIDE DEF Row
      <3> QED
        BY <2>1, <3>2, <3>3, <3>4
    <2>2. CASE ~r.kept
      BY <2>2
    <2> QED
      BY <2>1, <2>2
  <1> HIDE DEF Row
  <1>5. {r.slot[1] : r \in rules} = {q.name : q \in plan.rules}
    BY <1>1, <1>4 DEF Compiled, RuleOf
  <1>6. ASSUME NEW r \in rules, NEW q \in plan.rules, r.slot[1] = q.name
        PROVE  /\ r.text = q.text
               /\ {r.decision, r.concludes} = {q.decision}
               /\ r.context = plan.context
               /\ plan.tables = IF r.kept THEN found.loads ELSE r.tables
    <2>1. PICK o \in preview.rules : r = Row(o)
      OBVIOUS
    <2>2. Made(o) /\ \E p \in plan.rules : RuleOf(o, p)
      BY <1>1 DEF Compiled
    <2>3. RuleOf(o, q)
      BY <1>1, <1>4, <1>6, <2>1, <2>2, Planned DEF RuleOf, OnePlan
    <2>4. r.text = q.text /\ r.decision = q.decision /\ r.concludes = q.decision
          /\ r.context = plan.context
      BY <1>4, <2>1, <2>3 DEF RuleOf
    <2>5. plan.tables = IF r.kept THEN found.loads ELSE r.tables
      BY <1>4, <2>1, <2>2 DEF Made
    <2> QED
      BY <2>4, <2>5
  <1>7. (\E r \in rules : ~r.kept) => \E r \in preview.rules : ~r.kept
    BY <1>4
  <1>8. /\ \A e \in preview.failed : Plan!Missing(e, plan.context) # {}
        /\ \A s \in Plan!NewlyRequired(plan.context) :
              \E e \in plan.examples : s \in e.lacks /\ e.expects = Escalate
        /\ (plan.context.reviewed /\ (plan.tables # found.loads \/ \E r \in rules : ~r.kept)) =>
              preview.review \in {"approves", "no cases"}
    BY <1>1, <1>7 DEF Judged
  <1>9. \A c : Plan!NewlyRequired(c)' = Plan!NewlyRequired(c)
    BY <1>1 DEF Plan!NewlyRequired
  <1> HIDE DEF rules
  <1> QED
    BY <1>1, <1>3, <1>5, <1>6, <1>8, <1>9 DEF Plan!PublishedIsReviewed, Plan!Missing, Plan!NewlyRequired

LEMMA NextKeepsPlan ==
    PlanInv /\ [Plan!Next]_planOnly => PlanInv'
  <1> SUFFICES ASSUME PlanInv, [Plan!Next]_planOnly PROVE PlanInv'
    OBVIOUS
  <1>1. CASE UNCHANGED planOnly
    <2>1. version' = version /\ row' = row /\ found' = found /\ plan' = plan
          /\ preview' = preview /\ result' = result
      BY <1>1 DEF planOnly
    <2>2. Original' <=> Original
      BY <2>1 DEF Original
    <2>3. OnePlan' <=> OnePlan
      BY <2>1 DEF OnePlan
    <2>4. \A R : Compiled(R)' <=> Compiled(R)
      BY <2>1 DEF Compiled, Made, RuleOf
    <2>5. \A p : Judged(p)' <=> Judged(p)
      BY <2>1 DEF Judged, Plan!NewlyRequired
    <2>6. Plan!PublishedIsReviewed' <=> Plan!PublishedIsReviewed
      BY <2>1 DEF Plan!PublishedIsReviewed, Plan!NewlyRequired
    <2> QED
      BY <2>1, <2>2, <2>3, <2>4, <2>5, <2>6 DEF PlanInv
  <1>2. ASSUME Plan!Next PROVE result = None
    BY <1>2 DEF Plan!Next, Plan!Load, Plan!Recompile, Plan!Revise, Plan!Accept, Plan!Prepare,
                Plan!Publish, Plan!Preparable
  <1>3. ASSUME NEW u \in Tables, Plan!Load(u) PROVE PlanInv'
    <2>1. /\ result = None /\ result' = None /\ preview' = None
          /\ found' = [found EXCEPT !.loads = u] /\ plan' = Plan!PlanOf(version, u)
          /\ version' = version /\ row' = row
      BY <1>3 DEF Plan!Load
    <2>2. PICK c \in Contexts, t \in Tables, l \in Tables, b \in {0, 1} :
             /\ found = [context |-> c, rules |-> {Plan!First(c, t)}, loads |-> l]
             /\ version = [context |-> c, rules |-> {Plan!First(c, t)}]
             /\ row = [Plan!First(c, t) EXCEPT !.build = b]
      BY <2>1 DEF PlanInv, Original
    <2>3. found' = [context |-> c, rules |-> {Plan!First(c, t)}, loads |-> u]
      BY <2>1, <2>2
    <2>4. Original'
      BY <2>1, <2>2, <2>3 DEF Original
    <2>5. OnePlan'
      BY <2>1, <2>2, PlanOfTheVersion DEF OnePlan
    <2> QED
      BY <2>1, <2>4, <2>5 DEF PlanInv
  <1>4. ASSUME Plan!Recompile PROVE PlanInv'
    <2>1. /\ result = None /\ row' = [row EXCEPT !.build = 1]
          /\ UNCHANGED <<version, found, plan, preview, result>>
      BY <1>4 DEF Plan!Recompile
    <2>2. PICK c \in Contexts, t \in Tables, l \in Tables, b \in {0, 1} :
             /\ found = [context |-> c, rules |-> {Plan!First(c, t)}, loads |-> l]
             /\ version = [context |-> c, rules |-> {Plan!First(c, t)}]
             /\ row = [Plan!First(c, t) EXCEPT !.build = b]
      BY <2>1 DEF PlanInv, Original
    <2>3. row = [slot |-> <<Existing.name, 1>>, text |-> Existing.text,
                 decision |-> Existing.decision, concludes |-> Existing.decision,
                 context |-> c, tables |-> t, kept |-> FALSE, build |-> b]
      BY <2>2, FirstIs
    <2>4. row' = [slot |-> <<Existing.name, 1>>, text |-> Existing.text,
                  decision |-> Existing.decision, concludes |-> Existing.decision,
                  context |-> c, tables |-> t, kept |-> FALSE, build |-> 1]
      BY <2>1, <2>3
    <2>5. row' = [Plan!First(c, t) EXCEPT !.build = 1]
      BY <2>1, <2>2, <2>4, FirstIs
    <2>6. Original'
      BY <2>1, <2>2, <2>5 DEF Original
    <2>7. \A r : Made(r) => Made(r)'
      BY <2>1, <2>3, <2>4 DEF Made
    <2>8. \A rules : Compiled(rules) => Compiled(rules)'
      BY <2>1, <2>7 DEF Compiled, RuleOf
    <2> QED
      BY <2>1, <2>6, <2>8 DEF PlanInv, OnePlan, Judged, Plan!NewlyRequired
  <1>5. ASSUME NEW p \in Plan!Plans, Plan!Revise(p) PROVE PlanInv'
    <2>1. /\ plan' = p /\ preview' = None /\ result = None
          /\ UNCHANGED <<version, row, found, result>>
      BY <1>5 DEF Plan!Revise
    <2>2. OnePlan'
      BY <1>5, <2>1 DEF OnePlan
    <2> QED
      BY <2>1, <2>2 DEF PlanInv, Original
  <1>6. ASSUME Plan!Accept PROVE PlanInv'
    BY <1>6 DEF Plan!Accept, PlanInv, Original, OnePlan
  <1>7. ASSUME Plan!Prepare PROVE PlanInv'
    <2>1. PICK rules \in Plan!RuleSets : preview' \in Plan!Previews(rules)
      BY <1>7 DEF Plan!Prepare
    <2>2. result = None /\ UNCHANGED <<version, row, found, plan, result>>
      BY <1>7 DEF Plan!Prepare, Plan!Preparable
    <2>3. Original /\ OnePlan
      BY <2>2 DEF PlanInv
    <2>4. Compiled(rules)
      BY <2>3, RulesAreMade
    <2>5. preview'.rules = rules /\ (preview'.valid => Judged(preview'))
      BY <2>1, <2>4, PreviewsJudge
    <2>6. (Compiled(preview.rules))' /\ (preview.valid => Judged(preview))'
      BY <2>2, <2>4, <2>5 DEF Compiled, Made, RuleOf, Judged, Plan!NewlyRequired
    <2> QED
      BY <2>2, <2>3, <2>6 DEF PlanInv, Original, OnePlan
  <1>8. ASSUME Plan!Publish PROVE PlanInv'
    <2>1. result' = plan /\ plan # None
      BY <1>8, Planned, <1>2 DEF Plan!Publish, PlanInv, OnePlan, Plan!Next
    <2> QED
      BY <1>2, <1>8, <2>1, PublishKeepsPlan DEF PlanInv, Plan!Next
  <1> QED
    BY <1>1, <1>3, <1>4, <1>5, <1>6, <1>7, <1>8 DEF Plan!Next

\* What a conversation publishes is what its manager accepted, its examples showed and its
\* reviewer saw.
THEOREM PublishedAsAccepted == MCSpec => []PublishedIsReviewed
  <1> DEFINE Inv == part = "plan" => PlanInv
  <1>1. MCInit => Inv
    BY PlanInitially DEF MCInit
  <1>2. Inv /\ [MCNext]_<<part, vars, planOnly>> => Inv'
    BY NextKeepsPlan DEF MCNext
  <1>3. Inv => PublishedIsReviewed
    BY DEF PlanInv, PublishedIsReviewed, Plan!PublishedIsReviewed
  <1> QED
    BY <1>1, <1>2, <1>3, PTL DEF MCSpec
=============================================================================
