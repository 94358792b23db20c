----------------------------- MODULE Discovery -----------------------------
(***************************************************************************)
(* The conversations in which a manager and an agent write the             *)
(* configuration of a process (processes/drafts.py, draft_compilation.py)  *)
(* and the proposals of a conversation (the chat channel of                *)
(* proposals/service.py).                                                  *)
(*                                                                         *)
(* Every operation reads the latest revision of a session without a lock,  *)
(* awaits a model, a workbook or a connector, and saves the next revision  *)
(* only if the one it read is still the latest.  Plans, tables, messages   *)
(* and previews are data; what matters is which plan a review, a preview   *)
(* or a proposal is about.                                                 *)
(***************************************************************************)
EXTENDS Naturals, Sequences, FiniteSets

CONSTANTS
    Requests,
    Sessions,
    Kinds,          \* the kinds of change a plan may propose
    Evidence,       \* what the sources, cases and decisions may amount to
    MaxRevisions,   \* bound on the revisions of a session
    MaxVersions     \* bound on the published versions of the process

ASSUME DiscoveryAssumption ==
    /\ Kinds \subseteq {"context", "input", "rule"}
    /\ {MaxRevisions, MaxVersions} \subseteq Nat

VARIABLES
    process,    \* what the sessions are about
    versions,   \* who published each of its versions: a session, or Others
    rows,       \* the revisions of each session, none before it starts
    base,       \* the process as a session found it
    published,  \* the sessions that have published
    proposals,  \* the status of each proposal, "none" before it is written
    held,       \* the proposals each request has locked
    req         \* what each request in flight is doing

vars == <<process, versions, rows, base, published, proposals, held, req>>

-----------------------------------------------------------------------------
(***************************************************************************)
(* Rows                                                                    *)
(***************************************************************************)

Others == "others"

\* "busy": a version draft is open, or one of its rules is compiling.
Processes == [active : Nat, evidence : Evidence, busy : BOOLEAN]

\* The changes of the context and of the inputs share the review of the setup.
KeyOf(kind) == IF kind = "rule" THEN "rule" ELSE "setup"
Keys == {"setup"} \union {KeyOf(kind) : kind \in Kinds}

\* A review, with the plan its manager saw (history variable) and where it
\* was given: to the session itself, or by settling proposals.
Reviews == [verdict : {"none", "accepted", "rejected"}, plan : Nat,
            by : {"nobody", "manager", "proposals"}]
NoReview == [verdict |-> "none", plan |-> 0, by |-> "nobody"]

\* A preview, with the plan and tables it was computed on (history variable).
Previews == [content : Nat, valid : BOOLEAN]
NoPreview == [content |-> 0, valid |-> FALSE]

\* A revision: the one it was written over (history variable), those that
\* wrote its plan and last changed its plan or tables, and its reviews.
Revisions ==
    [over : Nat, plan : Nat, content : Nat, reviews : [Keys -> Reviews],
     preview : Previews]

Unreviewed == [k \in Keys |-> NoReview]

FirstRevision ==
    [over |-> 0, plan |-> 1, content |-> 1, reviews |-> Unreviewed, preview |-> NoPreview]

Last(s) == Len(rows[s])
Current(s) == rows[s][Last(s)]

\* A proposal is known by its session, the plan that makes it and its kind.
ProposalIds == Sessions \X (1 .. MaxRevisions) \X Kinds
OpenOf(s) == {p \in ProposalIds : p[1] = s /\ proposals[p] = "open"}

(***************************************************************************)
(* A request: what it does, the revision it read, and, for a review, its   *)
(* key, its verdict and the proposal that asks for it, for a plan, the     *)
(* changes it proposes and the proposals it supersedes.                    *)
(***************************************************************************)
Operations == {"discuss", "revise", "supply", "review", "prepare", "publish"}

Flights ==
    [op : Operations, at : {"reading", "awaiting", "saving", "settling"}, session : Sessions,
     saw : Nat, key : Keys, verdict : {"accepted", "rejected"},
     proposal : SUBSET ProposalIds, kinds : SUBSET Kinds, olds : SUBSET ProposalIds]

Idle == [op |-> "none", at |-> "idle"]

NewFlight(op, at, s, key, verdict, proposal) ==
    [op |-> op, at |-> at, session |-> s, saw |-> Last(s), key |-> key,
     verdict |-> verdict, proposal |-> proposal, kinds |-> {}, olds |-> {}]

\* What a request has read.  Revisions are never changed.
Read(f) == rows[f.session][f.saw]

TypeOK ==
    /\ process \in Processes
    /\ versions \in Seq(Sessions \union {Others})
    /\ rows \in [Sessions -> Seq(Revisions)]
    /\ base \in [Sessions -> Processes]
    /\ published \subseteq Sessions
    /\ proposals \in [ProposalIds -> {"none", "open", "accepted", "rejected", "superseded"}]
    /\ held \in [Requests -> SUBSET ProposalIds]
    /\ req \in [Requests -> Flights \union {Idle}]

Init ==
    /\ process \in [active : {1}, evidence : Evidence, busy : {FALSE}]
    /\ versions = <<Others>>
    /\ rows = [s \in Sessions |-> <<>>]
    /\ base = [s \in Sessions |-> process]
    /\ published = {}
    /\ proposals = [p \in ProposalIds |-> "none"]
    /\ held = [r \in Requests |-> {}]
    /\ req = [r \in Requests |-> Idle]

-----------------------------------------------------------------------------
(***************************************************************************)
(* The process.  Its row is locked by start, by the end of prepare and by  *)
(* publish, each of them one step here, and by whatever else changes it.   *)
(***************************************************************************)

EvidenceChanges ==
    /\ \E e \in Evidence \ {process.evidence} : process' = [process EXCEPT !.evidence = e]
    /\ UNCHANGED <<versions, rows, base, published, proposals, held, req>>

DraftOpens ==
    /\ ~process.busy
    /\ process' = [process EXCEPT !.busy = TRUE]
    /\ UNCHANGED <<versions, rows, base, published, proposals, held, req>>

DraftIsDiscarded ==
    /\ process.busy
    /\ process' = [process EXCEPT !.busy = FALSE]
    /\ UNCHANGED <<versions, rows, base, published, proposals, held, req>>

DraftIsPublished ==
    /\ process.busy /\ Len(versions) < MaxVersions
    /\ process' = [process EXCEPT !.busy = FALSE, !.active = @ + 1]
    /\ versions' = Append(versions, Others)
    /\ UNCHANGED <<rows, base, published, proposals, held, req>>

\* Mutant: only an open draft is in the way.
BaseHoldsIfIdle(s) == ~process.busy

\* check_base: the fingerprint of the process and its inputs, and no draft.
BaseHolds(s) == process = base[s] /\ ~process.busy

-----------------------------------------------------------------------------
(***************************************************************************)
(* Sessions                                                                *)
(***************************************************************************)

Start(s) ==
    /\ Last(s) = 0
    /\ rows' = [rows EXCEPT ![s] = <<FirstRevision>>]
    /\ base' = [base EXCEPT ![s] = [process EXCEPT !.busy = FALSE]]
    /\ UNCHANGED <<process, versions, published, proposals, held, req>>

IsOpen(s) == Last(s) > 0 /\ s \notin published

\* ready: every proposal of the plan is accepted.  Questions, examples and
\* names are data.
Ready(d) == \A k \in Keys : d.reviews[k].verdict = "accepted"

\* An operation reads the latest revision, the one its manager names.
Begin(r, op, s, key, verdict) ==
    /\ IsOpen(s)
    /\ op = "prepare" => Ready(Current(s)) /\ BaseHolds(s)
    /\ LET at == IF op = "revise" THEN "awaiting" ELSE "saving"
       IN  req' = [req EXCEPT ![r] = NewFlight(op, at, s, key, verdict, {})]
    /\ UNCHANGED <<process, versions, rows, base, published, proposals, held>>

\* Mutant: nothing is superseded.
AnsweredBeside(r, kinds) ==
    LET f == req[r]
    IN  /\ f.op = "revise" /\ f.at = "awaiting"
        /\ req' = [req EXCEPT ![r].at = "saving", ![r].kinds = kinds]
        /\ UNCHANGED <<process, versions, rows, base, published, proposals, held>>

\* The agent has written a plan.  A plan of an existing process proposes each
\* change, and supersedes the open proposals, which are read without a lock.
Answered(r, kinds) ==
    LET f == req[r]
    IN  /\ f.op = "revise" /\ f.at = "awaiting"
        /\ req' = [req EXCEPT ![r].at = "saving", ![r].kinds = kinds,
                              ![r].olds = OpenOf(f.session)]
        /\ UNCHANGED <<process, versions, rows, base, published, proposals, held>>

Invalidated(d) == [d EXCEPT !.preview = NoPreview, !.reviews = Unreviewed]

\* The plan a review is about, as its manager saw it.
Reviewed(f) ==
    [verdict |-> f.verdict,
     plan |-> IF f.proposal = {} THEN Read(f).plan ELSE (CHOOSE p \in f.proposal : TRUE)[2],
     by |-> IF f.proposal = {} THEN "manager" ELSE "proposals"]

\* What an operation makes of the data it read.  What it compiled passes its
\* examples and backtest, or does not.
Written(f, valid) ==
    LET d == [Read(f) EXCEPT !.over = f.saw]
        n == f.saw + 1
    IN  CASE f.op = "revise" -> [Invalidated(d) EXCEPT !.plan = n, !.content = n]
          [] f.op = "supply" -> [Invalidated(d) EXCEPT !.content = n]
          [] f.op = "review" -> [d EXCEPT !.preview = NoPreview, !.reviews[f.key] = Reviewed(f)]
          [] f.op = "prepare" -> [d EXCEPT !.preview = [content |-> d.content, valid |-> valid]]
          [] OTHER -> d

\* The new statuses of the proposals an operation touches.
Settles(f) ==
    [p \in ProposalIds |->
        IF p \in f.olds THEN "superseded"
        ELSE IF p \in f.proposal THEN f.verdict
        ELSE IF f.op = "revise" /\ p \in {<<f.session, f.saw + 1, k>> : k \in f.kinds} THEN "open"
        ELSE proposals[p]]

Ends(r) ==
    /\ req' = [req EXCEPT ![r] = Idle]
    /\ held' = [held EXCEPT ![r] = {}]

\* The rows it writes are not locked by another request.
Writable(r) ==
    \A q \in Requests \ {r} : held[q] \intersect req[r].olds = {}

\* Mutant: only publication is looked at.
LatestAnyway(f) == f.session \notin published

Latest(f) == f.saw = Last(f.session) /\ f.session \notin published

\* prepare and publish check the process again, under its lock.
StillValid(f) ==
    CASE f.op = "prepare" -> BaseHolds(f.session)
      [] f.op = "publish" -> /\ Ready(Read(f)) /\ Read(f).preview.valid
                             /\ BaseHolds(f.session)
      [] OTHER -> TRUE

\* The next revision, with the proposals it settles, in one transaction.
Save(r) ==
    LET f == req[r]
    IN  /\ f.at = "saving" /\ f.op # "publish" /\ Writable(r)
        /\ Latest(f) /\ StillValid(f) /\ f.saw < MaxRevisions
        /\ \E valid \in BOOLEAN :
              /\ valid => f.op = "prepare"
              /\ rows' = [rows EXCEPT ![f.session] = Append(@, Written(f, valid))]
        /\ proposals' = Settles(f)
        /\ Ends(r)
        /\ UNCHANGED <<process, versions, base, published>>

\* The version, with the last revision of the session, in one transaction.
Publish(r) ==
    LET f == req[r]
    IN  /\ f.at = "saving" /\ f.op = "publish"
        /\ Latest(f) /\ StillValid(f) /\ f.saw < MaxRevisions
        /\ rows' = [rows EXCEPT ![f.session] = Append(@, Written(f, FALSE))]
        /\ published' = published \union {f.session}
        /\ Len(versions) < MaxVersions
        /\ process' = [process EXCEPT !.active = @ + 1]
        /\ versions' = Append(versions, f.session)
        /\ Ends(r)
        /\ UNCHANGED <<base, proposals>>

\* 409: the session has moved on, or the process has.  Nothing remains.
Conflict(r) ==
    /\ req[r].at = "saving" /\ Writable(r)
    /\ \/ ~Latest(req[r]) \/ ~StillValid(req[r]) \/ req[r].saw >= MaxRevisions
       \/ req[r].op = "publish" /\ Len(versions) >= MaxVersions
    /\ Ends(r)
    /\ UNCHANGED <<process, versions, rows, base, published, proposals>>

\* A model, a connector or the server fails.
Fails(r) ==
    /\ req[r] # Idle
    /\ Ends(r)
    /\ UNCHANGED <<process, versions, rows, base, published, proposals>>

-----------------------------------------------------------------------------
(***************************************************************************)
(* The proposals of a chat                                                 *)
(***************************************************************************)

\* accept and reject lock the proposal.
Settle(r, p, verdict) ==
    /\ proposals[p] = "open"
    /\ \A q \in Requests : p \notin held[q]
    /\ req' = [req EXCEPT ![r] = NewFlight("review", "reading", p[1], KeyOf(p[3]), verdict, {p})]
    /\ held' = [held EXCEPT ![r] = {p}]
    /\ UNCHANGED <<process, versions, rows, base, published, proposals>>

\* A sibling on the same review that is not accepted.
Blocking(p) ==
    {q \in ProposalIds \ {p} : q[1] = p[1] /\ KeyOf(q[3]) = KeyOf(p[3])
                               /\ proposals[q] \in {"open", "rejected"}}

\* _chat reads the session and the siblings: an accepted proposal with one that
\* is not reviews nothing.
Judge(r) ==
    LET f == req[r]
        unstaged == f.verdict = "accepted" /\ \E p \in f.proposal : Blocking(p) # {}
    IN  /\ f.at = "reading"
        /\ IF unstaged \/ IsOpen(f.session)
           THEN /\ req' = [req EXCEPT ![r].at = IF unstaged THEN "settling" ELSE "saving",
                                      ![r].saw = Last(f.session)]
                /\ UNCHANGED held
           ELSE Ends(r)
        /\ UNCHANGED <<process, versions, rows, base, published, proposals>>

\* A proposal is settled without a review.
SettledAlone(r) ==
    /\ req[r].at = "settling"
    /\ proposals' = Settles(req[r])
    /\ Ends(r)
    /\ UNCHANGED <<process, versions, rows, base, published>>

-----------------------------------------------------------------------------
Begins(r) ==
    /\ req[r] = Idle
    /\ \/ \E s \in Sessions, op \in {"discuss", "revise", "supply", "prepare", "publish"} :
             Begin(r, op, s, "setup", "accepted")
       \/ \E s \in Sessions, key \in Keys, verdict \in {"accepted", "rejected"} :
             Begin(r, "review", s, key, verdict)
       \/ \E p \in ProposalIds, verdict \in {"accepted", "rejected"} : Settle(r, p, verdict)

Advances(r) ==
    \/ \E kinds \in SUBSET Kinds : Answered(r, kinds)
    \/ Judge(r) \/ SettledAlone(r)
    \/ Save(r) \/ Publish(r) \/ Conflict(r)

Next ==
    \/ EvidenceChanges \/ DraftOpens \/ DraftIsDiscarded \/ DraftIsPublished
    \/ \E s \in Sessions : Start(s)
    \/ \E r \in Requests : Begins(r) \/ Advances(r) \/ Fails(r)

Spec == Init /\ [][Next]_vars

-----------------------------------------------------------------------------
(***************************************************************************)
(* Properties                                                              *)
(***************************************************************************)

Stored == {x \in Sessions \X (1 .. MaxRevisions) : x[2] <= Last(x[1])}

\* Each revision was made from the one before: no answer that was awaited meanwhile
\* overwrites another.
NothingOverwritten ==
    \A x \in Stored : rows[x[1]][x[2]].over = x[2] - 1

\* A review in force is about the plan it was given for, also when it comes from a
\* proposal that was written with an earlier plan.
ReviewsAreOfThePlan ==
    \A x \in Stored, k \in Keys :
        LET d == rows[x[1]][x[2]]
        IN  d.reviews[k].verdict # "none" => d.reviews[k].plan = d.plan

\* A preview in force was compiled from the plan and the tables it stands beside, with
\* everything in the plan accepted.
PreviewIsOfTheContent ==
    \A x \in Stored :
        LET d == rows[x[1]][x[2]]
        IN  d.preview # NoPreview => d.preview.content = d.content /\ Ready(d)

\* A session publishes on the very version it started from: no version is published
\* in between that it would silently undo.
PublishedOnItsBase ==
    \A v \in DOMAIN versions :
        versions[v] # Others => v = base[versions[v]].active + 1

\* What a manager has approved, or may publish, is what stands beside the approval.
ApprovalsHold == TypeOK /\ ReviewsAreOfThePlan /\ PreviewIsOfTheContent

\* "They share the draft's `setup` review, which is staged once every proposal
\* on it is accepted."
StagedOnceAllAccepted ==
    \A s \in Sessions :
        LET mine == {p \in ProposalIds : p[1] = s /\ p[2] = Current(s).plan
                                         /\ KeyOf(p[3]) = "setup" /\ proposals[p] # "none"}
        IN  /\ Last(s) > 0 /\ mine # {} /\ \A p \in mine : proposals[p] = "accepted"
            /\ Current(s).content = Current(s).plan
            /\ \A r \in Requests : req[r] = Idle
            => Current(s).reviews["setup"].verdict # "none"
=============================================================================
