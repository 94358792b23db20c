------------------------------ MODULE Proposals ------------------------------
(***************************************************************************)
(* What agents propose and a manager settles: decisions on escalated       *)
(* cases, learned norms and learned changes of the description             *)
(* (proposals/service.py, with the parts of decisions/service.py,          *)
(* learning/service.py and versions/service.py it calls).                  *)
(*                                                                         *)
(* The requests lock rows of PostgreSQL in different orders: a proposal    *)
(* before or after the process, a case before or after it, a norm before   *)
(* or after its proposal.  So this module keeps the row locks themselves:  *)
(* a request takes them one by one, waits for what another holds, and a    *)
(* cycle of waits costs one of its requests its transaction.               *)
(*                                                                         *)
(* A request is one transaction; what it writes becomes visible in its     *)
(* last step.  Texts, evidence and authors are data.                       *)
(***************************************************************************)
EXTENDS Naturals, Sequences, FiniteSets

CONSTANTS
    Requests,
    Cases,
    Norms,         \* the norms the learning agent proposed
    Changes,       \* the changes of the description it proposed
    MaxVersions,   \* bound on the published versions
    MaxRevisions,  \* bound on the revisions of a draft
    MaxRows,       \* bound on the decisions of a case
    MaxProposals   \* bound on the table of proposals

ProposalsAssumption ==
    /\ Cases \intersect Norms = {} /\ Changes \intersect (Cases \union Norms) = {}
    /\ {MaxRows, MaxProposals, MaxVersions, MaxRevisions} \subseteq Nat

VARIABLES
    history,    \* the decisions of each case, in the order of their ids
    proposals,  \* the table of proposals, by id
    norm,       \* the resolution of each norm
    versions,   \* the published versions: the changes in their description
    draft,      \* the draft of the next version, or NoDraft
    held,       \* the rows each request has locked
    req         \* what each request in flight is doing

config == <<versions, draft>>
vars == <<history, proposals, norm, config, held, req>>

-----------------------------------------------------------------------------
(***************************************************************************)
(* Rows                                                                    *)
(***************************************************************************)

\* A decision: whose it is, does its type need a person, and which proposal
\* it settled with what it proposed (0 for none).
Decisions == [by : {"engine", "person"}, escalates : BOOLEAN, answers : Nat]

\* "cites" is payload.decision_id, by its place in the history; "saw" (history
\* variable) is the decision the assistant was shown.  0 for a norm.
Subjects == Cases \union Norms \union Changes

ManagerProposals ==
    [about : Subjects, cites : Nat, saw : Nat,
     status : {"open", "accepted", "rejected", "superseded"}]

NewProposal(about, cites, saw) ==
    [about |-> about, cites |-> cites, saw |-> saw, status |-> "open"]

\* A draft, with the version it is based on and the changes in its description.
Drafts == [revision : Nat, base : Nat, text : SUBSET Changes]
NoDraft == [revision |-> 0]

Ids == DOMAIN proposals
IsOpen(p) == proposals[p].status = "open"

\* settle and supersede write the status of a row, whatever it was.
Settled(P, status) ==
    [p \in Ids |-> IF p \in P THEN [proposals[p] EXCEPT !.status = status]
                   ELSE proposals[p]]

ProcessRow == <<"process", 0>>
CaseRow(c) == <<"case", c>>
NormRow(n) == <<"norm", n>>
ProposalRow(p) == <<"proposal", p>>

Rows == {"process", "case", "norm", "proposal"} \X (Cases \union Norms \union Nat)

(***************************************************************************)
(* A request in flight: "at" is the step it is about to take, "about" its  *)
(* case, norm or change, "proposal" the proposal it names (0 for none),    *)
(* "accepts" whether it takes what was proposed, "olds" the proposals it   *)
(* supersedes, "saw" and "text" what it read of a decision or the draft.   *)
(***************************************************************************)
Steps == {"suggesting", "rereading", "superseding", "proposing",
          "resolving", "answering", "naming",
          "deciding", "uploading", "validating",
          "adopting", "publishing", "freezing", "settling", "reading", "staging"}

Flights ==
    [at : Steps, about : Subjects, proposal : Nat, accepts : BOOLEAN,
     saw : Nat, cites : Nat, olds : SUBSET Nat, text : SUBSET Changes]

NewFlight(at, about, p, accepts) ==
    [at |-> at, about |-> about, proposal |-> p, accepts |-> accepts,
     saw |-> 0, cites |-> 0, olds |-> {}, text |-> {}]

Idle == [at |-> "idle"]

TypeOK ==
    /\ history \in [Cases -> Seq(Decisions)]
    /\ proposals \in Seq(ManagerProposals)
    /\ norm \in [Norms -> {"unknown", "unresolved", "adopted", "rejected"}]
    /\ versions \in Seq(SUBSET Changes)
    /\ draft \in Drafts \union {NoDraft}
    /\ held \in [Requests -> SUBSET Rows]
    /\ req \in [Requests -> Flights \union {Idle}]

Init ==
    /\ history = [c \in Cases |-> <<>>]
    /\ proposals = <<>>
    /\ norm = [n \in Norms |-> "unknown"]
    /\ versions = <<{}>>
    /\ draft = NoDraft
    /\ held = [r \in Requests |-> {}]
    /\ req = [r \in Requests |-> Idle]

-----------------------------------------------------------------------------
(***************************************************************************)
(* Locks                                                                   *)
(***************************************************************************)

\* settle_norm reads the open proposal of the norm, without a lock.
OpenOf(n) == {p \in Ids : proposals[p].about = n /\ IsOpen(p)}

\* The rows the next step of a request locks.  Inserting a proposal or a
\* decision locks the process and the case it refers to.
Needs(r) ==
    LET f == req[r]
    IN  CASE f.at = "superseding" -> {ProposalRow(p) : p \in f.olds}
          [] f.at = "proposing" -> {ProcessRow, CaseRow(f.about)}
          [] f.at \in {"resolving", "uploading", "publishing", "staging"} -> {ProcessRow}
          [] f.at \in {"answering", "deciding"} -> {CaseRow(f.about)}
          [] f.at = "naming" -> {ProposalRow(f.proposal)}
          [] f.at = "freezing" -> {CaseRow(c) : c \in Cases}
          [] f.at = "settling" -> {ProposalRow(p) : p \in OpenOf(f.about)}
          [] f.at = "adopting" -> {NormRow(f.about)}
          [] OTHER -> {}

FreeFor(r, rows) == \A q \in Requests \ {r} : held[q] \intersect rows = {}
Granted(r) == FreeFor(r, Needs(r))

WaitsFor(r) == {q \in Requests \ {r} : held[q] \intersect Needs(r) # {}}

\* Some requests, r among them, wait for each other in a circle.
Deadlocked(r) ==
    \E S \in SUBSET Requests :
        /\ r \in S
        /\ \A q \in S : /\ WaitsFor(q) \intersect S # {}
                        /\ \E p \in S : q \in WaitsFor(p)

Starts(r, flight, rows) ==
    /\ FreeFor(r, rows)
    /\ req' = [req EXCEPT ![r] = flight]
    /\ held' = [held EXCEPT ![r] = rows]
    /\ UNCHANGED <<history, proposals, norm, config>>

Takes(r, at) ==
    /\ req' = [req EXCEPT ![r].at = at]
    /\ held' = [held EXCEPT ![r] = @ \union Needs(r)]
    /\ UNCHANGED <<history, proposals, norm, config>>

\* The transaction is over, its rows are free.
Ends(r) ==
    /\ req' = [req EXCEPT ![r] = Idle]
    /\ held' = [held EXCEPT ![r] = {}]

\* The request is refused (a conflict), or fails: nothing it did remains.
Refused(r) ==
    /\ Ends(r)
    /\ UNCHANGED <<history, proposals, norm, config>>

-----------------------------------------------------------------------------
(***************************************************************************)
(* Decisions on cases                                                      *)
(***************************************************************************)

Latest(c) == Len(history[c])
Escalated(c) == Latest(c) > 0 /\ history[c][Latest(c)].escalates

Decided(c, by, escalates, p) ==
    [history EXCEPT ![c] =
        Append(@, [by |-> by, escalates |-> escalates, answers |-> p])]

\* The bounds leave room for what is in flight.
Room(c) ==
    Latest(c) + Cardinality({q \in Requests :
        /\ req[q].at \in {"deciding", "resolving", "answering", "naming"}
        /\ req[q].about = c}) < MaxRows

RoomForProposal ==
    Len(proposals) + Cardinality({q \in Requests :
        req[q].at \in {"suggesting", "rereading", "superseding", "proposing"}})
    < MaxProposals

\* run or reprocess: the process, then the case, then a row of the engine, but
\* none over a person's and none when the verdict is unchanged.
EngineStart(r, c) ==
    /\ Room(c)
    /\ Starts(r, NewFlight("deciding", c, 0, FALSE), {ProcessRow})

EngineDecides(r) ==
    LET c == req[r].about
    IN  /\ req[r].at = "deciding" /\ Granted(r)
        /\ Latest(c) > 0 => history[c][Latest(c)].by = "engine"
        /\ \E escalates \in BOOLEAN : history' = Decided(c, "engine", escalates, 0)
        /\ Ends(r)
        /\ UNCHANGED <<proposals, norm, config>>

EngineAgrees(r) ==
    /\ req[r].at = "deciding" /\ Granted(r) /\ Latest(req[r].about) > 0
    /\ Refused(r)

\* A repeated upload locks the case, then, to read it again, the process.
UploadStart(r, c) == Starts(r, NewFlight("uploading", c, 0, FALSE), {CaseRow(c)})

UploadEnds(r) ==
    /\ req[r].at = "uploading" /\ Granted(r)
    /\ Refused(r)

\* propose_decision: the assistant is shown the escalated decision.
Suggest(r, c) ==
    /\ Escalated(c) /\ RoomForProposal
    /\ Starts(r, [NewFlight("suggesting", c, 0, FALSE) EXCEPT !.saw = Latest(c)], {})

\* The model has answered; the latest decision is read again.
Suggested(r) ==
    /\ req[r].at = "suggesting"
    /\ req' = [req EXCEPT ![r].at = "rereading", ![r].cites = Latest(req[r].about)]
    /\ UNCHANGED <<history, proposals, norm, config, held>>

\* supersede reads the open proposals of the case, without a lock.
ReadOlds(r) ==
    /\ req[r].at = "rereading"
    /\ req' = [req EXCEPT ![r].at = "superseding",
                          ![r].olds = {p \in Ids : proposals[p].about = req[r].about
                                                   /\ IsOpen(p)}]
    /\ UNCHANGED <<history, proposals, norm, config, held>>

\* The commit flushes the updates of the old proposals first ...
Supersede(r) ==
    /\ req[r].at = "superseding" /\ Granted(r)
    /\ Takes(r, "proposing")

\* ... then inserts the new one.
Propose(r) ==
    LET f == req[r]
    IN  /\ f.at = "proposing" /\ Granted(r)
        /\ proposals' = Append(Settled(f.olds, "superseded"),
                               NewProposal(f.about, f.cites, f.saw))
        /\ Ends(r)
        /\ UNCHANGED <<history, norm, config>>

\* accept of a decision: the proposal, then what resolve locks.
AcceptDecision(r, p) ==
    /\ proposals[p].about \in Cases /\ IsOpen(p) /\ Room(proposals[p].about)
    /\ Starts(r, NewFlight("resolving", proposals[p].about, p, TRUE), {ProposalRow(p)})

\* resolve, with the outcome of a proposal or another, or without one.
ResolveStart(r, c, p, accepts) ==
    /\ p = 0 => ~accepts
    /\ Room(c)
    /\ Starts(r, NewFlight("resolving", c, p, accepts), {})

ResolveProcess(r) ==
    /\ req[r].at = "resolving" /\ Granted(r)
    /\ Takes(r, "answering")

ResolveCase(r) ==
    /\ req[r].at = "answering" /\ Granted(r) /\ req[r].proposal # 0
    /\ Takes(r, "naming")

\* Mutant: nobody asks whether the case has moved on.
AnswerableAnyway(f) ==
    /\ proposals[f.proposal].about = f.about /\ IsOpen(f.proposal)
    /\ Latest(f.about) > 0

Answerable(f) ==
    /\ proposals[f.proposal].about = f.about /\ IsOpen(f.proposal)
    /\ Latest(f.about) = proposals[f.proposal].cites

Outcome(f) == IF f.accepts THEN "accepted" ELSE "rejected"

\* A person's row without a proposal.  Open ones stay open.
ResolveAlone(r) ==
    LET f == req[r]
    IN  /\ f.at = "answering" /\ Granted(r) /\ f.proposal = 0
        /\ \E escalates \in BOOLEAN :
              history' = Decided(f.about, "person", escalates, 0)
        /\ Ends(r)
        /\ UNCHANGED <<proposals, norm, config>>

\* A person's row that settles a proposal, in one transaction.  What is
\* proposed is final; another outcome may escalate again.
ResolveNamed(r) ==
    LET f == req[r]
    IN  /\ f.at = "naming" /\ Granted(r) /\ Answerable(f)
        /\ \E escalates \in BOOLEAN :
              /\ escalates => ~f.accepts
              /\ history' = Decided(f.about, "person", escalates,
                                    IF f.accepts THEN f.proposal ELSE 0)
        /\ proposals' = Settled({f.proposal}, Outcome(f))
        /\ Ends(r)
        /\ UNCHANGED <<norm, config>>

ResolveRefused(r) ==
    /\ req[r].at = "naming" /\ Granted(r) /\ ~Answerable(req[r])
    /\ Refused(r)

\* reject of a decision or a change: one row, one step.
Reject(r, p) ==
    /\ proposals[p].about \notin Norms /\ IsOpen(p)
    /\ FreeFor(r, {ProposalRow(p)})
    /\ proposals' = Settled({p}, "rejected")
    /\ UNCHANGED <<history, norm, config, held, req>>

-----------------------------------------------------------------------------
(***************************************************************************)
(* Learned norms                                                           *)
(***************************************************************************)

\* The insertion of a proposal waits for who holds the process.
ProcessIsFree == \A r \in Requests : ProcessRow \notin held[r]

\* An analysis commits a norm and its proposal together.
Analyze(n) ==
    /\ norm[n] = "unknown" /\ RoomForProposal /\ ProcessIsFree
    /\ norm' = [norm EXCEPT ![n] = "unresolved"]
    /\ proposals' = Append(proposals, NewProposal(n, 0, 0))
    /\ UNCHANGED <<history, config, held, req>>

\* A validation compiles the norm and runs models, all under the row of the norm.
ValidateNorm(r, n) ==
    /\ norm[n] = "unresolved"
    /\ Starts(r, NewFlight("validating", n, 0, FALSE), {NormRow(n)})

Validated(r) ==
    /\ req[r].at = "validating"
    /\ Refused(r)

\* accept and reject of a norm's proposal lock it before the norm.
SettleNorm(r, p, accepts) ==
    /\ proposals[p].about \in Norms /\ IsOpen(p)
    /\ Starts(r, NewFlight("adopting", proposals[p].about, p, accepts), {ProposalRow(p)})

\* approve and reject of the norm itself begin with the norm.
ResolveNorm(r, n, accepts) ==
    /\ norm[n] # "unknown"
    /\ Starts(r, NewFlight("adopting", n, 0, accepts), {})

Unresolved(n) == norm[n] = "unresolved"

NormLocked(r) ==
    /\ req[r].at = "adopting" /\ Granted(r) /\ Unresolved(req[r].about)
    /\ Takes(r, IF req[r].accepts THEN "publishing" ELSE "settling")

NormRefused(r) ==
    /\ req[r].at = "adopting" /\ Granted(r) /\ ~Unresolved(req[r].about)
    /\ Refused(r)

\* The version that adopts the norm is written under the process row and the
\* rows of all its cases.
LockForNorm(r) ==
    /\ req[r].at = "publishing" /\ Granted(r)
    /\ Takes(r, "freezing")

PublishNorm(r) ==
    /\ req[r].at = "freezing" /\ Granted(r)
    /\ Takes(r, "settling")

\* Mutant: only the proposal that was named is settled.
NormSettledAsNamed(r) ==
    LET n == req[r].about
    IN  /\ req[r].at = "settling" /\ Granted(r)
        /\ norm' = [norm EXCEPT ![n] = IF req[r].accepts THEN "adopted" ELSE "rejected"]
        /\ proposals' = Settled({req[r].proposal}, Outcome(req[r]))
        /\ Ends(r)
        /\ UNCHANGED <<history, config>>

\* The resolution and the settlement of its proposal, in one transaction.
NormSettled(r) ==
    LET n == req[r].about
    IN  /\ req[r].at = "settling" /\ Granted(r)
        /\ norm' = [norm EXCEPT ![n] = IF req[r].accepts THEN "adopted" ELSE "rejected"]
        /\ proposals' = Settled(OpenOf(n), Outcome(req[r]))
        /\ Ends(r)
        /\ UNCHANGED <<history, config>>

-----------------------------------------------------------------------------
(***************************************************************************)
(* Learned changes of the description                                      *)
(***************************************************************************)

LearnChange(x) ==
    /\ \A p \in Ids : proposals[p].about # x
    /\ RoomForProposal /\ ProcessIsFree
    /\ proposals' = Append(proposals, NewProposal(x, 0, 0))
    /\ UNCHANGED <<history, norm, config, held, req>>

AcceptChange(r, p) ==
    /\ proposals[p].about \in Changes /\ IsOpen(p)
    /\ Starts(r, NewFlight("reading", proposals[p].about, p, TRUE), {ProposalRow(p)})

Active == Len(versions)

\* _stage appends to the description it reads, of the draft or of the active
\* version, before edit locks the process.
ReadDescription(r) ==
    /\ req[r].at = "reading"
    /\ req' = [req EXCEPT ![r].at = "staging",
                          ![r].saw = draft.revision,
                          ![r].text = IF draft = NoDraft THEN versions[Active]
                                      ELSE draft.text]
    /\ UNCHANGED <<history, proposals, norm, config, held>>

\* edit compares the revision, and a draft must be of the active version.
Stageable(f) ==
    /\ f.saw = draft.revision
    /\ draft # NoDraft => draft.base = Active

StageChange(r) ==
    LET f == req[r]
    IN  /\ f.at = "staging" /\ Granted(r) /\ Stageable(f) /\ draft.revision < MaxRevisions
        /\ draft' = [revision |-> draft.revision + 1, base |-> Active,
                     text |-> f.text \union {f.about}]
        /\ proposals' = Settled({f.proposal}, "accepted")
        /\ Ends(r)
        /\ UNCHANGED <<history, norm, versions>>

StageRefused(r) ==
    /\ req[r].at = "staging" /\ Granted(r)
    /\ ~Stageable(req[r]) \/ draft.revision >= MaxRevisions
    /\ Refused(r)

\* The pages of the draft: a validated draft is published, or discarded.
PublishDraft ==
    /\ draft # NoDraft /\ draft.base = Active /\ Active < MaxVersions /\ ProcessIsFree
    /\ versions' = Append(versions, draft.text)
    /\ draft' = NoDraft
    /\ UNCHANGED <<history, proposals, norm, held, req>>

DiscardDraft ==
    /\ draft # NoDraft /\ ProcessIsFree
    /\ draft' = NoDraft
    /\ UNCHANGED <<history, proposals, norm, versions, held, req>>

-----------------------------------------------------------------------------
\* A request fails: a model or the database does not answer, or the server dies.
Fails(r) ==
    /\ req[r] # Idle
    /\ Refused(r)

\* PostgreSQL breaks a deadlock by failing one of its transactions.
Victim(r) ==
    /\ Deadlocked(r)
    /\ Refused(r)

Begins(r) ==
    /\ req[r] = Idle
    /\ \/ \E c \in Cases : EngineStart(r, c) \/ UploadStart(r, c) \/ Suggest(r, c)
       \/ \E c \in Cases, p \in Ids \union {0}, accepts \in BOOLEAN :
             ResolveStart(r, c, p, accepts)
       \/ \E p \in Ids : AcceptDecision(r, p) \/ Reject(r, p)
       \/ \E p \in Ids, accepts \in BOOLEAN : SettleNorm(r, p, accepts)
       \/ \E n \in Norms : ValidateNorm(r, n)
       \/ \E n \in Norms, accepts \in BOOLEAN : ResolveNorm(r, n, accepts)
       \/ \E p \in Ids : AcceptChange(r, p)

Advances(r) ==
    \/ EngineDecides(r) \/ EngineAgrees(r)
    \/ UploadEnds(r)
    \/ Suggested(r) \/ ReadOlds(r) \/ Supersede(r) \/ Propose(r)
    \/ ResolveProcess(r) \/ ResolveCase(r)
    \/ ResolveAlone(r) \/ ResolveNamed(r) \/ ResolveRefused(r)
    \/ Validated(r) \/ NormLocked(r) \/ NormRefused(r)
    \/ LockForNorm(r) \/ PublishNorm(r) \/ NormSettled(r)
    \/ ReadDescription(r) \/ StageChange(r) \/ StageRefused(r)

Next ==
    \/ \E n \in Norms : Analyze(n)
    \/ \E x \in Changes : LearnChange(x)
    \/ PublishDraft \/ DiscardDraft
    \/ \E r \in Requests : Begins(r) \/ Advances(r) \/ Fails(r) \/ Victim(r)

Spec == Init /\ [][Next]_vars

-----------------------------------------------------------------------------
(***************************************************************************)
(* Properties                                                              *)
(***************************************************************************)

\* A decision that applies a proposal directly follows, on the same case, the
\* decision the proposal names.  So none is applied twice, or over a person
\* who decided after it was written.
AnswersTheDecisionItNames ==
    \A c \in Cases : \A k \in 1 .. Len(history[c]) :
        LET p == history[c][k].answers
        IN  p # 0 => p \in Ids /\ proposals[p].about = c /\ proposals[p].cites = k - 1

\* A proposal reads accepted exactly when what it proposes is a decision, unless
\* it was superseded, and is never both rejected and applied.
AcceptedIsApplied ==
    \A p \in Ids : proposals[p].about \in Cases =>
        LET applied == \E k \in 1 .. Len(history[proposals[p].about]) :
                          history[proposals[p].about][k].answers = p
        IN  /\ proposals[p].status = "accepted" => applied
            /\ applied => proposals[p].status \in {"accepted", "superseded"}

\* A norm and its proposal tell the same story, whichever of the two routes its
\* manager took and however the other one interfered.
NormAgrees ==
    \A p \in Ids : proposals[p].about \in Norms =>
        <<norm[proposals[p].about], proposals[p].status>> \in
            {<<"unresolved", "open">>, <<"adopted", "accepted">>, <<"rejected", "rejected">>}

\* Nothing a manager did not accept, nor what one rejected, reaches a draft or
\* a version.
OnlyAcceptedChanges ==
    \A x \in Changes :
        (draft # NoDraft /\ x \in draft.text) \/ (\E v \in DOMAIN versions : x \in versions[v]) =>
            \E p \in Ids : proposals[p].about = x /\ proposals[p].status = "accepted"

\* Proposals, decisions, norms and drafts tell one story.
SettlementsAgree == TypeOK /\ AcceptedIsApplied /\ NormAgrees /\ OnlyAcceptedChanges

\* "Only the settlement fields are written, one time (status leaves `open`)."
SettledOnce ==
    [][\A p \in Ids : ~IsOpen(p) => proposals'[p].status = proposals[p].status]_vars

\* "A new one supersedes the instance's open proposal."
OneOpenPerCase ==
    \A p, q \in Ids :
        p # q /\ proposals[p].about = proposals[q].about => ~(IsOpen(p) /\ IsOpen(q))

\* "409 already decided, or a stale draft": what is staged on the active version
\* keeps all that was published.
StagedOnThePublished ==
    draft # NoDraft /\ draft.base = Active => versions[Active] \subseteq draft.text

\* The decision a proposal names is the escalation it answers, the one its
\* assistant was shown.
AnswersWhatItSaw ==
    \A p \in Ids : proposals[p].cites = proposals[p].saw
=============================================================================
