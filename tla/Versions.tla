------------------------------ MODULE Versions ------------------------------
(***************************************************************************)
(* The configuration of a process, versions/service.py: one draft that     *)
(* several managers and other features edit, and a line of published       *)
(* versions.  Publication consumes the draft, once a manager approves the  *)
(* validation of that exact draft on the current evidence.  Two features   *)
(* publish past the draft: learning (learning/service.py) extends the      *)
(* active version with one norm, and a discovery (processes/drafts.py)     *)
(* replaces it by its plan, which module Discovery follows.                *)
(*                                                                         *)
(* Every action takes the process row first and commits before it returns, *)
(* so each is one step; managers keep what they fetched between requests.  *)
(* A refused request (409) changes nothing and is not a step.              *)
(*                                                                         *)
(* A snapshot is the set of the settings it contains: fields, rules and    *)
(* guidance alike.  A digest is the value it is a digest of.  The evidence *)
(* is what execution.capture collects, cases with their latest decisions   *)
(* and loads: one value that runs, uploads and syncs change and may change *)
(* back.                                                                   *)
(***************************************************************************)
EXTENDS Naturals, Sequences

CONSTANTS
    Managers,     \* who edits, approves and discards
    Edits,        \* settings that are edited through the draft
    Norms,        \* norms that learning proposes to add
    Evidence,     \* what the execution inputs may be
    Passes(_, _), \* whether a snapshot passes validation on some evidence
    MaxVersions,  \* bound: published versions
    MaxDrafts,    \* bound: drafts begun
    MaxRevision   \* bound: revisions of one draft

ASSUME VersionsAssumption ==
    /\ Edits \intersect Norms = {}
    /\ {MaxVersions, MaxDrafts, MaxRevision} \subseteq Nat \ {0}
    /\ \A c \in SUBSET (Edits \union Norms), e \in Evidence : Passes(c, e) \in BOOLEAN

Snapshots == SUBSET (Edits \union Norms)

\* inspect's report on a snapshot; its hash covers all of it.
Reports == [revision : 1 .. MaxRevision, snapshot : Snapshots,
            evidence : Evidence, valid : BOOLEAN]
NoReport == [revision |-> 0]

(***************************************************************************)
(* `id` tells the drafts of a process apart.  The table does not have it:  *)
(* its key is the process, and the row is deleted when the draft is        *)
(* published or discarded.  `leftOut` is not in the table either: the      *)
(* norms that its requests dropped, by a list of rules or guidance that    *)
(* does not name them, by retiring them or by restoring an older version.  *)
(***************************************************************************)
Drafts == [id : 1 .. MaxDrafts, revision : 1 .. MaxRevision,
           base : 1 .. MaxVersions, snapshot : Snapshots,
           leftOut : SUBSET Norms, report : Reports \union {NoReport}]
NoDraft == [id |-> 0]

\* What of a fetched draft the next request of its manager names.
Views == [id : 1 .. MaxDrafts, revision : 1 .. MaxRevision, report : Reports \union {NoReport}]
Fetched(d) ==
    IF d = NoDraft THEN NoDraft
    ELSE [id |-> d.id, revision |-> d.revision, report |-> d.report]

\* A published version, with what its approver had seen validated: nothing for the
\* first and for a plan, whose candidate is validated as it is published.
Approvals == [snapshot : Snapshots, evidence : Evidence]
PublishedVersions ==
    [snapshot : Snapshots, evidence : Evidence, leftOut : SUBSET Norms,
     approved : SUBSET Approvals, norm : SUBSET Norms]

VARIABLES
    versions,   \* the published versions, by number; the last is active
    draft,      \* the row of process_drafts, or none
    drafts,     \* how many drafts were begun
    evidence,   \* the current execution inputs
    view,       \* the draft each manager fetched last
    prepared    \* the latest validation of each norm

vars == <<versions, draft, drafts, evidence, view, prepared>>

Active == Len(versions)
ActiveSnapshot == versions[Active].snapshot

\* A validation of a norm that succeeded: the latest counts, and one that failed
\* is as none.
Preparations == [base : 1 .. MaxVersions, evidence : Evidence]
NotPrepared == [base |-> 0]

TypeOK ==
    /\ versions \in Seq(PublishedVersions) /\ Active \in 1 .. MaxVersions
    /\ draft \in Drafts \union {NoDraft}
    /\ drafts \in 0 .. MaxDrafts
    /\ evidence \in Evidence
    /\ view \in [Managers -> Views \union {NoDraft}]
    /\ prepared \in [Norms -> Preparations \union {NotPrepared}]

Init ==
    /\ evidence \in Evidence
    /\ versions = <<[snapshot |-> {}, evidence |-> evidence, leftOut |-> {},
                     approved |-> {}, norm |-> {}]>>
    /\ draft = NoDraft
    /\ drafts = 0
    /\ view = [m \in Managers |-> NoDraft]
    /\ prepared = [n \in Norms |-> NotPrepared]

\* The proposals of norms that a manager has resolved by adopting them.
Adopted == UNION {versions[k].norm : k \in 1 .. Active}

\* What a configuration can be made of: a norm has its rule or guidance once adopted.
Settings == Edits \union Adopted

-----------------------------------------------------------------------------
(* Editing the draft.                                                      *)

\* The norms that were there and are no longer.
Dropped(had, snapshot) == (had \intersect Norms) \ snapshot

\* stage: a new draft starts at revision 1 on the active version; every write
\* is one revision more and voids the validation.
Stage(snapshot, base, leftOut) ==
    IF draft = NoDraft
      THEN /\ drafts < MaxDrafts
           /\ drafts' = drafts + 1
           /\ draft' = [id |-> drafts', revision |-> 1, base |-> base,
                        snapshot |-> snapshot, leftOut |-> leftOut,
                        report |-> NoReport]
      ELSE /\ draft.revision < MaxRevision
           /\ draft' = [draft EXCEPT !.revision = @ + 1, !.base = base,
                                     !.snapshot = snapshot,
                                     !.leftOut = leftOut,
                                     !.report = NoReport]
           /\ UNCHANGED drafts

\* What a write starts from, and the norms that this or an earlier one drops.
Staged == IF draft = NoDraft THEN ActiveSnapshot ELSE draft.snapshot
DroppedBefore == IF draft = NoDraft THEN {} ELSE draft.leftOut

\* A request that names the revision its manager fetched is accepted on the
\* draft there is, or on none when none was fetched.
Expects(m) ==
    IF draft = NoDraft THEN view[m] = NoDraft
    ELSE view[m] # NoDraft /\ view[m].revision = draft.revision

\* Mutant: a draft of an older version is edited as if it were current.
RebasesAnyhow(restore) == TRUE

\* A draft of an older version takes no edit but one that restores the active
\* version, which rebases it.
Rebases(restore) == draft # NoDraft /\ draft.base # Active => restore = Active

\* edit (PUT draft).  `restore` is a version the manager asks to fill the draft
\* from, or 0.  The lists of rules and guidance that a request sends replace
\* those of the draft, whatever they contain.
Edit(m, restore, snapshot) ==
    LET start == IF restore = 0 THEN Staged ELSE versions[restore].snapshot
        before == IF restore = 0 THEN DroppedBefore ELSE ActiveSnapshot
    IN  /\ Expects(m)
        /\ Rebases(restore)
        /\ Stage(snapshot, Active, Dropped(start \union before, snapshot))
        /\ view' = [view EXCEPT ![m] = Fetched(draft')]
        /\ UNCHANGED <<versions, evidence, prepared>>

\* _stage_rule: a rule goes in or out of the draft, whatever its revision and
\* base, on behalf of a compilation or a rule's page.
StageRule(s) ==
    /\ \E snapshot \in {Staged \union {s}, Staged \ {s}} :
          Stage(snapshot, IF draft = NoDraft THEN Active ELSE draft.base,
                Dropped(Staged \union DroppedBefore, snapshot))
    /\ UNCHANGED <<versions, evidence, view, prepared>>

Fetch(m) ==
    /\ view[m] # Fetched(draft)
    /\ view' = [view EXCEPT ![m] = Fetched(draft)]
    /\ UNCHANGED <<versions, draft, drafts, evidence, prepared>>

\* DELETE draft, with the revision its manager fetched.
Discard(m) ==
    /\ draft # NoDraft /\ Expects(m)
    /\ draft' = NoDraft
    /\ UNCHANGED <<versions, drafts, evidence, view, prepared>>

-----------------------------------------------------------------------------
(* Validating and publishing the draft.                                    *)

\* validate: the report on the draft, if it is based on the active version.
Validate ==
    /\ draft # NoDraft /\ draft.base = Active
    /\ draft' = [draft EXCEPT !.report =
                    [revision |-> draft.revision, snapshot |-> draft.snapshot,
                     evidence |-> evidence,
                     valid |-> Passes(draft.snapshot, evidence)]]
    /\ UNCHANGED <<versions, drafts, evidence, view, prepared>>

PublishSnapshot(snapshot, leftOut, approved, norm) ==
    /\ Active < MaxVersions
    /\ versions' = Append(versions,
          [snapshot |-> snapshot, evidence |-> evidence', leftOut |-> leftOut,
           approved |-> approved, norm |-> norm])

\* Mutant: a validation that failed can be approved.
ApprovesInvalid(m) ==
    /\ draft # NoDraft /\ draft.report # NoReport
    /\ view[m] # NoDraft
    /\ draft.revision = view[m].revision
    /\ draft.report = view[m].report

\* The approval names the revision and the hash of the validation its manager
\* fetched; they must be the draft's, and the validation a success.
Approves(m) ==
    /\ draft # NoDraft /\ draft.report # NoReport
    /\ view[m] # NoDraft
    /\ draft.revision = view[m].revision
    /\ draft.report = view[m].report
    /\ draft.report.valid

\* Nothing changed since the validation.
Current ==
    /\ draft.base = Active
    /\ draft.report.snapshot = draft.snapshot
    /\ draft.report.evidence = evidence

\* publish: the draft becomes the active version and is deleted.
Publish(m) ==
    /\ Approves(m) /\ Current
    /\ UNCHANGED evidence
    /\ PublishSnapshot(draft.snapshot, draft.leftOut,
          {[snapshot |-> view[m].report.snapshot, evidence |-> view[m].report.evidence]}, {})
    /\ draft' = NoDraft
    /\ UNCHANGED <<drafts, view, prepared>>

-----------------------------------------------------------------------------
(* Learning, and the rest of the process.                                  *)

\* learning.validate: what a norm would do to the active version, as a record
\* with the digest of the version and the evidence it was tried on.
PrepareNorm(n) ==
    /\ n \notin Adopted
    /\ \E valid \in BOOLEAN :
          prepared' = [prepared EXCEPT ![n] =
              IF valid THEN [base |-> Active, evidence |-> evidence] ELSE NotPrepared]
    /\ UNCHANGED <<versions, draft, drafts, evidence, view>>

\* learning.approve: the active version with the norm is published, if the
\* version and the evidence are those of the latest, successful preparation.
AdoptNorm(n) ==
    /\ n \notin Adopted
    /\ prepared[n] # NotPrepared
    /\ prepared[n].base = Active /\ prepared[n].evidence = evidence
    /\ UNCHANGED evidence
    /\ PublishSnapshot(ActiveSnapshot \union {n}, {},
          {[snapshot |-> versions[prepared[n].base].snapshot \union {n},
            evidence |-> prepared[n].evidence]}, {n})
    /\ UNCHANGED <<draft, drafts, view, prepared>>

\* publish of processes/drafts.py, by a session that began on version `base`: its
\* plan names all the rules, and the tables of it replace the loads.  An open draft
\* of the process is left as it is.
PublishPlan(base, plan) ==
    /\ base = Active
    /\ evidence' \in Evidence
    /\ Passes(plan, evidence')
    /\ PublishSnapshot(plan, Dropped(versions[base].snapshot, plan), {}, {})
    /\ UNCHANGED <<draft, drafts, view, prepared>>

\* Uploads, runs, resolutions and syncs, under the same lock.
EvidenceChanges ==
    /\ evidence' \in Evidence \ {evidence}
    /\ UNCHANGED <<versions, draft, drafts, view, prepared>>

Next ==
    \/ \E m \in Managers :
          \/ Fetch(m)
          \/ \E restore \in 0 .. Active, snapshot \in SUBSET Settings :
                Edit(m, restore, snapshot)
          \/ Discard(m)
          \/ Publish(m)
    \/ \E s \in Settings : StageRule(s)
    \/ Validate
    \/ \E n \in Norms : PrepareNorm(n) \/ AdoptNorm(n)
    \/ \E base \in 1 .. Active, plan \in SUBSET Settings : PublishPlan(base, plan)
    \/ EvidenceChanges

Spec == Init /\ [][Next]_vars

-----------------------------------------------------------------------------
(***************************************************************************)
(* Properties                                                              *)
(***************************************************************************)

\* process-versions.md, step 5: a publication approves the exact candidate the
\* manager saw validated, on the evidence it was validated on.
ApprovedExactly ==
    \A k \in 1 .. Active : \A seen \in versions[k].approved :
        seen.snapshot = versions[k].snapshot /\ seen.evidence = versions[k].evidence

\* A version that is not a norm's passes validation on the evidence of its
\* publication, though the draft, the evidence and the active version may all
\* have changed and changed back since the draft was validated.
PublishedPasses ==
    \A k \in 2 .. Active :
        versions[k].norm = {} => Passes(versions[k].snapshot, versions[k].evidence)

\* process-versions.md: a draft based on an older version must explicitly
\* restore.  No version loses a norm in silence: one that goes was dropped by a
\* request on a configuration that had it, though it may have been adopted, or
\* another version published, while the draft was open.
NormsSurvive ==
    \A k \in 2 .. Active :
        versions[k - 1].snapshot \intersect Norms
            \subseteq versions[k].snapshot \union versions[k].leftOut

\* A proposal has one terminal resolution (learning/model.py): a norm is adopted
\* by one version at most.
AdoptedOnce ==
    \A j, k \in 1 .. Active :
        versions[j].norm \intersect versions[k].norm # {} => j = k

\* service.py:75: "The previous draft was published or discarded; start a new
\* draft".  An edit or a discard acts on the draft its manager had fetched.
ActsOnItsDraft ==
    \A m \in Managers :
        \/ Discard(m)
        \/ \E restore \in 0 .. Active, snapshot \in SUBSET Settings : Edit(m, restore, snapshot)
        => view[m].id = draft.id
=============================================================================
