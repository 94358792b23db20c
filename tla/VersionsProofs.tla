--------------------------- MODULE VersionsProofs ---------------------------
(***************************************************************************)
(* Proofs about drafts and publications, for any number of managers,       *)
(* settings and norms and any bounds; and about what a version does to     *)
(* past cases.                                                             *)
(***************************************************************************)
EXTENDS MCVersions, TLAPS

(***************************************************************************)
(* The inductive invariant: a report on the draft tells the truth, and a   *)
(* draft that could be published, based on the active version, holds the   *)
(* norms of that version but for those that its requests dropped.          *)
(***************************************************************************)
ReportTrue ==
    (draft # NoDraft /\ draft.report # NoReport) =>
        draft.report.valid = Passes(draft.report.snapshot, draft.report.evidence)

DraftBased ==
    draft # NoDraft =>
        /\ draft.base <= Active
        /\ draft.base = Active =>
             ActiveSnapshot \intersect Norms \subseteq draft.snapshot \union draft.leftOut

Inv ==
    /\ TypeOK
    /\ ReportTrue
    /\ DraftBased
    /\ ApprovedExactly
    /\ PublishedPasses
    /\ NormsSurvive
    /\ AdoptedOnce

-----------------------------------------------------------------------------
LEMMA DraftTyped ==
    ASSUME TypeOK, draft # NoDraft
    PROVE  /\ draft \in Drafts
           /\ draft.report # NoReport => draft.report \in Reports
  BY DEF TypeOK, Drafts

LEMMA ActiveTyped ==
    ASSUME TypeOK
    PROVE  /\ Active \in 1 .. MaxVersions /\ Active \in Nat /\ Active >= 1
           /\ MaxVersions \in Nat
           /\ ActiveSnapshot \in Snapshots
           /\ \A k \in 1 .. Active : versions[k] \in PublishedVersions
  <1>1. /\ Active \in 1 .. MaxVersions /\ MaxVersions \in Nat
        /\ versions \in Seq(PublishedVersions)
    BY VersionsAssumption DEF TypeOK
  <1>2. \A k \in 1 .. Active : versions[k] \in PublishedVersions
    BY <1>1 DEF Active
  <1>3. Active \in 1 .. Active
    BY <1>1
  <1> QED
    BY <1>1, <1>2, <1>3 DEF ActiveSnapshot, PublishedVersions

LEMMA InitInv == Init => Inv
  <1> SUFFICES ASSUME Init PROVE Inv
    OBVIOUS
  <1>1. PICK first \in PublishedVersions :
          versions = <<first>> /\ first.norm = {} /\ first.approved = {}
    <2> DEFINE first == [snapshot |-> {}, evidence |-> evidence, leftOut |-> {},
                         approved |-> {}, norm |-> {}]
    <2>1. versions = <<first>> /\ evidence \in Evidence
      BY DEF Init
    <2>2. {} \in Snapshots /\ {} \in SUBSET Norms /\ {} \in SUBSET Approvals
      BY DEF Snapshots
    <2>3. first \in PublishedVersions
      BY <2>1, <2>2 DEF PublishedVersions
    <2> QED
      BY <2>1, <2>3
  <1>2. Active = 1 /\ versions[1] = first
    BY <1>1 DEF Active
  <1>3. TypeOK
    <2>1. /\ versions \in Seq(PublishedVersions)
          /\ Active \in 1 .. MaxVersions
      BY <1>1, <1>2, VersionsAssumption
    <2> QED
      BY <2>1, VersionsAssumption DEF Init, TypeOK
  <1>4. ReportTrue /\ DraftBased
    BY DEF Init, ReportTrue, DraftBased
  <1>5. ApprovedExactly /\ PublishedPasses /\ NormsSurvive /\ AdoptedOnce
    BY <1>1, <1>2 DEF ApprovedExactly, PublishedPasses, NormsSurvive, AdoptedOnce
  <1> QED
    BY <1>3, <1>4, <1>5 DEF Inv

-----------------------------------------------------------------------------
(* A new version keeps what holds of the old ones.                         *)

LEMMA Published ==
    ASSUME Inv, NEW snapshot \in Snapshots, NEW leftOut \in SUBSET Norms,
           NEW norm \in SUBSET Norms, NEW approved \in SUBSET Approvals,
           PublishSnapshot(snapshot, leftOut, approved, norm),
           evidence' \in Evidence,
           \A seen \in approved : seen.snapshot = snapshot /\ seen.evidence = evidence',
           norm = {} => Passes(snapshot, evidence'),
           ActiveSnapshot \intersect Norms \subseteq snapshot \union leftOut,
           norm \intersect Adopted = {}
    PROVE  /\ versions' \in Seq(PublishedVersions)
           /\ Active' = Active + 1 /\ Active' \in 1 .. MaxVersions
           /\ ApprovedExactly' /\ NormsSurvive' /\ AdoptedOnce'
           /\ (\A k \in 2 .. Active' : versions'[k].norm = {} =>
                  Passes(versions'[k].snapshot, versions'[k].evidence))
  <1> DEFINE new == [snapshot |-> snapshot, evidence |-> evidence', leftOut |-> leftOut,
                     approved |-> approved, norm |-> norm]
  <1>1. /\ TypeOK /\ ApprovedExactly /\ PublishedPasses /\ NormsSurvive
        /\ AdoptedOnce
    BY DEF Inv
  <1>2. /\ Active < MaxVersions /\ versions' = Append(versions, new)
        /\ versions \in Seq(PublishedVersions)
    BY <1>1 DEF PublishSnapshot, TypeOK
  <1>3. new \in PublishedVersions
    BY DEF PublishedVersions
  <1>4. /\ versions' \in Seq(PublishedVersions)
        /\ Active' = Active + 1
        /\ \A k \in 1 .. Active : versions'[k] = versions[k]
        /\ versions'[Active + 1] = new
    <2> HIDE DEF new
    <2> QED BY <1>2, <1>3 DEF Active
  <1>5. Active \in Nat /\ Active >= 1 /\ Active' \in 1 .. MaxVersions
    BY <1>1, <1>2, <1>4, ActiveTyped
  <1>6. ApprovedExactly'
    <2> SUFFICES ASSUME NEW k \in 1 .. Active', NEW seen \in versions'[k].approved
                 PROVE  /\ seen.snapshot = versions'[k].snapshot
                        /\ seen.evidence = versions'[k].evidence
      BY DEF ApprovedExactly
    <2>1. CASE k \in 1 .. Active
      BY <1>1, <1>4, <2>1 DEF ApprovedExactly
    <2>2. CASE k = Active + 1
      BY <1>4, <2>2
    <2> QED
      BY <1>4, <1>5, <2>1, <2>2
  <1>7. ASSUME NEW k \in 2 .. Active', versions'[k].norm = {}
        PROVE  Passes(versions'[k].snapshot, versions'[k].evidence)
    <2>1. CASE k \in 2 .. Active
      <3>1. versions'[k] = versions[k]
        BY <1>4, <1>5, <2>1
      <3> QED
        BY <1>1, <1>7, <2>1, <3>1 DEF PublishedPasses
    <2>2. CASE k = Active + 1
      BY <1>4, <1>7, <2>2
    <2> QED
      BY <1>4, <1>5, <2>1, <2>2
  <1>8. NormsSurvive'
    <2> SUFFICES ASSUME NEW k \in 2 .. Active'
                 PROVE  versions'[k - 1].snapshot \intersect Norms
                          \subseteq versions'[k].snapshot \union versions'[k].leftOut
      BY DEF NormsSurvive
    <2>1. CASE k \in 2 .. Active
      <3>1. versions'[k] = versions[k] /\ versions'[k - 1] = versions[k - 1]
        BY <1>4, <1>5, <2>1
      <3> QED
        BY <1>1, <2>1, <3>1 DEF NormsSurvive
    <2>2. CASE k = Active + 1
      <3>1. versions'[k] = new /\ versions'[k - 1] = versions[Active]
        BY <1>4, <1>5, <2>2
      <3> QED
        BY <3>1 DEF ActiveSnapshot
    <2> QED
      BY <1>4, <1>5, <2>1, <2>2
  <1>9. AdoptedOnce'
    <2> SUFFICES ASSUME NEW j \in 1 .. Active', NEW k \in 1 .. Active',
                        versions'[j].norm \intersect versions'[k].norm # {},
                        j # k
                 PROVE  FALSE
      BY DEF AdoptedOnce
    <2>1. \A i \in 1 .. Active : versions[i].norm \intersect norm = {}
      BY DEF Adopted
    <2>2. CASE j \in 1 .. Active /\ k \in 1 .. Active
      BY <1>1, <1>4, <2>2 DEF AdoptedOnce
    <2>3. CASE j = Active + 1 /\ k \in 1 .. Active
      BY <1>4, <2>1, <2>3
    <2>4. CASE k = Active + 1 /\ j \in 1 .. Active
      BY <1>4, <2>1, <2>4
    <2> QED
      BY <1>4, <1>5, <2>2, <2>3, <2>4
  <1> QED
    BY <1>4, <1>5, <1>6, <1>7, <1>8, <1>9

-----------------------------------------------------------------------------
(* The steps that write the draft.                                         *)

LEMMA Stages ==
    ASSUME Inv, NEW snapshot \in Snapshots, NEW base \in 1 .. MaxVersions,
           NEW leftOut \in SUBSET Norms, Stage(snapshot, base, leftOut)
    PROVE  /\ drafts' \in 0 .. MaxDrafts
           /\ draft' \in Drafts
           /\ draft'.base = base /\ draft'.snapshot = snapshot
           /\ draft'.leftOut = leftOut /\ draft'.report = NoReport
  <1>1. /\ TypeOK /\ MaxRevision \in Nat \ {0} /\ MaxDrafts \in Nat \ {0}
        /\ drafts \in 0 .. MaxDrafts
    BY VersionsAssumption DEF Inv, TypeOK
  <1>2. CASE draft = NoDraft
    <2>1. /\ drafts' = drafts + 1 /\ drafts' \in 1 .. MaxDrafts
          /\ draft' = [id |-> drafts', revision |-> 1, base |-> base,
                       snapshot |-> snapshot, leftOut |-> leftOut,
                       report |-> NoReport]
      BY <1>1, <1>2 DEF Stage
    <2>2. 1 \in 1 .. MaxRevision
      BY <1>1
    <2> QED
      BY <1>1, <2>1, <2>2 DEF Drafts
  <1>3. CASE draft # NoDraft
    <2>1. draft \in Drafts
      BY <1>1, <1>3, DraftTyped
    <2>2. /\ draft.revision < MaxRevision /\ drafts' = drafts
          /\ draft' = [draft EXCEPT !.revision = @ + 1, !.base = base,
                                    !.snapshot = snapshot,
                                    !.leftOut = leftOut, !.report = NoReport]
      BY <1>3 DEF Stage
    <2>3. draft.revision + 1 \in 1 .. MaxRevision
      BY <1>1, <2>1, <2>2 DEF Drafts
    <2> QED
      BY <1>1, <2>1, <2>2, <2>3 DEF Drafts
  <1> QED
    BY <1>2, <1>3

\* A manager sees a draft or none.
LEMMA FetchedTyped ==
    ASSUME NEW d \in Drafts \union {NoDraft} PROVE Fetched(d) \in Views \union {NoDraft}
  BY DEF Fetched, Drafts, Views

LEMMA SettingsTyped ==
    ASSUME TypeOK
    PROVE  /\ Settings \subseteq Edits \union Norms
           /\ SUBSET Settings \subseteq Snapshots
           /\ \A had, snapshot : Dropped(had, snapshot) \in SUBSET Norms
  <1>1. \A k \in 1 .. Active : versions[k].norm \subseteq Norms
    BY ActiveTyped DEF PublishedVersions
  <1>2. Adopted \subseteq Norms
    BY <1>1 DEF Adopted
  <1> QED
    BY <1>2 DEF Settings, Snapshots, Dropped

\* What a write starts from, and what it drops with what was dropped before.
LEMMA StagedTyped ==
    ASSUME Inv
    PROVE  /\ Staged \in Snapshots /\ DroppedBefore \in SUBSET Norms
           /\ (draft = NoDraft \/ draft.base = Active) =>
                ActiveSnapshot \intersect Norms \subseteq Staged \union DroppedBefore
  <1>1. TypeOK /\ DraftBased
    BY DEF Inv
  <1>2. CASE draft = NoDraft
    BY <1>1, <1>2, ActiveTyped DEF Staged, DroppedBefore
  <1>3. CASE draft # NoDraft
    <2>1. draft.snapshot \in Snapshots /\ draft.leftOut \in SUBSET Norms
      BY <1>1, <1>3, DraftTyped DEF Drafts
    <2> QED
      BY <1>1, <1>3, <2>1 DEF Staged, DroppedBefore, DraftBased
  <1> QED
    BY <1>2, <1>3

\* A written draft has no report; it accounts for the active norms if it may be
\* published.
LEMMA Drafted ==
    ASSUME Inv, NEW snapshot \in Snapshots, NEW base \in 1 .. Active,
           NEW leftOut \in SUBSET Norms, Stage(snapshot, base, leftOut),
           UNCHANGED <<versions, evidence, prepared>>,
           view' \in [Managers -> Views \union {NoDraft}],
           base = Active => ActiveSnapshot \intersect Norms \subseteq snapshot \union leftOut
    PROVE  Inv'
  <1>1. TypeOK
    BY DEF Inv
  <1>2. base \in 1 .. MaxVersions /\ Active \in Nat /\ Active' = Active
        /\ ActiveSnapshot' = ActiveSnapshot
    BY <1>1, ActiveTyped DEF Active, ActiveSnapshot
  <1>3. /\ drafts' \in 0 .. MaxDrafts /\ draft' \in Drafts
        /\ draft'.base = base /\ draft'.snapshot = snapshot
        /\ draft'.leftOut = leftOut /\ draft'.report = NoReport
    BY <1>2, Stages
  <1>4. TypeOK'
    BY <1>1, <1>2, <1>3 DEF TypeOK
  <1>5. ReportTrue'
    BY <1>3 DEF ReportTrue
  <1>6. DraftBased'
    BY <1>2, <1>3 DEF DraftBased
  <1>7. ApprovedExactly' /\ PublishedPasses' /\ NormsSurvive' /\ AdoptedOnce'
    BY <1>2 DEF Inv, ApprovedExactly, PublishedPasses, NormsSurvive, AdoptedOnce
  <1> QED
    BY <1>4, <1>5, <1>6, <1>7 DEF Inv

LEMMA EditStep ==
    ASSUME Inv, NEW m \in Managers, NEW restore \in 0 .. Active,
           NEW snapshot \in SUBSET Settings, Edit(m, restore, snapshot)
    PROVE  Inv'
  <1> DEFINE start == IF restore = 0 THEN Staged ELSE versions[restore].snapshot
             before == IF restore = 0 THEN DroppedBefore ELSE ActiveSnapshot
             leftOut == Dropped(start \union before, snapshot)
  <1>1. /\ TypeOK /\ Active \in Nat /\ Active >= 1 /\ Active \in 1 .. MaxVersions
    BY ActiveTyped DEF Inv
  <1>2. /\ Rebases(restore) /\ Stage(snapshot, Active, leftOut)
        /\ view' = [view EXCEPT ![m] = Fetched(draft')]
        /\ UNCHANGED <<versions, evidence, prepared>>
    BY DEF Edit
  <1>3. snapshot \in Snapshots /\ leftOut \in SUBSET Norms
    BY <1>1, SettingsTyped
  <1>4. ActiveSnapshot \intersect Norms \subseteq start \union before
    <2>1. CASE restore = 0
      BY <1>1, <1>2, <2>1, StagedTyped DEF Rebases
    <2>2. CASE restore # 0
      BY <2>2
    <2> QED
      BY <2>1, <2>2
  <1>5. ActiveSnapshot \intersect Norms \subseteq snapshot \union leftOut
    <2> HIDE DEF start, before
    <2> QED BY <1>4 DEF Dropped
  <1> HIDE DEF leftOut
  <1>6. draft' \in Drafts
    BY <1>1, <1>2, <1>3, Stages
  <1>7. view' \in [Managers -> Views \union {NoDraft}]
    BY <1>1, <1>2, <1>6, FetchedTyped DEF TypeOK
  <1>8. Active \in 1 .. Active
    BY <1>1
  <1> QED
    BY <1>2, <1>3, <1>5, <1>7, <1>8, Drafted

LEMMA StageRuleStep ==
    ASSUME Inv, NEW s \in Settings, StageRule(s) PROVE Inv'
  <1> DEFINE base == IF draft = NoDraft THEN Active ELSE draft.base
  <1>1. /\ TypeOK /\ DraftBased /\ Active \in Nat /\ Active >= 1
    BY ActiveTyped DEF Inv
  <1>2. PICK snapshot \in {Staged \union {s}, Staged \ {s}} :
          Stage(snapshot, base, Dropped(Staged \union DroppedBefore, snapshot))
    BY DEF StageRule
  <1> DEFINE leftOut == Dropped(Staged \union DroppedBefore, snapshot)
  <1>3. UNCHANGED <<versions, evidence, view, prepared>>
    BY DEF StageRule
  <1>4. base \in 1 .. Active
    <2>1. draft # NoDraft => draft.base \in 1 .. MaxVersions /\ draft.base <= Active
      BY <1>1, DraftTyped DEF Drafts, DraftBased
    <2> QED
      BY <1>1, <2>1, ActiveTyped
  <1>5. snapshot \in Snapshots /\ leftOut \in SUBSET Norms
    BY <1>1, <1>2, StagedTyped, SettingsTyped DEF Snapshots
  <1>6. base = Active => ActiveSnapshot \intersect Norms \subseteq snapshot \union leftOut
    BY StagedTyped DEF Dropped
  <1>7. view' \in [Managers -> Views \union {NoDraft}]
    BY <1>1, <1>3 DEF TypeOK
  <1> HIDE DEF base, leftOut
  <1> QED
    BY <1>2, <1>3, <1>4, <1>5, <1>6, <1>7, Drafted DEF leftOut

-----------------------------------------------------------------------------
(* The steps that publish.                                                 *)

LEMMA PublishStep ==
    ASSUME Inv, NEW m \in Managers, Publish(m) PROVE Inv'
  <1>1. /\ TypeOK /\ DraftBased /\ ReportTrue
        /\ draft # NoDraft /\ draft.report # NoReport
        /\ draft.report = view[m].report /\ draft.report.valid
        /\ draft.base = Active
        /\ draft.report.snapshot = draft.snapshot
        /\ draft.report.evidence = evidence
        /\ draft' = NoDraft
        /\ evidence \in Evidence
        /\ UNCHANGED <<drafts, evidence, view, prepared>>
    BY DEF Inv, TypeOK, Publish, Approves, Current
  <1> DEFINE approved == {[snapshot |-> draft.snapshot, evidence |-> evidence]}
  <1>2. draft.snapshot \in Snapshots /\ draft.leftOut \in SUBSET Norms
    BY <1>1, DraftTyped DEF Drafts
  <1>3. PublishSnapshot(draft.snapshot, draft.leftOut, approved, {})
    BY <1>1 DEF Publish
  <1>4. Passes(draft.snapshot, evidence')
    BY <1>1 DEF ReportTrue
  <1>5. ActiveSnapshot \intersect Norms \subseteq draft.snapshot \union draft.leftOut
    BY <1>1 DEF DraftBased
  <1>10. /\ approved \in SUBSET Approvals
         /\ \A seen \in approved : seen.snapshot = draft.snapshot /\ seen.evidence = evidence'
    BY <1>1, <1>2 DEF Approvals
  <1> HIDE DEF approved
  <1>6. /\ versions' \in Seq(PublishedVersions)
        /\ Active' \in 1 .. MaxVersions
        /\ ApprovedExactly' /\ NormsSurvive' /\ AdoptedOnce'
        /\ (\A k \in 2 .. Active' : versions'[k].norm = {} =>
               Passes(versions'[k].snapshot, versions'[k].evidence))
    BY <1>1, <1>2, <1>3, <1>4, <1>5, <1>10, Published
  <1>7. PublishedPasses'
    BY <1>6 DEF PublishedPasses
  <1>8. TypeOK'
    BY <1>1, <1>6 DEF TypeOK
  <1>9. ReportTrue' /\ DraftBased'
    BY <1>1 DEF ReportTrue, DraftBased
  <1> QED
    BY <1>6, <1>7, <1>8, <1>9 DEF Inv

\* A draft that a publication passes by is of an older version.
LEMMA OlderDraft ==
    ASSUME TypeOK, DraftBased, draft' = draft, Active' = Active + 1
    PROVE  DraftBased'
  <1> SUFFICES ASSUME draft # NoDraft
               PROVE  draft.base <= Active' /\ draft.base # Active'
    BY DEF DraftBased
  <1>1. draft.base <= Active /\ draft.base \in 1 .. MaxVersions /\ Active \in Nat
    BY DraftTyped, ActiveTyped DEF DraftBased, Drafts
  <1> QED
    BY <1>1

LEMMA AdoptStep ==
    ASSUME Inv, NEW n \in Norms, AdoptNorm(n) PROVE Inv'
  <1> DEFINE snapshot == ActiveSnapshot \union {n}
  <1>1. /\ TypeOK /\ DraftBased /\ ReportTrue /\ Active \in Nat
        /\ n \notin Adopted
        /\ prepared[n].base = Active /\ prepared[n].evidence = evidence
        /\ evidence \in Evidence
        /\ UNCHANGED <<draft, drafts, evidence, view, prepared>>
    BY ActiveTyped DEF Inv, TypeOK, AdoptNorm
  <1> DEFINE approved == {[snapshot |-> snapshot, evidence |-> evidence]}
  <1>2. snapshot \in Snapshots /\ ActiveSnapshot \intersect Norms \subseteq snapshot
    BY <1>1, ActiveTyped DEF Snapshots
  <1>3. PublishSnapshot(snapshot, {}, approved, {n})
    BY <1>1 DEF AdoptNorm, ActiveSnapshot
  <1>9. /\ approved \in SUBSET Approvals
        /\ \A seen \in approved : seen.snapshot = snapshot /\ seen.evidence = evidence'
    BY <1>1, <1>2 DEF Approvals
  <1>4. /\ versions' \in Seq(PublishedVersions)
        /\ Active' = Active + 1 /\ Active' \in 1 .. MaxVersions
        /\ ApprovedExactly' /\ NormsSurvive' /\ AdoptedOnce'
        /\ (\A k \in 2 .. Active' : versions'[k].norm = {} =>
               Passes(versions'[k].snapshot, versions'[k].evidence))
    <2>1. {n} \in SUBSET Norms /\ {n} # {} /\ {n} \intersect Adopted = {} /\ {} \in SUBSET Norms
      BY <1>1
    <2> HIDE DEF snapshot, approved
    <2> QED BY <1>1, <1>2, <1>3, <1>9, <2>1, Published
  <1>5. PublishedPasses'
    BY <1>4 DEF PublishedPasses
  <1>6. TypeOK'
    BY <1>1, <1>4 DEF TypeOK
  <1>7. ReportTrue'
    BY <1>1 DEF ReportTrue
  <1>8. DraftBased'
    BY <1>1, <1>4, OlderDraft
  <1> QED
    BY <1>4, <1>5, <1>6, <1>7, <1>8 DEF Inv

LEMMA PlanStep ==
    ASSUME Inv, NEW base \in 1 .. Active, NEW plan \in SUBSET Settings, PublishPlan(base, plan)
    PROVE  Inv'
  <1> DEFINE leftOut == Dropped(ActiveSnapshot, plan)
  <1>1. /\ TypeOK /\ DraftBased /\ ReportTrue /\ evidence' \in Evidence
        /\ Passes(plan, evidence') /\ PublishSnapshot(plan, leftOut, {}, {})
        /\ UNCHANGED <<draft, drafts, view, prepared>>
    BY DEF Inv, PublishPlan, ActiveSnapshot
  <1>2. /\ plan \in Snapshots /\ leftOut \in SUBSET Norms
        /\ {} \in SUBSET Norms /\ {} \in SUBSET Approvals
    BY <1>1, SettingsTyped
  <1>3. ActiveSnapshot \intersect Norms \subseteq plan \union leftOut
    BY DEF Dropped
  <1>4. /\ versions' \in Seq(PublishedVersions)
        /\ Active' = Active + 1 /\ Active' \in 1 .. MaxVersions
        /\ ApprovedExactly' /\ NormsSurvive' /\ AdoptedOnce'
        /\ (\A k \in 2 .. Active' : versions'[k].norm = {} =>
               Passes(versions'[k].snapshot, versions'[k].evidence))
    <2> HIDE DEF leftOut
    <2> QED BY <1>1, <1>2, <1>3, Published
  <1>5. PublishedPasses'
    BY <1>4 DEF PublishedPasses
  <1>6. TypeOK'
    BY <1>1, <1>4 DEF TypeOK
  <1>7. ReportTrue'
    BY <1>1 DEF ReportTrue
  <1>8. DraftBased'
    BY <1>1, <1>4, OlderDraft
  <1> QED
    BY <1>4, <1>5, <1>6, <1>7, <1>8 DEF Inv

-----------------------------------------------------------------------------
(* The steps that publish and edit nothing.                                *)

LEMMA QuietStep ==
    ASSUME Inv, UNCHANGED versions,
           draft' \in Drafts \union {NoDraft}, drafts' = drafts,
           evidence' \in Evidence,
           view' \in [Managers -> Views \union {NoDraft}],
           prepared' \in [Norms -> Preparations \union {NotPrepared}],
           ReportTrue', DraftBased'
    PROVE  Inv'
  <1>1. Active' = Active
    BY DEF Active
  <1>2. TypeOK'
    BY <1>1 DEF Inv, TypeOK
  <1>3. ApprovedExactly' /\ PublishedPasses' /\ NormsSurvive' /\ AdoptedOnce'
    BY <1>1 DEF Inv, ApprovedExactly, PublishedPasses, NormsSurvive, AdoptedOnce
  <1> QED
    BY <1>2, <1>3 DEF Inv

LEMMA FetchStep == ASSUME Inv, NEW m \in Managers, Fetch(m) PROVE Inv'
  <1>1. /\ TypeOK /\ ReportTrue /\ DraftBased
        /\ UNCHANGED <<versions, draft, drafts, evidence, prepared>>
        /\ view' = [view EXCEPT ![m] = Fetched(draft)]
    BY DEF Inv, Fetch
  <1>2. ReportTrue' /\ DraftBased'
    BY <1>1 DEF ReportTrue, DraftBased, Active, ActiveSnapshot
  <1>3. view' \in [Managers -> Views \union {NoDraft}]
    BY <1>1, FetchedTyped DEF TypeOK
  <1> QED
    BY <1>1, <1>2, <1>3, QuietStep DEF TypeOK

LEMMA DiscardStep == ASSUME Inv, NEW m \in Managers, Discard(m) PROVE Inv'
  <1>1. /\ TypeOK /\ draft' = NoDraft
        /\ UNCHANGED <<versions, drafts, evidence, view, prepared>>
    BY DEF Inv, Discard
  <1>2. ReportTrue' /\ DraftBased'
    BY <1>1 DEF ReportTrue, DraftBased
  <1> QED
    BY <1>1, <1>2, QuietStep DEF TypeOK

LEMMA ValidateStep == ASSUME Inv, Validate PROVE Inv'
  <1> DEFINE report == [revision |-> draft.revision, snapshot |-> draft.snapshot,
                        evidence |-> evidence,
                        valid |-> Passes(draft.snapshot, evidence)]
  <1>1. /\ TypeOK /\ DraftBased /\ draft # NoDraft
        /\ draft' = [draft EXCEPT !.report = report]
        /\ UNCHANGED <<versions, drafts, evidence, view, prepared>>
    BY DEF Inv, Validate
  <1>2. draft \in Drafts /\ evidence \in Evidence
    BY <1>1, DraftTyped DEF TypeOK
  <1>3. report \in Reports
    BY <1>2, VersionsAssumption DEF Drafts, Reports, Snapshots
  <1>4. /\ draft' \in Drafts /\ draft'.report = report
        /\ draft'.base = draft.base /\ draft'.leftOut = draft.leftOut
        /\ draft'.snapshot = draft.snapshot
    <2> HIDE DEF report
    <2> QED BY <1>1, <1>2, <1>3 DEF Drafts
  <1>5. ReportTrue'
    BY <1>4 DEF ReportTrue
  <1>6. DraftBased'
    BY <1>1, <1>4 DEF DraftBased, Active, ActiveSnapshot
  <1> HIDE DEF report
  <1> QED
    BY <1>1, <1>4, <1>5, <1>6, QuietStep DEF TypeOK

LEMMA PrepareStep == ASSUME Inv, NEW n \in Norms, PrepareNorm(n) PROVE Inv'
  <1>1. /\ TypeOK /\ ReportTrue /\ DraftBased
        /\ UNCHANGED <<versions, draft, drafts, evidence, view>>
    BY DEF Inv, PrepareNorm
  <1>2. PICK valid \in BOOLEAN :
          prepared' = [prepared EXCEPT ![n] =
              IF valid THEN [base |-> Active, evidence |-> evidence] ELSE NotPrepared]
    BY DEF PrepareNorm
  <1>3. prepared' \in [Norms -> Preparations \union {NotPrepared}]
    BY <1>1, <1>2 DEF TypeOK, Preparations
  <1>4. ReportTrue' /\ DraftBased'
    BY <1>1 DEF ReportTrue, DraftBased, Active, ActiveSnapshot
  <1> QED
    BY <1>1, <1>3, <1>4, QuietStep DEF TypeOK

LEMMA EvidenceStep == ASSUME Inv, EvidenceChanges PROVE Inv'
  <1>1. /\ TypeOK /\ ReportTrue /\ DraftBased /\ evidence' \in Evidence
        /\ UNCHANGED <<versions, draft, drafts, view, prepared>>
    BY DEF Inv, EvidenceChanges
  <1>2. ReportTrue' /\ DraftBased'
    BY <1>1 DEF ReportTrue, DraftBased, Active, ActiveSnapshot
  <1> QED
    BY <1>1, <1>2, QuietStep DEF TypeOK

-----------------------------------------------------------------------------
LEMMA NextInv == Inv /\ [Next]_vars => Inv'
  <1> SUFFICES ASSUME Inv, [Next]_vars PROVE Inv'
    OBVIOUS
  <1>1. ASSUME NEW m \in Managers,
               \/ Fetch(m)
               \/ \E restore \in 0 .. Active, snapshot \in SUBSET Settings :
                     Edit(m, restore, snapshot)
               \/ Discard(m)
               \/ Publish(m)
        PROVE  Inv'
    BY <1>1, FetchStep, EditStep, DiscardStep, PublishStep
  <1>2. ASSUME NEW n \in Norms, PrepareNorm(n) \/ AdoptNorm(n) PROVE Inv'
    BY <1>2, PrepareStep, AdoptStep
  <1>3. CASE UNCHANGED vars
    <2>1. UNCHANGED <<versions, draft, drafts, evidence, view, prepared>>
      BY <1>3 DEF vars
    <2>2. ReportTrue' /\ DraftBased'
      BY <2>1 DEF Inv, ReportTrue, DraftBased, Active, ActiveSnapshot
    <2> QED
      BY <2>1, <2>2, QuietStep DEF Inv, TypeOK
  <1> QED
    BY <1>1, <1>2, <1>3, StageRuleStep, PlanStep, ValidateStep, EvidenceStep DEF Next

THEOREM SpecInv == Spec => []Inv
  <1> QED BY InitInv, NextInv, PTL DEF Spec

\* Drafts, versions and reports are well typed.
THEOREM Typed == Spec => []TypeOK
  <1>1. Inv => TypeOK
    BY DEF Inv
  <1> QED
    BY <1>1, SpecInv, PTL

\* A publication is of the exact candidate, and on the exact evidence, that its
\* approver saw validated.
THEOREM ExactApproval == Spec => []ApprovedExactly
  <1>1. Inv => ApprovedExactly
    BY DEF Inv
  <1> QED
    BY <1>1, SpecInv, PTL

\* What is published as a draft or a plan passes validation on the evidence of
\* its publication.
THEOREM DraftsPass == Spec => []PublishedPasses
  <1>1. Inv => PublishedPasses
    BY DEF Inv
  <1> QED
    BY <1>1, SpecInv, PTL

\* No version loses a norm but those that a request which started from a
\* configuration with them left out: an open draft does not lose one that was
\* adopted meanwhile.
THEOREM NormsKept == Spec => []NormsSurvive
  <1>1. Inv => NormsSurvive
    BY DEF Inv
  <1> QED
    BY <1>1, SpecInv, PTL

\* Each norm is adopted by one version at most.
THEOREM NormsOnce == Spec => []AdoptedOnce
  <1>1. Inv => AdoptedOnce
    BY DEF Inv
  <1> QED
    BY <1>1, SpecInv, PTL

-----------------------------------------------------------------------------
(***************************************************************************)
(* The impact of a change on the cases (module Impact).  A validation that *)
(* succeeded is of the configuration it would publish, as long as no other *)
(* was published since, and on the evidence it names nobody is overruled;  *)
(* of guidance there was a case to preview it on.                          *)
(***************************************************************************)
NormShown(n) ==
    /\ captured[n] # None => captured[n].version \in Nat /\ captured[n].version <= version
    /\ validated[n] # None =>
          /\ validated[n].version \in Nat /\ validated[n].version <= version
          /\ validated[n].version = version => Effect!ImpactHolds(n, validated[n].seen)

DraftShown ==
    validated["draft"] # None =>
        /\ validated["draft"].rules \subseteq Norms \union Fields
        /\ validated["draft"].version \in Nat /\ validated["draft"].version <= version
        /\ validated["draft"].version = version =>
              Effect!Overruled(validated["draft"].rules, validated["draft"].seen) = {}

EffectInv ==
    /\ data \in [Cases -> Kinds \union {None}]
    /\ rules \subseteq Norms \union Fields
    /\ version \in Nat
    /\ DOMAIN captured = Norms /\ DOMAIN validated = Norms \union {"draft"}
    /\ \A n \in Norms : NormShown(n)
    /\ DraftShown

LEMMA EffectInitially == Effect!Init => EffectInv
  BY DEF Effect!Init, EffectInv, NormShown, DraftShown, Effect!Draft

\* What was found of a norm stands while the configuration does.
LEMMA SameImpact ==
    ASSUME UNCHANGED <<guidance, rules>>
    PROVE  \A n, e : Effect!ImpactHolds(n, e)' = Effect!ImpactHolds(n, e)
  BY DEF Effect!ImpactHolds, Effect!Previewed, Effect!Conflicts, Effect!Changed,
         Effect!Selected, Effect!Verdict

\* What moves the cases moves no validation.
LEMMA CasesKeepEffect ==
    ASSUME EffectInv, UNCHANGED <<guidance, rules, version, captured, validated>>,
           data' \in [Cases -> Kinds \union {None}]
    PROVE  EffectInv'
  <1>1. \A n, e : Effect!ImpactHolds(n, e)' = Effect!ImpactHolds(n, e)
    BY SameImpact
  <1>2. \A S, e : Effect!Overruled(S, e)' = Effect!Overruled(S, e)
    BY DEF Effect!Overruled, Effect!Changed, Effect!Selected, Effect!NotEvaluable,
       Effect!Verdict
  <1> QED
    BY <1>1, <1>2 DEF EffectInv, NormShown, DraftShown

LEMMA CaptureKeepsEffect ==
    ASSUME EffectInv, NEW n \in Norms, Effect!Capture(n) PROVE EffectInv'
  <1>1. /\ UNCHANGED <<guidance, data, rules, version, validated>>
        /\ DOMAIN captured' = Norms /\ captured'[n].version = version
        /\ \A m \in Norms : m # n => captured'[m] = captured[m]
    BY DEF Effect!Capture, EffectInv
  <1>2. \A S, e : Effect!Overruled(S, e)' = Effect!Overruled(S, e)
    BY <1>1 DEF Effect!Overruled, Effect!Changed, Effect!Selected, Effect!NotEvaluable,
       Effect!Verdict
  <1>3. DraftShown'
    BY <1>1, <1>2 DEF EffectInv, DraftShown
  <1>4. \A m \in Norms : NormShown(m)'
    BY <1>1, SameImpact DEF EffectInv, NormShown
  <1> QED
    BY <1>1, <1>3, <1>4 DEF EffectInv

LEMMA RecordKeepsEffect ==
    ASSUME EffectInv, NEW n \in Norms, Effect!Record(n) PROVE EffectInv'
  <1>1. PICK answered \in BOOLEAN :
            validated' = [validated EXCEPT ![n] =
                Effect!Prepared(rules \union {n}, captured[n].version, captured[n].seen,
                    answered /\ Effect!ImpactHolds(n, captured[n].seen))]
    BY DEF Effect!Record
  <1>2. /\ UNCHANGED <<guidance, data, rules, version>> /\ captured[n] # None
        /\ captured' = [captured EXCEPT ![n] = None]
    BY DEF Effect!Record
  <1>3. /\ DOMAIN validated' = Norms \union {"draft"} /\ DOMAIN captured' = Norms
        /\ captured'[n] = None
        /\ \A m \in Norms : m # n => captured'[m] = captured[m]
        /\ \A m \in Norms \union {"draft"} : m # n => validated'[m] = validated[m]
    BY <1>1, <1>2 DEF EffectInv
  <1>4. validated'[n] # None =>
            /\ validated'[n].version = captured[n].version
            /\ validated'[n].seen = captured[n].seen
            /\ Effect!ImpactHolds(n, captured[n].seen)
    BY <1>1 DEF EffectInv, Effect!Prepared
  <1>5. n # "draft"
    BY PartsAssumption DEF Effect!ImpactAssumption, Effect!Draft
  <1>6. \A S, e : Effect!Overruled(S, e)' = Effect!Overruled(S, e)
    BY <1>2 DEF Effect!Overruled, Effect!Changed, Effect!Selected, Effect!NotEvaluable,
       Effect!Verdict
  <1>7. DraftShown'
    BY <1>2, <1>3, <1>5, <1>6 DEF EffectInv, DraftShown
  <1>8. ASSUME NEW m \in Norms PROVE NormShown(m)'
    <2>1. CASE m = n
      BY <1>2, <1>3, <1>4, <2>1, SameImpact DEF EffectInv, NormShown
    <2>2. CASE m # n
      BY <1>2, <1>3, <2>2, SameImpact DEF EffectInv, NormShown
    <2> QED
      BY <2>1, <2>2
  <1> QED
    BY <1>2, <1>3, <1>7, <1>8 DEF EffectInv

LEMMA InspectKeepsEffect == ASSUME EffectInv, Effect!Inspect PROVE EffectInv'
  <1>1. PICK S \in SUBSET (Norms \union Fields) :
            validated' = [validated EXCEPT !["draft"] =
                Effect!Prepared(S, version, Effect!Now,
                    Effect!Overruled(S, Effect!Now) = {} /\ Effect!Broken(S, Effect!Now) = {})]
    BY DEF Effect!Inspect, Effect!Settings, Effect!Draft
  <1>2. UNCHANGED <<guidance, data, rules, version, captured>>
    BY DEF Effect!Inspect
  <1>3. /\ DOMAIN validated' = Norms \union {"draft"}
        /\ \A m \in Norms : validated'[m] = validated[m]
    BY <1>1, PartsAssumption DEF EffectInv, Effect!ImpactAssumption, Effect!Draft
  <1>4. validated'["draft"] # None =>
            /\ validated'["draft"].rules = S /\ validated'["draft"].version = version
            /\ validated'["draft"].seen = Effect!Now
            /\ Effect!Overruled(S, Effect!Now) = {}
    BY <1>1 DEF EffectInv, Effect!Prepared
  <1>5. \A T, e : Effect!Overruled(T, e)' = Effect!Overruled(T, e)
    BY <1>2 DEF Effect!Overruled, Effect!Changed, Effect!Selected, Effect!NotEvaluable,
       Effect!Verdict
  <1>6. DraftShown'
    BY <1>2, <1>4, <1>5 DEF EffectInv, DraftShown
  <1>7. \A m \in Norms : NormShown(m)'
    BY <1>2, <1>3, SameImpact DEF EffectInv, NormShown
  <1> QED
    BY <1>2, <1>3, <1>6, <1>7 DEF EffectInv

\* After a publication nothing that was validated is of the active version.
LEMMA PublicationKeepsEffect ==
    ASSUME EffectInv, NEW S \in SUBSET (Norms \union Fields),
           Effect!PublishSnapshot(S), UNCHANGED <<data, captured>>,
           \/ validated' = validated
           \/ validated' = [validated EXCEPT !["draft"] = None]
    PROVE  EffectInv'
  <1>1. rules' = S /\ version' = version + 1 /\ version \in Nat
    BY DEF Effect!PublishSnapshot, EffectInv
  <1>2. /\ DOMAIN validated' = Norms \union {"draft"}
        /\ \A p \in Norms \union {"draft"} : validated'[p] = validated[p] \/ validated'[p] = None
    BY DEF EffectInv
  <1>3. \A v \in Nat : v <= version => v <= version + 1 /\ v # version + 1
    BY <1>1
  <1>4. \A n \in Norms : NormShown(n)'
    BY <1>1, <1>2, <1>3 DEF EffectInv, NormShown
  <1>5. DraftShown'
    BY <1>1, <1>2, <1>3 DEF EffectInv, DraftShown
  <1> QED
    BY <1>1, <1>2, <1>4, <1>5 DEF EffectInv

LEMMA NextKeepsEffect == EffectInv /\ [Effect!Next]_effect => EffectInv'
  <1> SUFFICES ASSUME EffectInv, [Effect!Next]_effect PROVE EffectInv'
    OBVIOUS
  <1>1. ASSUME NEW c \in Cases, Effect!Run(c) \/ Effect!Resolve(c) \/ Effect!Change(c)
        PROVE  EffectInv'
    <2>1. data' \in [Cases -> Kinds \union {None}] /\ Effect!Unchanged
      BY <1>1 DEF Effect!Run, Effect!Resolve, Effect!Change, EffectInv
    <2> QED
      BY <2>1, CasesKeepEffect DEF Effect!Unchanged
  <1>2. CASE Effect!Reprocess
    BY <1>2, CasesKeepEffect DEF Effect!Reprocess, Effect!Unchanged, EffectInv
  <1>3. ASSUME NEW n \in Norms, Effect!Adopt(n) PROVE EffectInv'
    <2>1. rules \union {n} \in SUBSET (Norms \union Fields)
      BY DEF EffectInv
    <2> QED
      BY <1>3, <2>1, PublicationKeepsEffect DEF Effect!Adopt
  <1>4. CASE Effect!Publish
    <2>1. validated["draft"].rules \in SUBSET (Norms \union Fields)
      BY <1>4 DEF Effect!Publish, Effect!Holds, Effect!Draft, EffectInv, DraftShown
    <2> QED
      BY <1>4, <2>1, PublicationKeepsEffect DEF Effect!Publish, Effect!Draft
  <1>5. CASE UNCHANGED effect
    BY <1>5, CasesKeepEffect DEF effect, EffectInv
  <1> QED
    BY <1>1, <1>2, <1>3, <1>4, <1>5, CaptureKeepsEffect, RecordKeepsEffect, InspectKeepsEffect
    DEF Effect!Next

\* A version is published as a norm that is adopted or as a draft, and a draft is consumed.
LEMMA Publications ==
    ASSUME EffectInv, [Effect!Next]_effect, version' # version
    PROVE  \/ \E n \in Norms : Effect!Adopt(n)
           \/ Effect!Publish /\ validated' # validated
  <1>1. Effect!Next
    BY DEF effect
  <1>2. (\E n \in Norms : Effect!Adopt(n)) \/ Effect!Publish
    BY <1>1 DEF Effect!Next, Effect!Run, Effect!Resolve, Effect!Change, Effect!Unchanged,
                Effect!Capture, Effect!Record, Effect!Reprocess, Effect!Inspect
  <1>3. ASSUME Effect!Publish PROVE validated' # validated
    <2>1. validated["draft"] # None /\ validated' = [validated EXCEPT !["draft"] = None]
      BY <1>3 DEF Effect!Publish, Effect!Holds, Effect!Draft
    <2>2. validated'["draft"] = None
      BY <2>1 DEF EffectInv
    <2> QED
      BY <2>1, <2>2
  <1> QED
    BY <1>2, <1>3

\* A norm that is adopted is, as things stand, what its validation found it to be.
LEMMA AdoptedAsShown ==
    ASSUME EffectInv, NEW n \in Norms, Effect!Adopt(n)
    PROVE  /\ rules' = rules \union {n} /\ rules' \ rules = {n} /\ version' # version
           /\ Effect!AdoptsGuidance <=> n \in guidance
           /\ Effect!ImpactHolds(n, Effect!Now)
  <1>1. validated[n] # None /\ validated[n].version = version /\ validated[n].seen = Effect!Now
    BY DEF Effect!Adopt, Effect!Holds
  <1>2. /\ n \notin rules /\ rules' = rules \union {n} /\ validated' = validated
        /\ version' = version + 1 /\ version \in Nat
    BY DEF Effect!Adopt, Effect!PublishSnapshot, EffectInv
  <1> QED
    BY <1>1, <1>2 DEF EffectInv, NormShown, Effect!AdoptsGuidance, Effect!Adopts

LEMMA AdoptionShown == EffectInv /\ [Effect!Next]_effect => Effect!AdoptionIsAsShown
  <1> SUFFICES ASSUME EffectInv, [Effect!Next]_effect, Effect!Adopts
               PROVE  Effect!AdoptionIsAsShown
    BY DEF Effect!AdoptionIsAsShown, Effect!AdoptsGuidance
  <1>1. PICK n \in Norms : Effect!Adopt(n)
    BY Publications DEF Effect!Adopts
  <1>2. /\ rules' = rules \union {n} /\ UNCHANGED guidance
        /\ Effect!AdoptsGuidance <=> n \in guidance
        /\ Effect!ImpactHolds(n, Effect!Now)
        /\ findings' = findings \union Effect!Reported(Effect!Affected(n))
    BY <1>1, AdoptedAsShown DEF Effect!Adopt
  <1>3. CASE Effect!AdoptsGuidance
    BY <1>2, <1>3 DEF Effect!ImpactHolds, Effect!AdoptionIsAsShown
  <1>4. CASE ~Effect!AdoptsGuidance
    <2>1. /\ Effect!Conflicts(rules \union {n}, Effect!Now) = {}
          /\ Effect!Affected(n) = Effect!Changed(rules \union {n}, Effect!Now)
      BY <1>2, <1>4 DEF Effect!ImpactHolds, Effect!Affected
    <2>2. Effect!Now.data = data /\ Effect!Now.history = history
      BY DEF Effect!Now
    <2>3. ASSUME NEW c \in Effect!Selected(Effect!Now)
          PROVE  LET r == Effect!Latest(history[c])
                     agrees == Effect!Verdict(rules', data[c]) = r.decision
                 IN  /\ r.by = "person" \/ Effect!Awaits(r) => agrees
                     /\ ~agrees /\ r.decision # Escalate
                          => <<c, Len(history[c])>> \in findings'
      <3> DEFINE r == Effect!Latest(history[c])
                 agrees == Effect!Verdict(rules', data[c]) = r.decision
      <3>1. ~agrees => c \in Effect!Changed(rules \union {n}, Effect!Now)
        BY <1>2, <2>2, <2>3 DEF Effect!Changed
      <3>2. r.by = "person" \/ Effect!Awaits(r) => agrees
        BY <2>1, <2>2, <3>1 DEF Effect!Conflicts
      <3>3. ~agrees /\ r.decision # Escalate => <<c, Len(history[c])>> \in findings'
        BY <1>2, <2>1, <3>1 DEF Effect!Reported
      <3> QED
        BY <3>2, <3>3
    <2> QED
      BY <1>4, <2>3 DEF Effect!AdoptionIsAsShown
  <1> QED
    BY <1>3, <1>4

LEMMA ReviewsShown == EffectInv /\ [Effect!Next]_effect => Effect!NoReviewIsOverruled
  <1> SUFFICES ASSUME EffectInv, [Effect!Next]_effect, version' # version,
                      NEW c \in Effect!Selected(Effect!Now),
                      Effect!Awaits(Effect!Latest(history[c])),
                      Effect!Verdict(rules', data[c]) # Effect!Latest(history[c]).decision
               PROVE  \/ Lacks(rules', data[c])
                      \/ /\ Effect!AdoptsGuidance
                         /\ Effect!Verdict(rules', data[c]) = Effect!Verdict(rules, data[c])
    BY DEF Effect!NoReviewIsOverruled
  <1>1. Effect!Now.data = data /\ Effect!Now.history = history
    BY DEF Effect!Now
  <1>2. c \in Effect!Changed(rules', Effect!Now)
    BY <1>1 DEF Effect!Changed
  <1>3. ASSUME NEW n \in Norms, Effect!Adopt(n)
        PROVE  /\ Effect!AdoptsGuidance
               /\ Effect!Verdict(rules', data[c]) = Effect!Verdict(rules, data[c])
    <2>1. /\ rules' = rules \union {n} /\ Effect!ImpactHolds(n, Effect!Now)
          /\ Effect!AdoptsGuidance <=> n \in guidance
      BY <1>3, AdoptedAsShown
    <2>2. n \in guidance
      BY <1>1, <1>2, <2>1 DEF Effect!ImpactHolds, Effect!Conflicts
    <2>3. rules' \ guidance = rules \ guidance
      BY <2>1, <2>2
    <2> QED
      BY <2>1, <2>2, <2>3 DEF Effect!Verdict
  <1>4. CASE Effect!Publish
    <2>1. /\ rules' \subseteq Norms \union Fields
          /\ Effect!Overruled(rules', Effect!Now) = {}
      BY <1>4 DEF Effect!Publish, Effect!Holds, Effect!Draft, Effect!PublishSnapshot, EffectInv,
         DraftShown
    <2>2. data[c] \in Kinds
      BY <1>1 DEF Effect!Selected, EffectInv
    <2>3. \A T \in SUBSET rules' : Lacks(T, data[c]) => Lacks(rules', data[c])
      BY <2>1, <2>2, PartsAssumption DEF Effect!ImpactAssumption
    <2>4. Lacks(rules' \ rules, data[c]) \/ Lacks(rules' \intersect rules, data[c])
      BY <1>1, <1>2, <2>1 DEF Effect!Overruled, Effect!NotEvaluable
    <2> QED
      BY <2>3, <2>4
  <1> QED
    BY <1>3, <1>4, Publications

LEMMA RunKeepsEffect ==
    (part = "effect" => EffectInv) /\ [MCNext]_<<part, vars, effect>>
        => /\ (part = "effect" => EffectInv)'
           /\ part = "effect" => [Effect!Next]_effect
  BY NextKeepsEffect DEF MCNext

\* However long a norm is prepared while people decide, and versions are published, its
\* rules are adopted only while they agree with what people decided and are asked; what they
\* overturn is reported.  Guidance, which is held to no conflict, is adopted only with a past
\* decision to try it on (learning/service.py, learning/validation.py).
THEOREM NormsAdoptedAsShown == MCSpec => AdoptionIsAsShown
  <1> DEFINE RunInv == part = "effect" => EffectInv
  <1>1. MCInit => RunInv
    BY EffectInitially DEF MCInit
  <1>2. RunInv /\ [MCNext]_<<part, vars, effect>> => RunInv'
    BY RunKeepsEffect
  <1>3. RunInv /\ [MCNext]_<<part, vars, effect>>
            => [part = "effect" => Effect!AdoptionIsAsShown]_effect
    BY RunKeepsEffect, AdoptionShown
  <1> QED
    BY <1>1, <1>2, <1>3, PTL DEF MCSpec, AdoptionIsAsShown

\* No version, of a norm or of a draft, says something else of a case that a person was
\* asked about, but for the guidance of reviewers, by which the engine decides every case as
\* before (versions/service.py inspect, learning/validation.py).
THEOREM ReviewsStayOpen == MCSpec => NoReviewIsOverruled
  <1> DEFINE RunInv == part = "effect" => EffectInv
  <1>1. MCInit => RunInv
    BY EffectInitially DEF MCInit
  <1>2. RunInv /\ [MCNext]_<<part, vars, effect>> => RunInv'
    BY RunKeepsEffect
  <1>3. RunInv /\ [MCNext]_<<part, vars, effect>>
            => [part = "effect" => Effect!NoReviewIsOverruled]_effect
    BY RunKeepsEffect, ReviewsShown
  <1> QED
    BY <1>1, <1>2, <1>3, PTL DEF MCSpec, NoReviewIsOverruled
=============================================================================
