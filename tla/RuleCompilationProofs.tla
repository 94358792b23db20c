----------------------- MODULE RuleCompilationProofs -----------------------
(***************************************************************************)
(* Proofs about the rules of a process and their compilations, for any     *)
(* number of rules and managers, any code, any contexts and any number of  *)
(* deaths of the server.                                                   *)
(*                                                                         *)
(* With the types, each property is kept by every step: a compilation      *)
(* writes its row without the lock of the rule, but it can only take a row *)
(* to "draft", and it writes in the draft only where the rule already is.  *)
(***************************************************************************)
EXTENDS RuleCompilation, TLAPS

Inv == TypeOK /\ ActiveIsEnforced

-----------------------------------------------------------------------------
(***************************************************************************)
(* Snapshots                                                               *)
(***************************************************************************)

LEMMA SnapshotParts ==
    ASSUME NEW s \in Snapshots
    PROVE  /\ s = [context |-> s.context, rules |-> s.rules]
           /\ s.context \in Contexts
           /\ DOMAIN s.rules \in SUBSET Rules
           /\ s.rules \in [DOMAIN s.rules -> Artifacts]
  <1>1. /\ s = [context |-> s.context, rules |-> s.rules] /\ s.context \in Contexts
        /\ s.rules \in UNION {[S -> Artifacts] : S \in SUBSET Rules}
    BY DEF Snapshots
  <1>2. PICK S \in SUBSET Rules : s.rules \in [S -> Artifacts]
    BY <1>1
  <1> QED
    BY <1>1, <1>2

LEMMA SnapshotMade ==
    ASSUME NEW c \in Contexts, NEW S \in SUBSET Rules, NEW f \in [S -> Artifacts]
    PROVE  [context |-> c, rules |-> f] \in Snapshots
  <1>1. f \in UNION {[T -> Artifacts] : T \in SUBSET Rules}
    OBVIOUS
  <1> QED
    BY <1>1 DEF Snapshots

LEMMA NoDraftIsNone == NoDraft \notin Snapshots
  <1>1. SUFFICES ASSUME NoDraft \in Snapshots PROVE FALSE
    OBVIOUS
  <1>2. DOMAIN NoDraft = {"context"}
    BY DEF NoDraft
  <1>3. "rules" \in DOMAIN NoDraft
    BY <1>1 DEF Snapshots
  <1> QED
    BY <1>2, <1>3

LEMMA WithTyped ==
    ASSUME NEW s \in Snapshots, NEW r \in Rules, NEW x, Artifact(x) \in Artifacts
    PROVE  /\ With(s, r, x) \in Snapshots
           /\ With(s, r, x).context = s.context
           /\ DOMAIN With(s, r, x).rules = DOMAIN s.rules \union {r}
  <1> DEFINE S == DOMAIN s.rules \union {r}
             f == [q \in S |-> IF q = r THEN Artifact(x) ELSE s.rules[q]]
  <1>1. f \in [S -> Artifacts] /\ S \in SUBSET Rules
    BY SnapshotParts
  <1>2. With(s, r, x) = [context |-> s.context, rules |-> f]
    BY SnapshotParts DEF With
  <1> QED
    BY <1>1, <1>2, SnapshotParts, SnapshotMade

LEMMA WithoutTyped ==
    ASSUME NEW s \in Snapshots, NEW r \in Rules
    PROVE  /\ Without(s, r) \in Snapshots
           /\ DOMAIN Without(s, r).rules = DOMAIN s.rules \ {r}
  <1> DEFINE S == DOMAIN s.rules \ {r}
             f == [q \in S |-> s.rules[q]]
  <1>1. f \in [S -> Artifacts] /\ S \in SUBSET Rules
    BY SnapshotParts
  <1>2. Without(s, r) = [context |-> s.context, rules |-> f]
    BY SnapshotParts DEF Without, Restrict
  <1> QED
    BY <1>1, <1>2, SnapshotParts, SnapshotMade

LEMMA WorkspaceTyped ==
    ASSUME TypeOK
    PROVE  Workspace \in Snapshots
  BY DEF TypeOK, Workspace

\* What a row keeps of a rule.
LEMMA ArtifactTyped ==
    ASSUME NEW x \in RuleRows
    PROVE  Artifact(x) \in Artifacts
  BY DEF RuleRows, Artifacts, Artifact

-----------------------------------------------------------------------------
(***************************************************************************)
(* Rows and tasks                                                          *)
(***************************************************************************)

LEMMA RowsTyped ==
    /\ NoReport \in Reports
    /\ NoRow \in RuleRows
    /\ NewRow \in RuleRows /\ NewRow.status = "compiling"
  <1>1. NoReport \in Reports
    BY DEF NoReport, Reports
  <1>2. NoRow \in RuleRows
    BY <1>1 DEF NoRow, RuleRows, RowStatuses
  <1> QED
    BY <1>1, <1>2 DEF NewRow, NoRow, RuleRows, RowStatuses

\* The tasks differ in what they do.
LEMMA TaskParts ==
    ASSUME NEW f \in Tasks
    PROVE  /\ f.op = "compile" => f.rule \in Rules /\ f.loaded \in RuleRows
           /\ f.op = "activate" => f.rule \in Rules /\ f.loaded \in RuleRows
           /\ f.op = "norm" => f.todo \subseteq Rules /\ f.made \subseteq Rules
  BY DEF Tasks, Idle, Queued

LEMMA TaskMade ==
    /\ Idle \in Tasks /\ Queued \in Tasks /\ Idle # Queued
    /\ Idle.op = "none" /\ Queued.op = "queued"
    /\ \A todo, made \in SUBSET Rules : Writing(todo, made) \in Tasks
    /\ TypeOK => \A r \in Rules, c \in Contexts \union {"none"} :
                    Compiling(r, c) \in Tasks /\ Activating(r) \in Tasks
  <1>1. Idle \in Tasks /\ Queued \in Tasks
    BY DEF Tasks
  <1>2. Idle.op = "none" /\ Queued.op = "queued"
    BY DEF Idle, Queued
  <1>3. \A todo, made \in SUBSET Rules : Writing(todo, made) \in Tasks
    BY DEF Tasks, Writing
  <1>4. TypeOK => \A r \in Rules, c \in Contexts \union {"none"} :
                    Compiling(r, c) \in Tasks /\ Activating(r) \in Tasks
    BY DEF TypeOK, Tasks, Compiling, Activating
  <1> QED
    BY <1>1, <1>2, <1>3, <1>4

\* The context a compilation finds is that of a draft, or none.
LEMMA SeenTyped ==
    ASSUME TypeOK
    PROVE  draft.context \in Contexts \union {"none"}
  <1>1. CASE draft = NoDraft
    BY <1>1 DEF NoDraft
  <1>2. CASE draft \in Snapshots
    BY <1>2, SnapshotParts
  <1> QED
    BY <1>1, <1>2 DEF TypeOK


-----------------------------------------------------------------------------
(***************************************************************************)
(* The steps that write rows or the draft                                  *)
(***************************************************************************)

LEMMA InitInv == Init => Inv
  <1> SUFFICES ASSUME Init PROVE Inv
    OBVIOUS
  <1>1. row \in [Rules -> RuleRows] /\ \A r \in Rules : row[r].status # "active"
    BY RowsTyped DEF Init, NoRow
  <1>2. active \in Snapshots
    <2>1. PICK c \in Contexts, f \in [{} -> Artifacts] : active = [context |-> c, rules |-> f]
      BY DEF Init
    <2> QED
      BY <2>1, SnapshotMade
  <1>3. task \in [Rules \union Managers -> Tasks]
    BY TaskMade DEF Init
  <1>4. up \in BOOLEAN /\ restarts \in 0 .. MaxRestarts /\ blind \in 0 .. MaxBlind
    BY RuleCompilationAssumption DEF Init
  <1> QED
    BY <1>1, <1>2, <1>3, <1>4 DEF Inv, TypeOK, ActiveIsEnforced, Init

LEMMA InsertKeeps ==
    ASSUME Inv, NEW r \in Rules, Insert(r), UNCHANGED active
    PROVE  /\ row' \in [Rules -> RuleRows]
           /\ draft' \in Snapshots
           /\ ActiveIsEnforced'
  <1>1. row' \in [Rules -> RuleRows]
    BY RowsTyped DEF Inv, TypeOK, Insert
  <1>2. draft' \in Snapshots
    BY RowsTyped, ArtifactTyped, WorkspaceTyped, WithTyped DEF Inv, Insert
  <1>3. \A q \in Rules : row'[q].status = "active" => row[q].status = "active"
    BY RowsTyped DEF Inv, TypeOK, Insert
  <1> QED
    BY <1>1, <1>2, <1>3 DEF Inv, ActiveIsEnforced

LEMMA CreateKeeps ==
    ASSUME Inv, NEW r \in Rules, Create(r)
    PROVE  Inv'
  <1>1. task' \in [Rules \union Managers -> Tasks]
    BY TaskMade DEF Inv, TypeOK, Create
  <1> QED
    BY <1>1, InsertKeeps DEF Inv, TypeOK, Create

LEMMA WriteCheckKeeps ==
    ASSUME Inv, NEW m \in Managers, NEW r \in Rules, WriteCheck(m, r)
    PROVE  Inv'
  <1>1. task[m].todo \ {r} \in SUBSET Rules /\ task[m].made \union {r} \in SUBSET Rules
    BY TaskParts DEF Inv, TypeOK, WriteCheck
  <1>2. task' \in [Rules \union Managers -> Tasks]
    BY <1>1, TaskMade DEF Inv, TypeOK, WriteCheck
  <1> QED
    BY <1>2, InsertKeeps DEF Inv, TypeOK, WriteCheck

\* Only publication makes a row active.
LEMMA QuietRows ==
    ASSUME Inv, UNCHANGED active,
           \A r \in Rules : row'[r].status = "active" => row[r].status = "active"
    PROVE  ActiveIsEnforced'
  BY DEF Inv, ActiveIsEnforced

LEMMA LandKeeps ==
    ASSUME Inv, NEW t \in Rules \union Managers, Land(t)
    PROVE  Inv'
  <1> DEFINE f == task[t]
             r == f.rule
  <1>1. f.op = "compile" /\ r \in Rules /\ f.loaded \in RuleRows
    BY TaskParts DEF Inv, TypeOK, Land
  <1>2. PICK code \in Codes \union {NoCode}, valid \in BOOLEAN :
           /\ row' = [row EXCEPT ![r] =
                 [status |-> IF f.loaded.status = "draft" THEN @.status ELSE "draft",
                  code |-> IF code = f.loaded.code THEN @.code ELSE code,
                  report |-> [on |-> code, valid |-> valid]]]
           /\ draft' = Refreshed(r, [code |-> code, report |-> [on |-> code, valid |-> valid]])
    BY DEF Land
  <1> DEFINE x == [code |-> code, report |-> [on |-> code, valid |-> valid]]
  <1>3. x.report \in Reports /\ Artifact(x) \in Artifacts
    BY DEF Reports, Artifacts, Artifact
  <1>4. row \in [Rules -> RuleRows]
    BY DEF Inv, TypeOK
  <1> DEFINE y == [status |-> IF f.loaded.status = "draft" THEN row[r].status ELSE "draft",
                   code |-> IF code = f.loaded.code THEN row[r].code ELSE code,
                   report |-> x.report]
  <1>5. row' = [row EXCEPT ![r] = y]
    BY <1>1, <1>2, <1>4
  <1>6. y \in RuleRows /\ (y.status = "active" => row[r].status = "active")
    BY <1>1, <1>3, <1>4 DEF RuleRows, RowStatuses
  <1> HIDE DEF y
  <1>7. row' \in [Rules -> RuleRows]
    BY <1>1, <1>4, <1>5, <1>6
  <1>8. \A q \in Rules : row'[q].status = "active" => row[q].status = "active"
    BY <1>1, <1>4, <1>5, <1>6
  <1>9. draft' \in Snapshots \union {NoDraft}
    BY <1>1, <1>2, <1>3, WithTyped DEF Inv, TypeOK, Refreshed
  <1>10. task' \in [Rules \union Managers -> Tasks]
    BY TaskMade DEF Inv, TypeOK, Land
  <1> QED
    BY <1>7, <1>8, <1>9, <1>10, QuietRows DEF Inv, TypeOK, Land

LEMMA FailKeeps ==
    ASSUME Inv, NEW t \in Rules \union Managers, CompilationFails(t)
    PROVE  Inv'
  <1>1. \A r \in Rules : Left(r) \in RuleRows /\ (Left(r).status = "active" => row[r].status = "active")
    BY RowsTyped DEF Inv, TypeOK, Left, RuleRows, RowStatuses
  <1>2. row' \in [Rules -> RuleRows]
    BY <1>1 DEF Inv, TypeOK, CompilationFails
  <1>3. \A q \in Rules : row'[q].status = "active" => row[q].status = "active"
    BY <1>1 DEF Inv, TypeOK, CompilationFails
  <1>4. task' \in [Rules \union Managers -> Tasks]
    BY TaskMade DEF Inv, TypeOK, CompilationFails
  <1> QED
    BY <1>2, <1>3, <1>4, QuietRows DEF Inv, TypeOK, CompilationFails

LEMMA PublishKeeps ==
    ASSUME Inv, Publish
    PROVE  Inv'
  <1>1. draft \in Snapshots /\ DOMAIN draft.rules \in SUBSET Rules
        /\ \A r \in DOMAIN draft.rules : draft.rules[r] \in Artifacts
    BY SnapshotParts DEF Inv, TypeOK, Publish
  <1>2. ASSUME NEW r \in Rules
        PROVE  /\ Published(r) \in RuleRows
               /\ Published(r).status = "active" => r \in DOMAIN draft.rules
    <2>1. CASE r \in DOMAIN draft.rules
      <3>1. draft.rules[r].code \in Codes \union {NoCode} /\ draft.rules[r].report \in Reports
        BY <1>1, <2>1 DEF Artifacts
      <3> QED
        BY <2>1, <3>1 DEF Published, RuleRows, RowStatuses
    <2>2. CASE r \notin DOMAIN draft.rules
      BY <2>2 DEF Inv, TypeOK, Published, RuleRows, RowStatuses
    <2> QED
      BY <2>1, <2>2
  <1>3. row' \in [Rules -> RuleRows] /\ \A r \in Rules : row'[r] = Published(r)
    BY <1>2 DEF Publish
  <1>4. ActiveIsEnforced'
    BY <1>2, <1>3 DEF Publish, ActiveIsEnforced
  <1> QED
    BY <1>1, <1>3, <1>4 DEF Inv, TypeOK, Publish

-----------------------------------------------------------------------------
(***************************************************************************)
(* Every step                                                              *)
(***************************************************************************)

LEMMA JobKeeps ==
    ASSUME Inv, NEW r \in Rules, JobSteps(r)
    PROVE  Inv'
  <1>1. CASE StartJob(r)
    <2>1. task' \in [Rules \union Managers -> Tasks]
      BY <1>1, TaskMade, SeenTyped DEF Inv, TypeOK, StartJob, Start
    <2> QED
      BY <1>1, <2>1, QuietRows DEF Inv, TypeOK, StartJob
  <1>2. CASE Land(r)
    BY <1>2, LandKeeps
  <1>3. CASE CompilationFails(r)
    BY <1>3, FailKeeps
  <1> QED
    BY <1>1, <1>2, <1>3 DEF JobSteps

LEMMA NormKeeps ==
    ASSUME Inv, NEW m \in Managers, NormSteps(m)
    PROVE  Inv'
  <1>1. CASE ReadNorm(m)
    <2>1. task' \in [Rules \union Managers -> Tasks]
      BY <1>1, TaskMade DEF Inv, TypeOK, ReadNorm
    <2> QED
      BY <1>1, <2>1, QuietRows DEF Inv, TypeOK, ReadNorm
  <1>2. CASE NormIsWritten(m)
    <2>1. task' \in [Rules \union Managers -> Tasks]
      BY <1>2, TaskMade DEF Inv, TypeOK, NormIsWritten
    <2> QED
      BY <1>2, <2>1, QuietRows DEF Inv, TypeOK, NormIsWritten
  <1>3. CASE NormIsRefused(m)
    <2>1. task' \in [Rules \union Managers -> Tasks]
      BY <1>3, TaskMade DEF Inv, TypeOK, NormIsRefused
    <2> QED
      BY <1>3, <2>1, QuietRows DEF Inv, TypeOK, NormIsRefused
  <1>4. ASSUME NEW r \in Rules, WriteCheck(m, r) PROVE Inv'
    BY <1>4, WriteCheckKeeps
  <1> QED
    BY <1>1, <1>2, <1>3, <1>4 DEF NormSteps

LEMMA ManagerKeeps ==
    ASSUME Inv, NEW m \in Managers, NEW r \in Rules,
           StageRule(m) \/ Recompile(m, r) \/ Activate(m, r)
    PROVE  Inv'
  <1>1. CASE StageRule(m)
    <2>1. task[m].rule \in Rules /\ Artifact(task[m].loaded) \in Artifacts
      BY <1>1, TaskParts, ArtifactTyped DEF Inv, TypeOK, StageRule
    <2>2. draft' \in Snapshots
      BY <1>1, <2>1, WorkspaceTyped, WithTyped DEF Inv, StageRule
    <2>3. task' \in [Rules \union Managers -> Tasks]
      BY <1>1, TaskMade DEF Inv, TypeOK, StageRule
    <2> QED
      BY <1>1, <2>2, <2>3, QuietRows DEF Inv, TypeOK, StageRule
  <1>2. CASE Recompile(m, r)
    <2>1. task' \in [Rules \union Managers -> Tasks]
      BY <1>2, TaskMade, SeenTyped DEF Inv, TypeOK, Recompile, Start
    <2> QED
      BY <1>2, <2>1, QuietRows DEF Inv, TypeOK, Recompile
  <1>3. CASE Activate(m, r)
    <2>1. Activating(r) \in Tasks
      BY TaskMade, SeenTyped DEF Inv
    <2>2. task' \in [Rules \union Managers -> Tasks]
      BY <1>3, <2>1 DEF Inv, TypeOK, Activate
    <2> QED
      BY <1>3, <2>2, QuietRows DEF Inv, TypeOK, Activate
  <1> QED
    BY <1>1, <1>2, <1>3

LEMMA DraftKeeps ==
    ASSUME Inv, (\E r \in Rules : Retire(r)) \/ (\E c \in Contexts : EditContext(c)) \/ Discard
    PROVE  Inv'
  <1>1. ASSUME NEW r \in Rules, Retire(r) PROVE Inv'
    <2>1. draft' \in Snapshots
      BY <1>1, WorkspaceTyped, WithoutTyped DEF Inv, Retire
    <2> QED
      BY <1>1, <2>1, QuietRows DEF Inv, TypeOK, Retire
  <1>2. ASSUME NEW c \in Contexts, EditContext(c) PROVE Inv'
    <2>1. draft' = [context |-> c, rules |-> Workspace.rules]
      BY <1>2, WorkspaceTyped, SnapshotParts DEF Inv, EditContext
    <2>2. draft' \in Snapshots
      BY <2>1, WorkspaceTyped, SnapshotParts, SnapshotMade DEF Inv
    <2> QED
      BY <1>2, <2>2, QuietRows DEF Inv, TypeOK, EditContext
  <1>3. CASE Discard
    BY <1>3, QuietRows DEF Inv, TypeOK, Discard
  <1> QED
    BY <1>1, <1>2, <1>3

LEMMA ServerKeeps ==
    ASSUME Inv, Crash \/ Restart \/ RestartBlind
    PROVE  Inv'
  <1>1. task' \in [Rules \union Managers -> Tasks]
    BY TaskMade DEF Inv, TypeOK, Crash, Restart, RestartBlind, Resumed
  <1>2. MaxRestarts \in Nat /\ MaxBlind \in Nat
    BY RuleCompilationAssumption
  <1>3. up' \in BOOLEAN
    BY DEF Crash, Restart, RestartBlind
  <1>4. restarts' \in 0 .. MaxRestarts /\ blind' \in 0 .. MaxBlind
    BY <1>2 DEF Inv, TypeOK, Crash, Restart, RestartBlind
  <1>5. UNCHANGED <<row, draft, active>>
    BY DEF Crash, Restart, RestartBlind
  <1> QED
    BY <1>1, <1>3, <1>4, <1>5 DEF Inv, TypeOK, ActiveIsEnforced

LEMMA StepInv == Inv /\ [Next]_vars => Inv'
  <1> SUFFICES ASSUME Inv, [Next]_vars PROVE Inv'
    OBVIOUS
  <1>1. CASE UNCHANGED vars
    BY <1>1 DEF vars, Inv, TypeOK, ActiveIsEnforced
  <1>2. ASSUME NEW r \in Rules, Create(r) \/ JobSteps(r) \/ Retire(r) PROVE Inv'
    BY <1>2, CreateKeeps, JobKeeps, DraftKeeps
  <1>3. ASSUME NEW m \in Managers,
               NormSteps(m) \/ Land(m) \/ CompilationFails(m) \/ StageRule(m)
                  \/ \E r \in Rules : Recompile(m, r) \/ Activate(m, r)
        PROVE Inv'
    <2>1. CASE StageRule(m)
      <3>1. task[m].rule \in Rules
        BY <2>1, TaskParts DEF Inv, TypeOK, StageRule
      <3> QED
        BY <2>1, <3>1, ManagerKeeps
    <2> QED
      BY <1>3, <2>1, NormKeeps, LandKeeps, FailKeeps, ManagerKeeps
  <1>4. CASE (\E c \in Contexts : EditContext(c)) \/ Discard
    BY <1>4, DraftKeeps
  <1>5. CASE Publish
    BY <1>5, PublishKeeps
  <1>6. CASE Crash \/ Restart \/ RestartBlind
    BY <1>6, ServerKeeps
  <1> QED
    BY <1>1, <1>2, <1>3, <1>4, <1>5, <1>6 DEF Next

-----------------------------------------------------------------------------
(***************************************************************************)
(* Theorems                                                                *)
(***************************************************************************)

\* The invariant holds in every reachable state.
THEOREM SpecInv == Spec => []Inv
  <1> QED
    BY InitInv, StepInv, PTL DEF Spec

\* Every variable keeps its type: no compilation writes a row or a snapshot that the
\* tables could not hold.
THEOREM Typed == Spec => []TypeOK
  <1>1. Inv => TypeOK
    BY DEF Inv
  <1> QED
    BY <1>1, SpecInv, PTL

\* A rule listed as active is in the active version, however many compilations and
\* publications of it overlap.
THEOREM ActiveEnforced == Spec => []ActiveIsEnforced
  <1>1. Inv => ActiveIsEnforced
    BY DEF Inv
  <1> QED
    BY <1>1, SpecInv, PTL

-----------------------------------------------------------------------------
(***************************************************************************)
(* What a compilation may write in the draft.                              *)
(***************************************************************************)

LEMMA LandsInItsContext ==
    ASSUME TypeOK, [Next]_vars, NEW t \in Rules \union Managers,
           task[t].op = "compile", task'[t] = Idle,
           draft' # draft, draft # NoDraft, draft' # NoDraft
    PROVE  task[t].saw = draft.context
  <1>1. task[t] # Idle /\ Idle # Queued
    BY TaskMade
  <1>2. CASE Land(t)
    BY <1>2 DEF Land, SameContext
  <1>3. task' # task /\ draft' # draft
    BY <1>1
  <1>4. ASSUME NEW u \in Rules \union Managers, u # t, Land(u) \/ (u \in Managers /\ StageRule(u))
        PROVE  FALSE
    BY <1>1, <1>4 DEF TypeOK, Land, StageRule
  <1>5. ASSUME StageRule(t) PROVE FALSE
    BY <1>5 DEF StageRule
  <1>6. ASSUME NEW r \in Rules, Create(r) PROVE FALSE
    BY <1>1, <1>6 DEF TypeOK, Create
  <1>7. ASSUME NEW m \in Managers, NEW r \in Rules, WriteCheck(m, r) PROVE FALSE
    BY <1>1, <1>7 DEF TypeOK, WriteCheck
  <1>8. (\E u \in Rules \union Managers : Land(u)) \/ (\E m \in Managers : StageRule(m))
        \/ (\E r \in Rules : Create(r)) \/ (\E m \in Managers, r \in Rules : WriteCheck(m, r))
    BY <1>3 DEF Next, vars, JobSteps, NormSteps, StartJob, CompilationFails, Retire, ReadNorm,
                NormIsWritten, NormIsRefused, Recompile, Activate, EditContext, Discard,
                Publish, Crash, Restart, RestartBlind
  <1> QED
    BY <1>2, <1>4, <1>5, <1>6, <1>7, <1>8

\* Whatever happens to the draft while the models are awaited, code gets into it by
\* compilation only when it was written for the context that draft has.
THEOREM StagedInContext == Spec => StagedForItsContext
  <1>1. TypeOK /\ [Next]_vars =>
           [\A t \in Rules \union Managers :
               task[t].op = "compile" /\ task'[t] = Idle /\ draft' # draft
               /\ draft # NoDraft /\ draft' # NoDraft
                  => task[t].saw = draft.context]_vars
    BY LandsInItsContext
  <1> QED
    BY <1>1, Typed, PTL DEF Spec, StagedForItsContext

LEMMA EntersWritten ==
    ASSUME TypeOK, [Next]_vars, NEW r \in Rules, draft # NoDraft, draft' # NoDraft,
           r \notin DOMAIN draft.rules, r \in DOMAIN draft'.rules
    PROVE  \/ row[r].status = "absent"
           \/ \E m \in Managers : task[m].op = "activate" /\ task[m].rule = r
  <1>1. draft \in Snapshots /\ Workspace = draft /\ draft' # draft
    BY DEF TypeOK, Workspace
  <1>2. ASSUME NEW q \in Rules, Insert(q) PROVE row[r].status = "absent"
    <2>1. DOMAIN draft'.rules = DOMAIN draft.rules \union {q}
      BY <1>1, <1>2, RowsTyped, ArtifactTyped, WithTyped DEF Insert
    <2> QED
      BY <1>2, <2>1 DEF Insert
  <1>3. ASSUME NEW u \in Rules \union Managers, Land(u) PROVE FALSE
    <2> DEFINE q == task[u].rule
    <2>1. task[u].op = "compile" /\ q \in Rules
      BY <1>3, TaskParts DEF TypeOK, Land
    <2>2. PICK code \in Codes \union {NoCode}, valid \in BOOLEAN :
             draft' = Refreshed(q, [code |-> code, report |-> [on |-> code, valid |-> valid]])
      BY <1>3 DEF Land
    <2> DEFINE x == [code |-> code, report |-> [on |-> code, valid |-> valid]]
    <2>3. Artifact(x) \in Artifacts
      BY DEF Reports, Artifacts, Artifact
    <2>4. q \in DOMAIN draft.rules /\ draft' = With(draft, q, x)
      BY <1>1, <2>2 DEF Refreshed
    <2>5. DOMAIN draft'.rules = DOMAIN draft.rules \union {q}
      BY <1>1, <2>1, <2>3, <2>4, WithTyped
    <2> QED
      BY <2>4, <2>5
  <1>4. ASSUME NEW m \in Managers, StageRule(m)
        PROVE  task[m].op = "activate" /\ task[m].rule = r
    <2>1. task[m].op = "activate" /\ task[m].rule \in Rules
          /\ Artifact(task[m].loaded) \in Artifacts
      BY <1>4, TaskParts, ArtifactTyped DEF TypeOK, StageRule
    <2>2. DOMAIN draft'.rules = DOMAIN draft.rules \union {task[m].rule}
      BY <1>1, <1>4, <2>1, WithTyped DEF StageRule
    <2> QED
      BY <2>1, <2>2
  <1>5. ASSUME NEW q \in Rules, Retire(q) PROVE FALSE
    BY <1>1, <1>5, WithoutTyped DEF Retire
  <1>6. ASSUME NEW c \in Contexts, EditContext(c) PROVE FALSE
    <2>1. draft'.rules = draft.rules
      BY <1>1, <1>6, SnapshotParts DEF EditContext
    <2> QED
      BY <2>1
  <1>7. \/ \E q \in Rules : Insert(q) \/ Retire(q)
        \/ \E u \in Rules \union Managers : Land(u)
        \/ \E m \in Managers : StageRule(m)
        \/ \E c \in Contexts : EditContext(c)
    BY <1>1 DEF Next, vars, JobSteps, NormSteps, Create, WriteCheck, StartJob,
                CompilationFails, ReadNorm, NormIsWritten, NormIsRefused, Recompile,
                Activate, Discard, Publish, Crash, Restart, RestartBlind
  <1> QED
    BY <1>2, <1>3, <1>4, <1>5, <1>6, <1>7

\* A rule that is not in the draft enters it only as it is written, or by a manager who
\* activates it: never by a compilation that was under way when it was taken out.
THEOREM OutStays == Spec => OutStaysOut
  <1>1. TypeOK /\ [Next]_vars =>
           [\A r \in Rules :
               /\ draft # NoDraft /\ draft' # NoDraft
               /\ r \notin DOMAIN draft.rules /\ r \in DOMAIN draft'.rules
               => \/ row[r].status = "absent"
                  \/ \E m \in Managers : task[m].op = "activate" /\ task[m].rule = r]_vars
    BY EntersWritten
  <1> QED
    BY <1>1, Typed, PTL DEF Spec, OutStaysOut

=============================================================================
