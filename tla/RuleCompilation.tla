-------------------------- MODULE RuleCompilation --------------------------
(***************************************************************************)
(* The rows of the rules of a process and the code that agents write for   *)
(* them (rules/service.py, normalize_norm of agents/normalizer.py), beside *)
(* the draft and the active version of the process.                        *)
(*                                                                         *)
(* A compilation loads its rule and the draft, awaits models for minutes   *)
(* and then locks the process, never the rule.  The session it writes with *)
(* still holds the rule as loaded, and updates only the columns whose new  *)
(* value differs from the loaded one.  One server runs at a time (module   *)
(* JobStore); it may die and start again.  Code, tests and prompts are     *)
(* data: what matters is which code a report judged, and in which context. *)
(***************************************************************************)
EXTENDS Naturals, FiniteSets, Functions

CONSTANTS
    Rules,        \* the rules that may be written
    Managers,     \* requests to recompile, activate or read a norm
    Codes,        \* the code agents may write
    Contexts,     \* the processes and agents a snapshot may configure
    Fits(_, _),   \* whether the outcome of a rule exists in a context
    MaxRestarts,  \* bound on the deaths of the server
    MaxBlind,     \* bound on the starts without a database
    NormSizes     \* how many checks a norm may have

ASSUME RuleCompilationAssumption ==
    /\ Rules \intersect Managers = {}
    /\ {MaxRestarts, MaxBlind} \subseteq Nat /\ NormSizes \subseteq Nat
    /\ \A r \in Rules, c \in Contexts : Fits(r, c) \in BOOLEAN

VARIABLES
    row,       \* the row of each rule
    draft,     \* the draft of the process, or NoDraft
    active,    \* the active version
    task,      \* what each manager's request, and the job of each rule, is doing
    up,        \* whether the server runs
    restarts, blind

vars == <<row, draft, active, task, up, restarts, blind>>

-----------------------------------------------------------------------------
(***************************************************************************)
(* Rows, snapshots and tasks                                               *)
(***************************************************************************)

NoCode == "none"

\* A report, with the code it was written on.
Reports == [on : Codes \union {NoCode}, valid : BOOLEAN]
NoReport == [on |-> NoCode, valid |-> FALSE]

\* What a snapshot keeps of a rule.
Artifacts == [code : Codes \union {NoCode}, report : Reports]
Artifact(x) == [code |-> x.code, report |-> x.report]

\* No compilation blocks a rule any more: it leaves a draft.
RowStatuses == {"absent", "compiling", "draft", "active", "retired"}
RuleRows == [status : RowStatuses, code : Codes \union {NoCode}, report : Reports]
NoRow == [status |-> "absent", code |-> NoCode, report |-> NoReport]
NewRow == [NoRow EXCEPT !.status = "compiling"]

Snapshots == [context : Contexts, rules : UNION {[S -> Artifacts] : S \in SUBSET Rules}]
NoDraft == [context |-> "none"]
Workspace == IF draft = NoDraft THEN active ELSE draft

With(snapshot, r, x) ==
    [snapshot EXCEPT !.rules = [q \in DOMAIN @ \union {r} |-> IF q = r THEN Artifact(x) ELSE @[q]]]
Without(snapshot, r) == [snapshot EXCEPT !.rules = Restrict(@, DOMAIN @ \ {r})]

\* A task: the rule and the row it loaded, the context of the draft it found, or none,
\* and, for a norm, the checks to write and those written.
Idle == [op |-> "none"]
Queued == [op |-> "queued"]
Compiling(r, seen) == [op |-> "compile", rule |-> r, loaded |-> row[r], saw |-> seen]
Activating(r) == [op |-> "activate", rule |-> r, loaded |-> row[r]]
Writing(todo, made) == [op |-> "norm", todo |-> todo, made |-> made]

Tasks ==
    [op : {"compile"}, rule : Rules, loaded : RuleRows, saw : Contexts \union {"none"}]
    \union [op : {"activate"}, rule : Rules, loaded : RuleRows]
    \union [op : {"norm"}, todo : SUBSET Rules, made : SUBSET Rules]
    \union {Idle, Queued}

TypeOK ==
    /\ row \in [Rules -> RuleRows]
    /\ draft \in Snapshots \union {NoDraft} /\ active \in Snapshots
    /\ task \in [Rules \union Managers -> Tasks]
    /\ up \in BOOLEAN /\ restarts \in 0 .. MaxRestarts /\ blind \in 0 .. MaxBlind

Init ==
    /\ row = [r \in Rules |-> NoRow]
    /\ draft = NoDraft
    /\ active \in [context : Contexts, rules : [{} -> Artifacts]]
    /\ task = [t \in Rules \union Managers |-> Idle]
    /\ up = TRUE /\ restarts = 0 /\ blind = 0

-----------------------------------------------------------------------------
(***************************************************************************)
(* Writing rules                                                           *)
(***************************************************************************)

\* create, in one transaction.  A new rule is staged, still without code.
Insert(r) ==
    /\ row[r].status = "absent"
    /\ row' = [row EXCEPT ![r] = NewRow]
    /\ draft' = With(Workspace, r, NewRow)

\* A rule that a norm is about to write has no row yet, and its row is its own.
Reserved(r) == \E m \in Managers : task[m].op = "norm" /\ r \in task[m].todo

\* The request for one rule: its job starts when the request has been answered.
Create(r) ==
    /\ up /\ ~Reserved(r) /\ Fits(r, Workspace.context) /\ Insert(r)
    /\ task' = [task EXCEPT ![r] = Queued]
    /\ UNCHANGED <<active, up, restarts, blind>>

\* normalize_norm: the model names only the outcomes it was shown.
ReadNorm(m) ==
    /\ up /\ task[m] = Idle
    /\ \E checks \in SUBSET {r \in Rules : row[r].status = "absent" /\ ~Reserved(r)} :
          /\ Cardinality(checks) \in NormSizes \ {0}
          /\ \A r \in checks : Fits(r, Workspace.context)
          /\ task' = [task EXCEPT ![m] = Writing(checks, {})]
    /\ UNCHANGED <<row, draft, active, up, restarts, blind>>

\* One rule after the other, each in a transaction of its own.
WriteCheck(m, r) ==
    /\ task[m].op = "norm" /\ r \in task[m].todo
    /\ Fits(r, Workspace.context) /\ Insert(r)
    /\ task' = [task EXCEPT ![m] = Writing(@.todo \ {r}, @.made \union {r})]
    /\ UNCHANGED <<active, up, restarts, blind>>

\* All are written: their jobs start together.
NormIsWritten(m) ==
    /\ task[m].op = "norm" /\ task[m].todo = {}
    /\ task' = [t \in DOMAIN task |->
                    IF t = m THEN Idle ELSE IF t \in task[m].made THEN Queued ELSE task[t]]
    /\ UNCHANGED <<row, draft, active, up, restarts, blind>>

\* 409: the outcome of a check is gone.  What was written stays, and has no job.
NormIsRefused(m) ==
    /\ task[m].op = "norm"
    /\ \E r \in task[m].todo : ~Fits(r, Workspace.context)
    /\ task' = [task EXCEPT ![m] = Idle]
    /\ UNCHANGED <<row, draft, active, up, restarts, blind>>

-----------------------------------------------------------------------------
(***************************************************************************)
(* Compiling                                                               *)
(***************************************************************************)

\* compile_rule takes no other.
Compilable(r) == row[r].status \in {"draft", "retired"}

Start(t, r) == task' = [task EXCEPT ![t] = Compiling(r, draft.context)]

Recompile(m, r) ==
    /\ up /\ task[m] = Idle /\ Compilable(r) /\ Start(m, r)
    /\ UNCHANGED <<row, draft, active, up, restarts, blind>>

StartJob(r) ==
    /\ task[r] = Queued /\ Start(r, r)
    /\ UNCHANGED <<row, draft, active, up, restarts, blind>>

\* Mutant: the context is not looked at again.
SameContextAnyway(f) == f.op = "compile"

\* The draft has the context it had, or there is none as there was none.
SameContext(f) == draft.context = f.saw

\* Mutant: the artifact is put in the draft, whether or not it was there.
RefreshedAnyway(r, x) == IF draft = NoDraft THEN draft ELSE With(draft, r, x)

\* The artifact in the draft, if the rule is still in it.
Refreshed(r, x) ==
    IF draft # NoDraft /\ r \in DOMAIN draft.rules THEN With(draft, r, x) ELSE draft

\* The models answer, NeedsData is no code, and the result is written under the lock
\* of the process.  Of the row, only what differs from the loaded row.
Land(t) ==
    LET f == task[t]
        r == f.rule
    IN  /\ f.op = "compile" /\ SameContext(f)
        /\ \E code \in Codes \union {NoCode}, valid \in BOOLEAN :
              LET x == [code |-> code, report |-> [on |-> code, valid |-> valid]]
              IN  /\ valid => code # NoCode
                  /\ row' = [row EXCEPT ![r] =
                        [status |-> IF f.loaded.status = "draft" THEN @.status ELSE "draft",
                         code |-> IF code = f.loaded.code THEN @.code ELSE code,
                         report |-> x.report]]
                  /\ draft' = Refreshed(r, x)
        /\ task' = [task EXCEPT ![t] = Idle]
        /\ UNCHANGED <<active, up, restarts, blind>>

\* A job that fails leaves a draft with the error, unless the rule got past compiling.
Left(r) ==
    IF row[r].status = "compiling" THEN [row[r] EXCEPT !.status = "draft", !.report = NoReport]
    ELSE row[r]

\* The models fail, or the context changed.
CompilationFails(t) ==
    /\ task[t].op = "compile"
    /\ row' = IF t \in Rules THEN [row EXCEPT ![t] = Left(t)] ELSE row
    /\ task' = [task EXCEPT ![t] = Idle]
    /\ UNCHANGED <<draft, active, up, restarts, blind>>

-----------------------------------------------------------------------------
(***************************************************************************)
(* The draft and the versions                                              *)
(***************************************************************************)

\* activate: the rule is read before the process is locked.
Activate(m, r) ==
    /\ up /\ task[m] = Idle
    /\ row[r].code # NoCode /\ row[r].report.valid
    /\ task' = [task EXCEPT ![m] = Activating(r)]
    /\ UNCHANGED <<row, draft, active, up, restarts, blind>>

StageRule(m) ==
    /\ task[m].op = "activate"
    /\ draft' = With(Workspace, task[m].rule, task[m].loaded)
    /\ task' = [task EXCEPT ![m] = Idle]
    /\ UNCHANGED <<row, active, up, restarts, blind>>

Retire(r) ==
    /\ up /\ row[r].status # "absent"
    /\ draft' = Without(Workspace, r)
    /\ UNCHANGED <<row, active, task, up, restarts, blind>>

EditContext(c) ==
    /\ up /\ c # Workspace.context
    /\ draft' = [Workspace EXCEPT !.context = c]
    /\ UNCHANGED <<row, active, task, up, restarts, blind>>

Discard ==
    /\ up /\ draft # NoDraft
    /\ draft' = NoDraft
    /\ UNCHANGED <<row, active, task, up, restarts, blind>>

\* Mutant: the rules that are out keep their status.
PublishedAside(r) ==
    IF r \in DOMAIN draft.rules
    THEN [status |-> "active", code |-> draft.rules[r].code, report |-> draft.rules[r].report]
    ELSE row[r]

\* publish_snapshot writes the rows of the rules that are in, and retires the others.
Published(r) ==
    IF r \in DOMAIN draft.rules
    THEN [status |-> "active", code |-> draft.rules[r].code, report |-> draft.rules[r].report]
    ELSE IF row[r].status = "active" THEN [row[r] EXCEPT !.status = "retired"] ELSE row[r]

\* Validated and published: every rule has code, a valid report, and passes its stored
\* tests again, which the code of another report may do.
Publish ==
    /\ up /\ draft # NoDraft
    /\ \A r \in DOMAIN draft.rules :
          Fits(r, draft.context) /\ draft.rules[r].code # NoCode /\ draft.rules[r].report.valid
    /\ active' = draft /\ draft' = NoDraft
    /\ row' = [r \in Rules |-> Published(r)]
    /\ UNCHANGED <<task, up, restarts, blind>>

-----------------------------------------------------------------------------
(***************************************************************************)
(* The server                                                              *)
(***************************************************************************)

Crash ==
    /\ up /\ restarts < MaxRestarts
    /\ up' = FALSE /\ restarts' = restarts + 1
    /\ task' = [t \in DOMAIN task |-> Idle]
    /\ UNCHANGED <<row, draft, active, blind>>

\* Mutant: only the rules that had begun are resumed.
ResumedAside(r) == Idle

\* resume_compilations: every rule a restart left in `compiling`.
Resumed(r) == IF row[r].status = "compiling" THEN Queued ELSE Idle

Restart ==
    /\ ~up /\ up' = TRUE
    /\ task' = [t \in DOMAIN task |-> IF t \in Rules THEN Resumed(t) ELSE Idle]
    /\ UNCHANGED <<row, draft, active, restarts, blind>>

\* Best effort: with the database unreachable, nothing is resumed.
RestartBlind ==
    /\ ~up /\ up' = TRUE
    /\ blind < MaxBlind /\ blind' = blind + 1
    /\ UNCHANGED <<row, draft, active, task, restarts>>

-----------------------------------------------------------------------------
JobSteps(r) == StartJob(r) \/ Land(r) \/ CompilationFails(r)

NormSteps(m) ==
    \/ ReadNorm(m) \/ NormIsWritten(m) \/ NormIsRefused(m)
    \/ \E r \in Rules : WriteCheck(m, r)

Next ==
    \/ \E r \in Rules : Create(r) \/ JobSteps(r) \/ Retire(r)
    \/ \E m \in Managers :
          \/ NormSteps(m) \/ Land(m) \/ CompilationFails(m) \/ StageRule(m)
          \/ \E r \in Rules : Recompile(m, r) \/ Activate(m, r)
    \/ \E c \in Contexts : EditContext(c)
    \/ Discard \/ Publish
    \/ Crash \/ Restart \/ RestartBlind

Spec == Init /\ [][Next]_vars

\* The server is started again, and a compilation ends: its calls have time limits.
FairSpec ==
    /\ Spec
    /\ WF_vars(Restart)
    /\ \A r \in Rules : WF_vars(JobSteps(r))

-----------------------------------------------------------------------------
(***************************************************************************)
(* Properties                                                              *)
(***************************************************************************)

\* A rule listed as active is in the active version: every publication retires the
\* rows it leaves out, also while they are compiled again.
ActiveIsEnforced ==
    \A r \in Rules : row[r].status = "active" => r \in DOMAIN active.rules

\* Code gets into the draft by compilation only when it was written for the draft's own
\* context, though drafts come and go while the models are awaited.
StagedForItsContext ==
    [][\A t \in Rules \union Managers :
          task[t].op = "compile" /\ task'[t] = Idle /\ draft' # draft
          /\ draft # NoDraft /\ draft' # NoDraft
             => task[t].saw = draft.context]_vars

\* A rule that a manager takes out of the draft while it is compiled stays out.
OutStaysOut ==
    [][\A r \in Rules :
          /\ draft # NoDraft /\ draft' # NoDraft
          /\ r \notin DOMAIN draft.rules /\ r \in DOMAIN draft'.rules
          => \/ row[r].status = "absent"
             \/ \E m \in Managers : task[m].op = "activate" /\ task[m].rule = r]_vars

\* A rule whose job was queued leaves `compiling`, also across deaths of the server,
\* unless a start finds no database.
LeavesCompiling ==
    \A r \in Rules :
        row[r].status = "compiling" /\ task[r] # Idle
            ~> row[r].status # "compiling" \/ blind > 0

\* "compiling: Saved; tester and coder are writing its tests and code in the
\* background (1-4 min). A restart re-queues it"
CompilingIsWorkedOn ==
    \A r \in Rules :
        row[r].status = "compiling" =>
            \/ ~up \/ task[r] # Idle
            \/ \E m \in Managers : task[m].op = "norm" /\ r \in task[m].made

\* "with the database unreachable the API still starts, and those rules wait for
\* the next start or a recompile"
WaitingMayBeRecompiled ==
    \A r \in Rules :
        row[r].status = "compiling" /\ up /\ blind > 0 /\ (\A t \in DOMAIN task : task[t] = Idle)
            => Compilable(r)

\* "draft: Compiled but waiting for a person", not enforced by the engine.
EnforcedIsNotADraft ==
    \A r \in DOMAIN active.rules : row[r].status # "draft"

\* "The compiler writes the code with two blind agents and keeps the second one's
\* work in `report` as evidence": of the code that is enforced.
EvidenceIsOfTheCode ==
    \A r \in DOMAIN active.rules : active.rules[r].report.on = active.rules[r].code
=============================================================================
