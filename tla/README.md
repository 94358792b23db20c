# trace-pay in TLA+

TLA+ modules, TLC configurations and TLAPS proofs about the backend of trace-pay
(`src/backend/app`): the service that reads documents into *cases*, decides each
case with deterministic rules, lets people and language models question those
decisions, and exports the outcome. Paths below are relative to
`src/backend/app/features` unless they begin with `src/` or `docs/` (`src/docs`).

The modules follow the code, not the documents: where both speak, the document is
quoted only as the promise a property states. Each module begins with a comment that
says what it keeps of the code and what it abstracts; `PROJECT.json` maps every
definition to the lines it models and lists the hazards at the lines where they bite.

## 1. The system

All shared state lives in PostgreSQL; requests are coroutines of one or more API
processes, each with one session and, nearly always, one transaction. Almost every
transaction that writes begins with `versions.lock`: `SELECT ... FOR UPDATE` of the
process row. Around that lock are the interesting exceptions: reads made before it,
two row locks taken in another order, language models awaited between two reads, and
an export that takes no lock at all.

| Component | State | Operations | Talks to |
|---|---|---|---|
| Decision engine (`decisions/engine.py`) | none: rules, case, down sources in; verdict out | `decide`, `_run_rule`, `_combine` | called by run, reprocess, replay, validation |
| Decisions (`decisions/service.py`) | `Instance.status`, table `decisions` (append-only), `decision_reviews`, `executions` | `run`, `reprocess`, `resolve`, `export`, `assess`, lists | versions (lock, active), sources (sync, loads), engine, proposals (settle) |
| Process versions (`versions/`) | `process_versions` (immutable), one `process_drafts` row per process, the active version | fetch, `edit`, `stage`, `discard`, `validate`, `publish`, `publish_snapshot`, `replay` | decisions (evidence), alerts after publication |
| Rules (`rules/service.py`) | `Rule.status`: compiling, draft, active, blocked, retired | compile in the background, resume at startup, stage into the draft | agents, versions |
| Learning (`learning/`) | append-only analyses, norm proposals, validations, adoptions | `analyze`, `validate`, `approve`, `reject` | versions (publishes past the draft), proposals |
| Manager proposals (`proposals/service.py`) | `manager_proposals`: open, accepted, rejected, superseded | `propose_decision`, `supersede`, `accept`, `reject` | decisions.resolve, versions.edit, learning.approve |
| Alerts (`alerts/service.py`) | `alerts`, unique per decision and new outcome | `detect` after a load or a publication, acknowledge | decisions.reprocess (dry run) |
| Sources of truth (`sources/`) | every load ever made; the last by id is current | downloads, `sync`, `sync_before_run`, workbook loads | versions.lock, alerts |
| Ingestion into a process (`ingestion/process_*.py`) | `Instance` rows, evidence events | `attach_document`, `reextract_document` | versions.lock, document reading |
| Document reading (`ingestion/pdf/`, `schema_fields.py`, `readings.py`) | caches of readings | readers, committee, judge, field mapping | provider chains, journal |
| Provider chains (`ingestion/ocr/`, `processes/execution.py`) | the rest of a failing provider, cached services | ask the providers in order, bind the settings of a version | journal |
| Job queue (`ingestion/service.py`, `store.py`) | SQLite `jobs`: QUEUED, RUNNING, COMPLETED, FAILED | `submit_batch`, `claim`, `finish`, `recover` | worker threads, document reading |
| Provider journal (`ingestion/ocr/journal.py`) | a JSON file per paid call: started, complete, refused, uncertain | `_recorded_call` under a file lock | providers |
| Discovery drafts (`processes/drafts.py`, `draft_compilation.py`) | `discovery_sessions`, one revision row per change | message, upload, sync, review, prepare, publish | agents, proposals, versions.publish_snapshot |
| Agents (`agents/`) | none but what a run returns | compile a rule, normalise a norm, a run over a chain of models | rules, learning, events |
| Event log and traces (`src/backend/app/core/events.py`, `traces/`) | table `events` | spans, points, trees, metrics and the lists behind them | every component writes it |
| Use cases, users, database API (`use_cases/`, `users/`, `database_api/`) | agent configurations, audited direct writes | load, configure, activate; insert, edit, delete | agents |
| Platform (`src/backend/app/core`) | sessions, authentication, settings | | every component |

### What is hard, and what makes each component right

- *Engine.* The cascade of `_combine` mixes failures, outages, scans, ties and priorities.
  Right means: an automatic verdict is one that complete evidence would confirm, or a person decides.
- *Decisions.* Engine, people and reviewer write one history through interleaved requests.
  Right means: the history is append-only, a person's word is final for the engine, a questioned decision waits,
  an export delivers decisions that stand, every list tells the same story, and a replay decides as the run did.
- *Versions and learning.* Long human and model pauses between fetching, validating and approving.
  Right means: what is published passes on the evidence of its publication, a norm does to past cases what its manager
  was shown, no open review is overruled and no accepted norm is silently lost.
- *Rules, discovery.* A model is awaited for minutes between reading and writing.
  Right means: no result lands in a configuration it was not computed for, and nothing is approved for another plan.
- *Proposals.* Row locks taken in several orders. Right means: a proposal answers the decision it names, and
  proposals, norms and drafts tell one story wherever a request is aborted.
- *Sources, alerts.* Overlapping downloads, a source that changes while it is read, dry runs that let go of
  their locks. Right means: a run reads what was synced for it, and a decision that a change has overtaken is flagged.
- *Reading.* Many readers, some of them one model behind two names. Right means: a value that money depends on
  is corroborated, a document is read once for what holds, and only by the models its version names.
- *Queue and journal.* Crashes between a claim, a paid call and its record. Right means: one worker per job,
  one payment per request, and every job and call ends.
- *Agents, events, catalogue.* Right means: the coder cannot bend its tests, a run is priced as the model that
  answered, a trace is kept whole or not at all, a number lists the spans it counted, one configuration is active.

### What is assumed of the platform

PostgreSQL does what it documents: READ COMMITTED, row and advisory locks until the end of the transaction, a waiting
UPDATE that sees the row its holder committed, unique indexes that make the second writer wait and fail. SQLite's
`BEGIN IMMEDIATE` admits one writer. A lock file is freed when its process dies. An exception or a crash before the
commit leaves nothing.

## 2. Modules

An MC module puts several parts of the system side by side when they share no state: a variable
`part`, chosen in `MCInit`, says which of them the behaviour is about, and the others stand still. It names the
properties that a run checks, so the proofs about it state exactly those.

| MC module | Parts (modules) | Proofs |
|---|---|---|
| `MCEngine` | the engine on one case (`Engine`), a compilation (`Compiler`), a run of an agent (`AgentRun`), the audit (`Events`), metrics (`Monitoring`) | `EngineProofs` |
| `MCDecisions` | cases (`Decisions`, seen through `CaseViews`, promised by `DecisionLog`), executions (`Executions`), proposals (`Proposals`), agent configurations (`AgentConfigs`), direct writes (`DatabaseTables`) | `DecisionsProofs` |
| `MCVersions` | the draft (`Versions`), the effect on past cases (`Impact`) | `VersionsProofs` |
| `MCJobStore`, `MCJournal` | the queue (`JobStore`, promised by `JobBoard`); the journal (`Journal`) | `IngestionProofs` |
| `MCDiscovery` | the revisions of a session (`Discovery`), its plan (`PlanCompilation`) | `DiscoveryProofs` |
| `MCRuleCompilation` | rules and compilations (`RuleCompilation`) | `RuleCompilationProofs` |
| `MCSources` | tables and runs (`Sources`), a download (`Connector`), alerts (`Alerts`), a workbook (`Workbook`) | `SourcesProofs` |
| `MCReading` | the evidence of a case (`Documents`), an identifier of an invoice (`Committee`), a field of a contract (`SchemaReading`), both over `Chain`; the models a version lets read (`Binding`) | `ReadingProofs` |

### Engine, Compiler, AgentRun, Events, Monitoring

`Engine`: one case under one version. `decides` is the type each rule concludes, `document` the case (missing symbols,
scanned, unconfirmed symbols), `answer` what each rule's code says if run, `unavailable` the rules that read a down
source. `RunRule` is one future of the thread pool, in any order; `Decide` combines them once all returned. `Combine`,
`RulesVerdict`, `StillDecided`, `Winners` are the branches of `_combine` in their order. RULE_ERROR, RULE_NEEDS_DATA and
RULE_COMPILE_FAILED are one answer, "failed": `_combine` treats them alike. Priorities may be equal: versions published by
validation have unique ones, but the engine does not rely on it and neither does the model.

`Compiler` is the loop of `agents/compiler.py`: the tester writes, the coder proposes, the code is run, the coder may object to
failing tests, the tester keeps or corrects them, at most `MaxReviews` times, with `MaxAttempts` proposals; what the models answer is
anything their validators let through. `AgentRun` is a run over a chain: a failing model gives way to the next, a validator sends
an answer back in a new request that begins at the head, and `priced` is what `llm.py` computes from the failures. `Events`
keeps spans, the buffer of the outermost one, inserts and their later commits, an outage and the muting after it, and the
reads that build a tree. `Monitoring` groups the table by step, agent, model, provider call and hour, and filters it for the link of each row.

### Decisions, CaseViews, Executions, DecisionLog

`status`, `symbols`, `history` are the rows of the cases; `history[i]` is the table `decisions` of a case by id, each row with
the review committed with it ("none" when the version configures no reviewer, "human" when it disagreed, "kept" when it agreed
or failed). `active` is the active version, `lock` the holder of the process row, `req[r]` what a request in flight has read,
`delivered` the last export.

*Granularity.* A transaction that holds the process row reads and writes only rows that other holders write, and nobody
sees its writes before the commit. So each is two steps, `XLock` (take the lock, read, select the cases) and `XCommit`
(verdicts, rows, commit, release). Anything can happen between: publications and uploads wait for the lock, an export and
the first read of a re-extraction do not, a crash or an error (`Abort`) leaves nothing. A dry run of reprocess is
`ReprocessLock` and `Abort`. What is read *before* or *without* the lock is a step of its own: `ExtractRead` before
`ExtractLock`, and the two queries of `_export`, `ExportScan` and `ExportRead`.
`ExtractLock` looks at the *cached* status: SQLAlchemy returns the object already in the session for a
`select(...).with_for_update()` that lacks `populate_existing`. `resolve` refreshes, and `run` and `reprocess`
load their cases first under the lock, so they read the truth. The verdict of the engine is any type of the version.

`DecisionLog` is the promise: per case a log that only grows by rows that `MayFollow` the last. `Decisions` implements it
(`HistoryIsLog`, with `log <- history`): one run extends many logs at once. `CaseViews` adds no state: it writes down, each in the
words of its own query, what the queue, the lists, the metrics, the journey and the export show of a history. `Executions` captures the inputs
of a run and evaluates the captured version on them again; a verdict is known by what `evaluate` hands to the engine.

### Proposals, AgentConfigs, DatabaseTables

Each takes its row locks one by one, in the order of the code, with a lock table of its own, because the orders differ. In `Proposals`
a request waits for what another holds, a cycle of waits costs one of its requests its transaction, and what a
transaction writes becomes visible in its last step. `AgentConfigs` follows the statements of load, configure and activate at READ COMMITTED:
an UPDATE misses rows inserted since it began, an INSERT waits for a row of the same key; the unique indexes on the
version and on the active row are part of the model. In `DatabaseTables` a client reads a row and its
etag; its write locks the row, compares the etag with what the row holds by then and commits with its audit record, beside the application's own commits.

### Versions and Impact

`versions` is the line of published versions, the last active. `draft` is the row of `process_drafts`; its `id` and its
`leftOut` are history variables: the table has no id (that is the point of `ActsOnTheDraftItSaw`), and `leftOut` remembers the norms
that a request dropped from a configuration that had them. `view[m]` is what a manager fetched last. A snapshot is a set of settings, fields, rules and
guidance alike; a norm has its rule or guidance in it. An edit replaces the lists it sends, so `Edit` may write any set of what exists; `StageRule` puts one
rule in or out; `PublishPlan` is a discovery that replaces everything past the draft. A digest is the value it digests; the evidence
(`execution.capture`) is one value that runs, uploads and syncs change, and may change back. `Passes` says which
snapshots pass on which evidence: validation is deterministic, the rules being code. `prepared` is the latest validation
of a norm. Every action takes the process row first and commits before it returns, so each is one step; a refused request
changes nothing and is no step. `learning.validate` reads its evidence with several queries; the model lets it read one
state: a torn read would match no later state but one equal to it, and `approve` compares digests.

`Impact` has the same publications without drafts and approvers, but with the cases, their data and their decisions: what a norm
concludes of some data is a constant, a validation captures its evidence, awaits its models and records its report on the capture. A norm becomes a
rule, held against the decisions it contradicts, or a `guidance` for those who judge, which decides no case and needs only a past decision it was tried on.

### JobStore and Journal

`status`, `batch` and `saved` are the tables of the SQLite file. `worker[w]` is where thread `w` is in the loop of `_worker` and the
job it has; `phase` and `lock` are the servers and `server.lock`. Every method of the store is one transaction, so
each is one step: `Submit`, `Claim`, `Finish`, and `recover` inside `Start`. The steps of a thread are separate, so a crash (`Die`) falls between
a claim, the stored result and the finish. An exception of `claim` is outside the `try` of the loop and ends the
thread (`ClaimRaises`); one of `extract`, or of the `finish` after it, is caught and finishes the job as failed; one of
*that* `finish` ends the thread with its job left RUNNING (`FinishRaises`) until the next start recovers it.

`JobBoard` is the promise: batches are taken whole and in turn (`submit_batch`), a job of the oldest waiting batch goes to a worker that has none
(`claim`), its result is stored (`_extract`), it ends by the hand of its one worker (`finish`), and what vanished workers left running is queued again when nobody
is at work (`recover`). The board has no servers, no lock file and no loop; the mapping reads who works on a job off the threads that hold it
(`Doing`). `JobStore` implements it (`QueueIsBoard`): an extraction that fails, a claim that raises or a stopping server changes nothing on the board,
a crash makes the threads of its server vanish, a `finish` that raises its own thread.

`record[r]` is the file of request `r`: its `state`, or "torn" when a write was cut short. `holder[r]` is its lock file, waited for at most
60 seconds. `call[c]` is what a thread is doing in `recorded_call`. The provider is external: it may take a request while
it is being sent (`Accept`) or after its sender timed out or died (`orphans`, `AcceptLate`), and charges for each time. A
429, a 503 or another refusal means it did not take it; anything else that is not a valid answer may hide a delivery. Waits are in halves
of a second; any jitter or Retry-After is allowed. `forced` counts repetitions on purpose. One instance of the module is one provider.

### Discovery, PlanCompilation, RuleCompilation

`Discovery`: every operation reads the latest revision without a lock, awaits a model, a workbook or a connector, and saves the
next revision only if the one it read is still the latest. `PlanCompilation` follows one plan from its proposals through compilation,
examples, preview and publication: a rule is compiled for its proposal or kept from the version before. `RuleCompilation` keeps the
rows of the rules, the draft and the active version; a compilation loads its rule, awaits models, then locks the process and
writes only the columns that differ from what it loaded.

### Sources, Connector, Alerts, Workbook

`Sources`: a sync downloads without a lock and stores one load under the lock; a run syncs the live sources in the same way and then
reads, under that lock, the latest load of each source that is not down. `Connector` is one download, page by page, with
attempts, tokens whose time runs out and a source that changes between two requests. `Alerts` separates the steps of a detection that hold no lock: the comparison of
loads, the dry run, the look at the latest decisions, the insertion. `Workbook` reads the rows of a book in order and
makes of them the tables of an upload, or those of a plan. An error is recognised by the type of its cell; a formula is of another type, so an error that
it showed last passes as its text, with the warning that every formula gets.

### Documents, Committee, SchemaReading, Chain, Binding

`Documents` keeps the row locks and the advisory lock of an upload; a reading is known by what it was made with (reader, plan,
rows), and evidence by its reading, whether that is clean, and whether it has kept the cache key by which it is looked up (`keyed`): reading further fields of an
invoice writes another key over it. `Chain` says who answers when providers are asked in order, and what one model behind two providers counts for. `Committee` hears in
turn the text of the file, two local readers, the image models and the crops, and puts what remains to a judge. `SchemaReading` looks
for the labels of a field, page by page, with the readers that are switched on (`looks`): local recognition and image models by option and deployment, the
text model that maps a field when one is configured. Where a committee or a chain chooses among answers that no property tells apart, or only the form of an answer is
checked, the detail is left to the choice. `Binding` derives the settings of a service from the version and the deployment, caches it, and says
whom the visual reader, the judge and the field reader then ask.

## 3. Runs

| Run | Instance | Shows |
|---|---|---|
| `engine` (1.04 million states) | 3 rules over 4 types, two of one priority; compilations of 3 tests, 4 proposals, 2 reviews; chains of 3 models, 1 retry; 4 spans and an outage; a table of 3 spans, hours of 2 ticks, lists of 2 | `OutageNeverChangesTheOutcome`: an automatic verdict survives every completion of the missing answers. `OracleStands`: a test that the code passes is never rewritten, and what is stored is the report of the stored tests. `FirstRequestIsPriced`, `TracesAreWhole`, `DrillDownIsWhole` |
| `decisions` (1.02 million) | 2 cases of one file name, 2 requests, 2 versions, of which the second drops a type, adds one and asks for reviews; 2 executions over 2 sources and 3 loads; proposals on a case, a norm and 2 changes; 4 configurations; 3 direct writes beside 2 of the application | the histories implement `DecisionLog` (`HistoryIsLog`), a person's word stands, an export delivers what stands, the views agree, replays decide the same, proposals answer what they name and tell one story, one configuration is active, a write replaces what its client read, and is recorded |
| `versions` (3.5 million) | a manager beside rule pages, learning and plans; a setting that fails on one of 2 evidences, a norm; 3 versions, 2 drafts, 2 revisions; a case whose data lack a field or are as the norm rejects them, the norm a rule or a guidance | nothing failing is published, no norm goes but by a request on a configuration that had it, a norm does what its manager was shown, no open review is overruled |
| `jobs` (120 thousand) | 2 servers on one directory, of 2 threads and 1; 3 jobs, a limit of 2 | the queue implements `JobBoard` (`QueueIsBoard`): one thread per job, batches in turn, a recovery takes nothing from anybody; every job ends once a server stays healthy |
| `journal` (397 thousand) | 2 threads of one process, 1 slot, 2 requests, 3 calls of 2 attempts, a budget of 1 s | a request is paid once, and once more per forced send; no recorded refusal hides a payment; every call returns |
| `discovery` (2.4 million) | 2 requests on one session, 2 evidences, 4 revisions, 3 versions; a plan over 3 contexts (one unusable), 2 tables, 5 proposals and 3 examples | nothing is overwritten, published on another base or approved for another plan; a published plan has the rules that were accepted, compiled for what is published with them |
| `compilation` (139 thousand) | 2 rules, of which one context lacks the outcome of the second; a manager, 2 restarts, one of them without a database | active rules are enforced; a compilation lands only in its context; what is out stays out; every queued rule leaves `compiling` |
| `sources` (3.2 million) | a live source, one that runs do not sync and a workbook, 3 requests; keys 1 to 5 in pages of 2, 3 attempts, 3 changes; 2 detections on 2 cases, 3 versions, 2 loads; books of up to 4 rows with two amount columns, errors, formulas and formulas that show an error | runs read what was synced for them and call down what they do not read; a reviewer is shown the same loads; a download is whole; every stale decision is flagged; a value of a workbook is undisputed, and an error only what a formula showed, reported |
| `reading` (996 thousand) | 2 requests on a document, 2 contracts, of which one asks an invoice for further fields, 2 loads, 3 readings; 2 image models behind 3 providers, 2 values, 2 pages, any readers switched off; 2 deployments, 2 presets, a cache of one service | no clean reading that kept its key is repeated and a re-reading is of now; identifiers and fields are corroborated, and a field is missing only when whoever is switched on looked for it; only the models a version names are asked |
| `decisions_evidence`, `versions_draft`, `proposals_open` | as `decisions` (with one case) and `versions` (with two managers) | **violated**, see below |

Every property of a passing run is broken by at least one plausible bug of the code: `PROJECT.json` "mutants" names a definition and
the mutated form, which stands beside it in the module, and TLC finds the property violated with it.

*Bounds.* The names that begin with `Max`, `Limit`, `Budget` and the like stand in guards; the theorems hold for every value of them.
The instances are the least in which the hazards happen: two requests are enough for a race on one lock, three threads are every pair of one server and
of two, two drafts with two revisions are the least with a stale revision, one manager is enough where rule pages, norms and plans
are the others, three versions the least with a norm adopted under an open draft, three rules a
winner, a tie and an unrun rival at once, pages of two over five keys let a record move from an unread page to a
read one, three providers with two models make a second reader that is none. Symmetry is over requests, rules, managers, values and the like, in runs without liveness.

*Where the modelled system stops.* Deadlock is not checked in `engine` (a case is decided, a compilation stored), `decisions` (rows and versions
run out), `journal` (the calls are used up), `discovery` (revisions run out) and `sources` (a download and a workbook end). Where locks could deadlock for real,
in `Proposals` and `Documents`, PostgreSQL aborts one of the cycle, and the abort is an action.

*Fairness.* Only three runs assume any. `jobs`: weak fairness of each thread's own steps; the operating system schedules threads. Nothing is assumed
of servers, which may never start or crash for ever, so `JobsEnd` has `<>[]Healthy` as its premise: without it a thread that died on a
busy database leaves its job running until the next start. `journal`: weak fairness of each caller; HTTP clients and lock files time out, and whoever has the slot replies.
`compilation`: weak fairness of a task that the server runs; models time out. `LeavesCompiling` excepts starts that could not read the
database, as the code does. No liveness is claimed of requests on cases, proposals or versions, since an abort can end every one.

### What the violated runs show

- `EvidenceFrozen` (`decisions_evidence`). A re-extraction loads a pending case, waits for the process row while a run decides
  the case, then gets the lock. The second select returns the cached object, still PENDING; the guard
  passes and the symbols of a decided case are replaced. The comment at
  `ingestion/process_extraction.py:278` promises the opposite. `populate_existing` (as in `versions.lock`) or a refresh
  (as in `resolve`) would close it.
- `ActsOnTheDraftItSaw` (`versions_draft`). Revisions restart at 1 with every draft. A manager who fetched revision 1 of a
  draft that was then published or discarded edits or discards revision 1 of the next. A publication is not exposed:
  it names the validation's hash, which covers the snapshot.
- `OneOpenPerCase` (`proposals_open`). Two requests for a proposal of one case supersede what is open and add one each, without a lock on
  the case and without a constraint: both stay open. `proposals/router.py:53` says a new one supersedes the open one.

### Other known differences between the code and what is said of it

Each of these is a definition in its module, which TLC refutes, but has no run of its own.

| Definition | Promise | What happens |
|---|---|---|
| `Proposals!SettledOnce` | `proposals/model.py:14`: settlement fields are written one time | `supersede` settles objects it selected without a lock, over a manager's settlement |
| `Proposals!StagedOnThePublished` | `docs/frontend-handoff.md:609`: "409 ... a stale draft" | with no draft before and after, a publication in between is not seen and the staged description drops it |
| `Proposals!AnswersWhatItSaw` | `proposals/service.py:90`: "the escalation this answers" | the latest decision is read again after the model was awaited |
| `Discovery!StagedOnceAllAccepted` | `proposals/service.py:15`: staged once every proposal is accepted | a rejected proposal of an earlier plan, or two managers who accept at once, leave the review unstaged |
| `RuleCompilation!CompilingIsWorkedOn` | `docs/team-guide.md:56`: written in the background | a norm whose later rule is refused leaves the earlier ones `compiling` without a job |
| `RuleCompilation!WaitingMayBeRecompiled` | `rules/service.py:221`: wait for a start or a recompile | `compile_rule` refuses a rule in `compiling` |
| `RuleCompilation!EnforcedIsNotADraft` | `docs/team-guide.md:59` | a late compilation sets an enforced rule back to `draft` |
| `RuleCompilation!EvidenceIsOfTheCode` (two managers, two codes) | `rules/model.py:34` | two compilations leave the code of one with the report of the other |
| `Connector!NothingMissed` | `sources/http_connector.py:268`: every record | a removal and an addition cancel out in the counts, and a record that moved is missed |
| `Sources!ReadsFresh` | `sources/service.py:6`: no rule runs on an older snapshot | a slow download that began earlier lands last and is read |
| `Sources!CompiledOnCurrent` | `agents/compiler.py:468` | agents order the loads by time, the engine by id |
| `Sources!MarkedDownIsNotRead` | `docs/api.md:55` | a source that runs do not sync is read although its status is down |
| `Alerts!AlertIsOfItsDecision` | `alerts/model.py:30` | a decision taken during a detection is named as the flagged one |
| `Alerts!DataChangeIsFlagged` (three loads) | `docs/adr/detail/0026` | a second load of the same rows hides the change from the detection of the first |
| `Documents!NobodyWaitsInACircle` | | an upload locks the case before the process, runs and re-extractions after it; the database breaks the cycle |
| `Documents!RereadAsPublished` | | a re-extraction starts from options that the upload had restricted by an earlier version |
| `Compiler!SuiteKeepsBothSides` | `agents/compiler.py:176` | corrections may leave no test in which the rule fires, or none in which it does not |
| `AgentRun!PricedAsAnswered` | `agents/llm.py:130` | failures of several requests are counted as one, and the model priced is not the one that answered |
| `Events!StreamMissesNothing` | `docs/production-api.md:306`: every new span | ids are taken before the commit, and the stream is past a row that commits late |
| `AgentConfigs!LoadNeverOverrides` | `use_cases/service.py:3` | a first configuration that commits between the reads of a load is deactivated |
| `PlanCompilation!PublishedAsPreviewed` | | kept rules are published from their rows, which a recompilation has changed (`processes/drafts.py:466`) |
| `Workbook!FormulasAreNotFacts` | `docs/process-discovery.md:35` | an upload takes what a formula showed last and warns |
| `Workbook!ErrorsAreNotFacts` | | what it takes may be the name of an error (`#N/A`), which is recognised by the type of the cell (`sources/excel.py:213`) |
| `Documents!CleanIsNotRepeated` | `ingestion/process_extraction.py:150` | an invoice with further fields has the key of those fields (`ingestion/service.py:519`), so each upload and re-extraction reads it again |
| `SchemaReading!MissingWasLookedForAnyway` | | with recognition switched off, or no image model, a page without text is looked at by nobody and the field is kept as missing: `OCR_DISABLED` is a warning (`ingestion/pdf/schema.py:62`) |

Met while modelling, without a definition: a plan whose tables are those the conversation began with keeps rules compiled on older loads; an
optional symbol made required is not "newly required" (`versions/service.py:295`); a schema reading made while one reader rested is kept as clean
(`docs/ingestion/cache-and-quality.md:64`); a later, shorter failure overwrites a longer Retry-After
(`docs/ingestion/providers-and-modes.md:184`); two analyses at once may propose one norm; supplier rows of one tax id
under different names are not reported; in hybrid mode the choice of the text judge is the value of a field that is not critical (`ingestion/readings.py:37`);
an edit sends whole lists of rules and guidance (`versions/service.py:104`): with no draft then and none now there is no revision to compare, and a manager whose page is older than
an adoption drops the norm by it (`NormsSurvive` counts that as a request on a configuration that had it); guidance is adopted without the compare with past decisions (`learning/validation.py:143`); a compilation whose failure cannot be stored leaves its rule
`compiling` until the next start (`rules/service.py:190`); the state of a sync is stored when its outermost span ends, later than `Sources` shows it.

## 4. Proofs

TLAPS checks every theorem for every value of the constants, from the named assumptions of the modules (`EngineAssumption`,
`DecisionsAssumption`, `BindingAssumption`, ... collected by the MC modules in `PartsAssumption`); TLC evaluates them in the runs.
The assumptions say what the code's types, checks and configuration guarantee, such as that a default and an escalation type
differ, that keys are finite, that a deployment names providers that exist. A theorem about a part has the form
`MCSpec => []Property`: the invariant of the part is `part = "x" => Inv`, kept because other parts leave its variables alone.

All 37 safety properties of the passing runs are proved. The inductive invariants and why they are needed:

**Engine (`EngineProofs`).** What returned is what the rules that ran answered, and the verdict is `Combine` of it. `TopStands` is the heart
of `OutageSound`: when no unrun rule ranks above the winners or ties them with another type, filling its answer in
leaves `Top` as it is. Rules need not be finitely many: a priority bounded by the largest one in the table has a maximum.
`CompilationInv` ties the last results to the code and tests that are judged or stored. `RunInv` says that until an answer is sent back the failures
are the models before the one asked. `AuditInv` follows each span from its buffer to its row: open spans hold their context open, what is
taken is written with its outermost span, and the highest visible step above another is a root. `MetricsDrillDown` compares two formulas, the
grouping and the filter of each kind of row, over any table.

**Decisions (`DecisionsProofs`).** `Inv` adds `HoldersLock` (a request between lock and commit is the holder), `PickedStands` (what it picked
stands until it commits) and `HistoriesShaped` (each history has the shape of a log and is no newer than the active version). Every step satisfies
`Writes`: each history stays or grows by a row that may follow, so `Refines`, the refinement of `DecisionLog`, falls out of the same lemmas.
`OneStoryIsTold` says what each query's pick means on a history of that shape. `ReplayInv`: ids of a captured execution are of loads that exist, and its
decisions are its evaluation. `SettlingInv`: no two requests hold one row, and each request (`Flying`) knows of the rows it holds what is in
them; an abort gives rows back as they were. `AgentsInv`: the rows a transaction has written but not committed never share a version or
an active row with another's, which the two unique indexes alone ensure; no order of statements is needed. `WritesInv`: one holder, whose
`before` is what the row holds, and has the etag that its client read.

**Versions (`VersionsProofs`).** `Inv` adds `ReportTrue` (a report says what validation says) and `DraftBased` (a draft based on the active version holds
its norms, but those that one of its own requests dropped). `AdoptNorm` and `PublishPlan` move the active version away under an open draft; `DraftBased` survives because
the draft's base is then old, and only restoring the active version rebases it (`Rebases`):
what that request leaves out counts as dropped. `EffectInv` keeps what a running and a finished validation captured: at most as new as the active
version, and with the impact that holds on it; for a guidance, that it has been tried on a decision.

**Ingestion (`IngestionProofs`).** One running job has one thread only because one server has the lock: `OneServer`, `ThreadsOfServer` (the threads of a server
that is down are off), `JobsOfThreads`. A recovery then finds no thread at work, and takes no job away. With this invariant every step of the queue is a step of the board or a
stutter (`QueueRefinesBoard`). That nobody works on a job that is not running, that what completed can be fetched and that the limit holds is proved
of the board alone, with `Doing` left unopened (`BoardIsOrderly`); the queue inherits it (`QueueKeepsOrder`, and `QueueBounded` from it).
`DeliveredOnce` needs an account of what may
still be paid. `Spent` adds to the accepted requests those that may still be accepted late: together never more than one plus what was forced.
A send keeps this only if nothing beyond the forced ones was spent before it, so `Licensed` says that of every thread that may still send, and
`RefusedMeansUnpaid` of every record that permits a send. Two threads cannot be licensed by one record because only the holder of a lock file is in the
middle of a call (`HoldsLock`), and `FileOfHolder` says what the file says meanwhile.

**Discovery (`DiscoveryProofs`).** An approval is about the plan it stands beside because an open proposal always belongs to the current plan: a new plan supersedes the open ones its request read
without a lock; that it missed none follows from the revision check, since only another plan could have opened one. `Based` ties every published
version to the base its session saw. `PlanInv` (`Original`, `OnePlan`, `Compiled`, `Judged`): the rules of a preview are compiled for their proposals in the context
that is published, or unchanged, and its examples were run on them.

**Rules (`RuleCompilationProofs`).** With the types, each property is kept by every step: a compilation writes its row without the lock of the rule, but it can
only take a row to "draft", and it writes in the draft only where the rule already is.

**Sources (`SourcesProofs`).** `Inv` has `InFlight` for every request (what it has seen is past, only runs hold reads, every live source was tried) and `Sound` for every
captured execution. `FetchInv`: the rows are of the source (`InRange`, `SameSource`) and, at the end, as many as the first page reported (`Counted`), so they are all of it by
cardinality. `StaleInv`: every watched case is flagged, or some detection still finds it (`Covered`), or the last detection was lost.
`WorkbookInv`: what was scanned is a prefix of the book, and each identity that was seen has its row and its conflicts reported (`Scanned`, `Seen`, `Reported`).

**Reading (`ReadingProofs`).** `EvidenceInv`: no reading follows a clean one that kept its key and is the same, and a request that holds the row of the case or the queue of the document
knows what is in it (`Holds`). `IdentifierInv`: what the page, the crops or the judge agreed on is `Backed` by the file or by two models; while
the votes of the page are counted there is no scaled crop, which is the same model as the page it was cut from.
`FieldInv`: every blank page that a reader who is switched on has passed (`PastVision`) was read, or an error or a label was met (`Covered`). `BindingInv`: settings name readers that exist and are local
where they must be (`Fit`), and every kept service is bound from its own key for the deployment of now (`Made`).

*Only model-checked.* The three liveness properties `JobsEnd`, `CallsReturn` and `LeavesCompiling`, which need fairness and ENABLED, beyond the provers
used here. What recursive computations give on all inputs is not claimed: the modules use sets and functions.

## 5. Not modelled

Rendering, recognition, regular expressions, amounts and their arithmetic, prompts and what models answer (any answer is allowed where one is used),
how long a failing provider rests, the cache of results and the deduplication of files, the rate limiter and the conversions of the connector,
the forms of the configuration editor, findings and the report of an audit's impact, the sandbox of compiled rules, sessions of a
conversation that create a process, authentication, users and the catalogue of use cases, the planes of infrastructure, the frontend, process packs and deployment.
`PROJECT.json` "components" says it of each component.

## 6. Plan

1. Proofs: an abstract payment ledger that the journal refines, as `JobStore` refines `JobBoard`; type correctness of the
   parts whose invariants do not already contain it; lemmas on `Chain` shared by both reading parts.
2. Model: the rest of a failing provider with its Retry-After, sessions that create a process, findings of an audit.
3. Composition: runs of `Decisions` whose verdicts are those of `Engine` on the loads of `Sources`, so that alerts, replays and
   decisions share one history.
