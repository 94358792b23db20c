------------------------------ MODULE MCEngine ------------------------------
(***************************************************************************)
(* How a case gets its verdict, how the code behind it came to be, and how *)
(* both are recorded.  A behaviour is about one of five parts: the engine  *)
(* on one case, with three rules over four decision types, two of which    *)
(* share a priority; the compilation of a rule; a run of an agent; a trace *)
(* in the audit; and the metrics over the spans of two processes.          *)
(***************************************************************************)
EXTENDS Engine, TLC

MCPriority == ("pay" :> 0) @@ ("hold" :> 1) @@ ("reject" :> 1) @@ ("escalate" :> 2)

\* Runs of one agent, named or not and for a rule or none, calls of a provider, a sync
\* and a rule: two of the three times are in one hour.
MCProcesses == {"p", "q"}
MCUseCaseOf == ("p" :> "u") @@ ("q" :> "u")

CONSTANTS
    Tests, MaxAttempts, MaxReviews, Local, Hosted, MaxChain, MaxRetries, MaxSpans, Cases,
    MaxDown, LoggedSpans, Processes, UseCaseOf, HourLength, Limit, MaxWritten, None

Blank == [key \in {"rule_id", "norm_rule_id", "model", "role", "agent", "provider",
                   "operation", "source"} |-> None]
SpanOf(step, process, time, data) ==
    [step |-> step, process |-> process, time |-> time, data |-> data @@ Blank]
MCSpans ==
    {SpanOf("llm_run", p, t, [model |-> "m", role |-> "coder", agent |-> a, rule_id |-> x]) :
        p \in {"p", None}, t \in 0 .. 2, a \in {"coder", "judge", None}, x \in {"r", None}}
    \union {SpanOf("provider_call", "p", 1, [provider |-> v, model |-> "m", operation |-> "ocr"]) :
              v \in {"g", None}}
    \union {SpanOf("sync_source", "p", 1, [source |-> "erp"]),
            SpanOf("evaluate_rule", "q", 2, [rule_id |-> "r"])}

Symmetry == Permutations(Rules) \union Permutations(Tests)

VARIABLES
    part,
    stage, written, expected, attempt, rounds, proposal, results, stored,
    chain, confined, phase, at, asked, failed, priced,
    span, rows, taken, table, nextId, up, muted, downs, after, sent,
    events

Compilation == INSTANCE Compiler
Run == INSTANCE AgentRun
Audit == INSTANCE Events
Metrics == INSTANCE Monitoring WITH Null <- None, Spans <- LoggedSpans

compilation == <<stage, written, expected, attempt, rounds, proposal, results, stored>>
run == <<chain, confined, phase, at, asked, failed, priced>>
audit == <<span, rows, taken, table, nextId, up, muted, downs, after, sent>>

ASSUME PartsAssumption ==
    /\ Compilation!CompilerAssumption /\ Run!AgentRunAssumption /\ Audit!EventsAssumption
    /\ Metrics!MonitoringAssumption

\* What the other parts do not use: with no verdict, the engine has promised nothing.
NoCase ==
    /\ decides = None /\ document = None /\ answer = None /\ unavailable = None
    /\ result = None /\ verdict = NoVerdict

NoCompilation ==
    /\ stage = None /\ written = None /\ expected = None /\ attempt = None
    /\ rounds = None /\ proposal = None /\ results = None /\ stored = None

NoRun ==
    /\ chain = None /\ confined = None /\ phase = None /\ at = None
    /\ asked = None /\ failed = None /\ priced = None

NoAudit ==
    /\ span = None /\ rows = None /\ taken = None /\ table = None /\ nextId = None
    /\ up = None /\ muted = None /\ downs = None /\ after = None /\ sent = None

MCInit ==
    \/ part = "case" /\ Init /\ NoCompilation /\ NoRun /\ NoAudit /\ events = None
    \/ part = "compilation" /\ Compilation!Init /\ NoCase /\ NoRun /\ NoAudit /\ events = None
    \/ part = "run" /\ Run!Init /\ NoCase /\ NoCompilation /\ NoAudit /\ events = None
    \/ part = "audit" /\ Audit!Init /\ NoCase /\ NoCompilation /\ NoRun /\ events = None
    \/ part = "metrics" /\ Metrics!Init /\ NoCase /\ NoCompilation /\ NoRun /\ NoAudit

MCNext ==
    \/ part = "case" /\ Next /\ UNCHANGED <<part, compilation, run, audit, events>>
    \/ part = "compilation" /\ Compilation!Next /\ UNCHANGED <<part, vars, run, audit, events>>
    \/ part = "run" /\ Run!Next /\ UNCHANGED <<part, vars, compilation, audit, events>>
    \/ part = "audit" /\ Audit!Next /\ UNCHANGED <<part, vars, compilation, run, events>>
    \/ part = "metrics" /\ Metrics!Next /\ UNCHANGED <<part, vars, compilation, run, audit>>

MCSpec == MCInit /\ [][MCNext]_<<part, vars, compilation, run, audit, events>>

\* The coder cannot bend the tests, and what is reported of them is of those that are
\* stored (Compiler).
OracleStands ==
    /\ [](part = "compilation" => Compilation!ReportIsOfTheTests)
    /\ [][part = "compilation" => Compilation!OnlyFailedTestsChange]_compilation

\* What a run of one request reports is of the model that answered (AgentRun).
FirstRequestIsPriced == part = "run" => Run!FirstRequestIsPriced

\* The audit has the steps of a context together or not at all, and the tree of a trace hides
\* none of them (Events).
TracesAreWhole == part = "audit" => Audit!ContextIsWhole /\ Audit!NothingHidden

\* The list behind a row of the metrics has the spans that the row counted (Monitoring).
DrillDownIsWhole == part = "metrics" => Metrics!DrillDownIsWhole
=============================================================================
