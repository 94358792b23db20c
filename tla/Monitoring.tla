----------------------------- MODULE Monitoring -----------------------------
(* The metrics of the monitoring planes and the lists of spans behind them
   (traces/service.py).  Each row of an aggregate - a step, an agent, a model, a
   provider call, an hour - carries a link to the list of spans it counted.  The
   row groups the table in one way, the list filters it in another. *)
EXTENDS Naturals, Sequences, FiniteSets

CONSTANTS
    Spans,      \* the spans that may be written
    Processes,
    UseCaseOf,  \* process |-> its use case
    HourLength, \* times in an hour
    Limit,      \* the spans of a list
    MaxWritten, \* bound: spans in the table
    Null        \* a column or a key of `data` without a value

Keys == {"rule_id", "norm_rule_id", "model", "role", "agent", "provider", "operation", "source"}

MonitoringAssumption ==
    /\ HourLength \in Nat \ {0} /\ Limit \in Nat \ {0}
    /\ UseCaseOf \in [Processes -> STRING]
    /\ \A e \in Spans :
          /\ e.process \in Processes \union {Null}
          /\ e.time \in Nat
          /\ Keys \subseteq DOMAIN e.data

VARIABLE events  \* the table `events`, in id order

Times == {e.time : e \in Spans}

MonitoringTypeOK == events \in Seq(Spans)

Init == events = << >>

(* What a service records (core/events.py). *)
Write(e) ==
    /\ Len(events) < MaxWritten
    /\ events' = Append(events, e)

-----------------------------------------------------------------------------
(* An agent without a name goes by its role. *)
AgentOf(e) == IF e.data["agent"] # Null THEN e.data["agent"] ELSE e.data["role"]

\* Mutant: a list by agent looks at the name as it is stored.
FilteredAsStored(e, key) == e.data[key]

(* What a filter of a list looks at. *)
Filtered(e, key) == IF key = "agent" THEN AgentOf(e) ELSE e.data[key]

(* list_spans: every filter given narrows the list, and of what is left the
   newest are shown. *)
Meets(e, key, value) ==
    CASE key = "process_id" -> e.process = value
      [] key = "since" -> e.time >= value
      [] key = "until" -> e.time < value
      [] key = "name" -> e.step = value
      [] key = "use_case_id" -> e.process # Null /\ UseCaseOf[e.process] = value
      [] OTHER -> Filtered(e, key) = value

Newest(ids) == {i \in ids : Cardinality({j \in ids : j > i}) < Limit}

List(query) ==
    Newest({i \in DOMAIN events : \A key \in DOMAIN query : Meets(events[i], key, query[key])})

-----------------------------------------------------------------------------
(* The metrics of one process or of all, from some time on. *)
Scopes == [process_id : Processes \union {Null}, since : Times \union {Null}]

InScope(scope) ==
    {i \in DOMAIN events :
        /\ scope.process_id # Null => events[i].process = scope.process_id
        /\ scope.since # Null => events[i].time >= scope.since}

OfStep(scope, step) == {i \in InScope(scope) : events[i].step = step}

(* _link: the step, the row's filters and the scope's own; none when the row has
   no value in one of its keys, which no filter selects. *)
Link(scope, step, filters) ==
    IF \E key \in DOMAIN filters : filters[key] = Null THEN Null
    ELSE [key \in {"name"} \union DOMAIN filters \union {k \in DOMAIN scope : scope[k] # Null} |->
            IF key = "name" THEN step
            ELSE IF key \in DOMAIN filters THEN filters[key] ELSE scope[key]]

(* GROUP BY: the spans of one step by a key of theirs, each with the list that
   its key links to. *)
RowsBy(scope, step, Key(_), Filters(_)) ==
    LET ids == OfStep(scope, step)
    IN  {[counted |-> {j \in ids : Key(events[j]) = Key(events[i])},
          link |-> Link(scope, step, Filters(Key(events[i])))] : i \in ids}

Grouped(scope, step, keys) ==
    LET Key(e) == [key \in keys |-> e.data[key]]
        Filters(values) == values
    IN  RowsBy(scope, step, Key, Filters)

StepRows(scope) ==
    UNION {Grouped(scope, events[i].step, {}) : i \in InScope(scope)}

NamedAgentRows(scope) ==
    LET Filters(agent) == [agent |-> agent]
    IN  RowsBy(scope, "llm_run", AgentOf, Filters)

UseCaseRows(scope) ==
    LET UseCase(e) == IF e.process = Null THEN Null ELSE UseCaseOf[e.process]
        Filters(useCase) == [use_case_id |-> useCase]
    IN  RowsBy(scope, "llm_run", UseCase, Filters)

(* An hour begins where it does on the clock; the first one of the scope may
   have begun before it, and its list begins where the scope does. *)
HourRows(scope) ==
    LET Hour(e) == (e.time \div HourLength) * HourLength
        Since(h) == IF scope.since # Null /\ scope.since > h THEN scope.since ELSE h
        Filters(h) == [since |-> Since(h), until |-> h + HourLength]
    IN  RowsBy(scope, "llm_run", Hour, Filters)

LlmRows(scope) == Grouped(scope, "llm_run", {"model", "role"})

ProviderRows(scope) == Grouped(scope, "provider_call", {"provider", "model", "operation"})

SourceRows(scope) == Grouped(scope, "sync_source", {"source"})

(* Agents: their total, and by model, agent, rule, norm, use case and hour. *)
AgentRows(scope) ==
    LlmRows(scope) \union NamedAgentRows(scope) \union UseCaseRows(scope) \union
    HourRows(scope) \union
    UNION {Grouped(scope, "llm_run", keys) :
              keys \in {{}, {"model"}, {"rule_id"}, {"norm_rule_id"}}}

RuleRows(scope) == Grouped(scope, "evaluate_rule", {"rule_id"})

Rows(scope) ==
    StepRows(scope) \union ProviderRows(scope) \union SourceRows(scope) \union
    AgentRows(scope) \union RuleRows(scope)

Next == \E e \in Spans : Write(e)

Spec == Init /\ [][Next]_events

-----------------------------------------------------------------------------
(* A drill-down lists exactly the spans its row counted, or the newest of them:
   whoever opens the runs of an agent, an hour or a use case sees those runs, of
   the metrics' process and time and no others (_link, list_spans). *)
DrillDownIsWhole ==
    \A scope \in Scopes : \A row \in Rows(scope) :
        row.link # Null => List(row.link) = Newest(row.counted)

=============================================================================
