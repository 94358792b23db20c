------------------------------ MODULE CaseViews ------------------------------
(* What people are shown of the cases: the queue, the lists and numbers of a
   process (decisions/service.py), its metrics and the journey of a case
   (traces/service.py).  Each computes from the history of the cases, in its own
   words, what the export computes too. *)
EXTENDS Decisions, FiniteSets

CONSTANTS
    HumanTypes,  \* of each version, the decision types that a person settles
    NoFilter     \* every type, every status

ASSUME CaseViewsAssumption ==
    /\ IsFiniteSet(Instances)
    /\ HumanTypes \in [Versions -> SUBSET DecisionTypes]
    /\ NoFilter \notin DecisionTypes \union Statuses

(* latest_decisions: the cases that have one. *)
Judged == {i \in Present : history[i] # <<>>}

(* A person has to look at it: its type in its own version asks for one, or the
   reviewer questioned it. *)
AsksPerson(row) == row.decision \in HumanTypes[row.version] \/ row.review = "human"

(* An explicit type filters the outcome and leaves the reviews out. *)
Queue(type) ==
    {i \in Judged : IF type = NoFilter THEN AsksPerson(Latest(history[i]))
                    ELSE Latest(history[i]).decision = type}

Listed(s, type) ==
    {i \in Present :
        /\ s = NoFilter \/ status[i] = s
        /\ type = NoFilter \/ (i \in Judged /\ Latest(history[i]).decision = type)}

(* summary: the numbers of the process page. *)
Summary ==
    [instances |-> Cardinality(Present),
     by_status |-> [s \in Statuses \ {"ABSENT"} |-> Cardinality({i \in Present : status[i] = s})],
     by_decision |-> [d \in DecisionTypes |->
                        Cardinality({i \in Judged : Latest(history[i]).decision = d})],
     queue |-> Cardinality({i \in Judged : AsksPerson(Latest(history[i]))}),
     resolved |-> Cardinality({i \in Judged : Latest(history[i]).author = "person"})]

(* _outcomes: the same numbers on the metrics, of the rows with the highest id. *)
Outcomes ==
    [by_outcome |-> [d \in DecisionTypes |->
                       Cardinality({i \in Instances : \E n \in DOMAIN history[i] :
                           n = Len(history[i]) /\ history[i][n].decision = d})],
     escalated |-> Cardinality(Queue(NoFilter)),
     pending |-> Cardinality({i \in Present : status[i] = "PENDING"})]

\* Mutant: the journey names the latest decision, whoever took it.
ShownLatest(i) == IF status[i] = "PENDING" THEN 0 ELSE Len(history[i])

(* instance_trace: the decision that the journey of a case says is exported, by
   its place in the history, 0 for none. *)
Shown(i) ==
    LET h == history[i]
        automatic == LatestBy(h, "engine")
        human == LatestBy(h, "person")
    IN  IF status[i] = "PENDING" THEN 0
        ELSE IF automatic = 0 THEN human
        ELSE IF h[automatic].review = "none" THEN automatic
        ELSE IF human > automatic THEN human
        ELSE IF h[automatic].review = "human" THEN 0
        ELSE automatic

-----------------------------------------------------------------------------
(* What the export would write for the case by itself, 0 if it would refuse. *)
Delivery(i) ==
    IF status[i] = "PENDING" \/ Awaiting(history[i]) THEN 0 ELSE Exported(history[i])

(* The journey of a case shows the decision that the export delivers for it, and
   none exactly while the export refuses. *)
ShownAsExported == \A i \in Present : Shown(i) = Delivery(i)

(* Whoever the export waits for is in the queue that people work on, though the
   one asks for the engine's last decision and the other for the last of all. *)
AwaitedIsQueued ==
    \A i \in Present : Awaiting(history[i]) => i \in Queue(NoFilter)

(* The process page, the lists and the metrics count the same, and every case
   once: as pending or by its outcome. *)
NumbersAgree ==
    /\ Summary.queue = Outcomes.escalated
    /\ Summary.by_decision = Outcomes.by_outcome
    /\ Summary.by_status["PENDING"] = Outcomes.pending
    /\ Summary.instances = Outcomes.pending + Cardinality(Judged)
    /\ \A d \in DecisionTypes : Cardinality(Listed(NoFilter, d)) = Outcomes.by_outcome[d]

(* One story is told of the cases wherever people look, and it is the one that is
   delivered. *)
ViewsAgree == ShownAsExported /\ AwaitedIsQueued /\ NumbersAgree
=============================================================================
