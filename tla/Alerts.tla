------------------------------- MODULE Alerts -------------------------------
(***************************************************************************)
(* The detection of stale decisions, alerts/service.py: once new rows or a *)
(* new version are committed, their request decides the past again in dry  *)
(* run, and stores an alert for each decision that would change.  Between  *)
(* its steps - the comparison of loads, the dry run, the look at the       *)
(* latest decisions, the insertion - it holds no lock, and other requests  *)
(* load, publish, resolve and reprocess.  What the engine says of a case   *)
(* is a function of the rows and the version (module Engine).              *)
(***************************************************************************)
EXTENDS Naturals, Sequences

CONSTANTS
    Cases,         \* the decided cases
    Outcomes,      \* the decision types
    Default,       \* the default one: to pay
    Rows,          \* the states of the rows of a source
    Verdicts,      \* what the engine says of a case, by rows and version
    Requests,      \* the requests of the API
    MaxVersions,   \* bound on the published versions
    MaxLoads,      \* bound on the loads of the source
    MaxDecisions   \* bound on the decisions of a case

AlertsAssumption ==
    /\ Default \in Outcomes
    /\ {MaxVersions, MaxLoads, MaxDecisions} \subseteq Nat \ {0}
    /\ Verdicts \in [Cases -> [Rows -> [1 .. MaxVersions -> Outcomes]]]

VARIABLES
    version,   \* the active version
    loads,     \* the rows of each load, the last one is current
    history,   \* the decisions of each case
    alerts,    \* the rows of `alerts`
    request,   \* the detection each request is in
    lost       \* a detection failed, and no dry run for a version has begun since (history variable)

vars == <<version, loads, history, alerts, request, lost>>

-----------------------------------------------------------------------------
Last(s) == s[Len(s)]
Verdict(c) == Verdicts[c][Last(loads)][version]

\* A decision, with what the engine said when it was taken.
DecisionRows == [decision : Outcomes, author : {"engine", "person"}, verdict : Outcomes]

AlertRows ==
    [case : Cases, decision : 1 .. MaxDecisions, before : Outcomes, after : Outcomes,
     trigger : {"source_sync", "rule_change"}, status : {"open", "acknowledged"}]

\* A detection: the changes its dry run found and the decisions they are about.
NoDetection == [stage |-> "idle", trigger |-> "none", flips |-> << >>, latest |-> << >>]

TypeOK ==
    /\ version \in 1 .. MaxVersions
    /\ loads \in Seq(Rows) /\ Len(loads) \in 1 .. MaxLoads
    /\ \A c \in Cases : history[c] \in Seq(DecisionRows) /\ Len(history[c]) \in 1 .. MaxDecisions
    /\ alerts \subseteq AlertRows
    /\ \A r \in Requests :
          /\ request[r].stage \in {"idle", "compare", "dry", "latest", "insert"}
          /\ DOMAIN request[r].flips \subseteq Cases
    /\ lost \in BOOLEAN

\* Every case was decided by a run of the first version.
Init ==
    /\ version = 1
    /\ \E rows \in Rows :
          /\ loads = <<rows>>
          /\ history = [c \in Cases |-> <<[decision |-> Verdicts[c][rows][1], author |-> "engine",
                                           verdict |-> Verdicts[c][rows][1]]>>]
    /\ alerts = {} /\ lost = FALSE
    /\ request = [r \in Requests |-> NoDetection]

-----------------------------------------------------------------------------
(***************************************************************************)
(* The changes that are detected                                           *)
(***************************************************************************)

Detects(r, stage, trigger) ==
    request' = [request EXCEPT ![r] = [NoDetection EXCEPT !.stage = stage, !.trigger = trigger]]

\* A sync looks for changed rows in its own transaction, before it detects.
SyncLands(r, rows) ==
    /\ request[r].stage = "idle" /\ Len(loads) < MaxLoads
    /\ loads' = Append(loads, rows)
    /\ IF rows # Last(loads) THEN Detects(r, "compare", "source_sync") ELSE UNCHANGED request
    /\ UNCHANGED <<version, history, alerts, lost>>

\* A workbook leaves that to the detection.
WorkbookLands(r, rows) ==
    /\ request[r].stage = "idle" /\ Len(loads) < MaxLoads
    /\ loads' = Append(loads, rows)
    /\ Detects(r, "compare", "source_sync")
    /\ UNCHANGED <<version, history, alerts, lost>>

Publish(r) ==
    /\ request[r].stage = "idle" /\ version < MaxVersions
    /\ version' = version + 1
    /\ Detects(r, "dry", "rule_change")
    /\ UNCHANGED <<loads, history, alerts, lost>>

-----------------------------------------------------------------------------
(***************************************************************************)
(* The detection                                                           *)
(***************************************************************************)

\* The last load is compared with the one before it.
Compare(r) ==
    /\ request[r].stage = "compare"
    /\ IF loads[Len(loads) - 1] # Last(loads)
       THEN Detects(r, "dry", request[r].trigger)
       ELSE Detects(r, "idle", "none")
    /\ UNCHANGED <<version, loads, history, alerts, lost>>

\* Mutant: what a person decided is not looked at.
FlipsOfEngine(trigger) ==
    {c \in Cases : /\ Last(history[c]).decision # Verdict(c)
                   /\ Last(history[c]).author = "engine"
                   /\ ~(trigger = "source_sync" /\ Last(history[c]).decision = Default)}

\* The decisions that would change, of either author; new rows behind a decision to
\* pay are expected.
Flips(trigger) ==
    {c \in Cases : /\ Last(history[c]).decision # Verdict(c)
                   /\ ~(trigger = "source_sync" /\ Last(history[c]).decision = Default)}

\* The dry run takes the lock of the process and gives it back with its rollback.
DryRun(r) ==
    /\ request[r].stage = "dry"
    /\ request' = [request EXCEPT ![r] = [@ EXCEPT !.stage = "latest",
           !.flips = [c \in Flips(request[r].trigger) |->
                         [before |-> Last(history[c]).decision, after |-> Verdict(c)]]]]
    /\ lost' = (lost /\ request[r].trigger = "source_sync")
    /\ UNCHANGED <<version, loads, history, alerts>>

ReadLatest(r) ==
    /\ request[r].stage = "latest"
    /\ request' = [request EXCEPT ![r] = [@ EXCEPT !.stage = "insert",
           !.latest = [c \in DOMAIN request[r].flips |-> Len(history[c])]]]
    /\ UNCHANGED <<version, loads, history, alerts, lost>>

NewAlert(r, c) ==
    [case |-> c, decision |-> request[r].latest[c], before |-> request[r].flips[c].before,
     after |-> request[r].flips[c].after, trigger |-> request[r].trigger, status |-> "open"]

SameFlag(a, b) == a.case = b.case /\ a.decision = b.decision /\ a.after = b.after

\* The unique key: a decision is flagged once towards an outcome.
Missing(r) ==
    {c \in DOMAIN request[r].flips :
        \A a \in alerts : ~SameFlag(a, NewAlert(r, c))}

Ends(r) == Detects(r, "idle", "none")

Insert(r) ==
    /\ request[r].stage = "insert"
    /\ alerts' = alerts \union {NewAlert(r, c) : c \in Missing(r)}
    /\ Ends(r)
    /\ UNCHANGED <<version, loads, history, lost>>

\* A detection that fails, or dies with the server, is not tried again.
DetectionFails(r) ==
    /\ request[r].stage # "idle"
    /\ Ends(r) /\ lost' = TRUE
    /\ UNCHANGED <<version, loads, history, alerts>>

-----------------------------------------------------------------------------
(***************************************************************************)
(* What the manager does                                                   *)
(***************************************************************************)

Decided(c, decision, author) ==
    Append(history[c], [decision |-> decision, author |-> author, verdict |-> Verdict(c)])

Resolve(c, decision) ==
    /\ Len(history[c]) < MaxDecisions
    /\ history' = [history EXCEPT ![c] = Decided(c, decision, "person")]
    /\ UNCHANGED <<version, loads, alerts, request, lost>>

\* A reprocess never answers for a person.
Reprocessed ==
    {c \in Cases : Last(history[c]).author = "engine" /\ Last(history[c]).decision # Verdict(c)}

Reprocess ==
    /\ Reprocessed # {}
    /\ \A c \in Reprocessed : Len(history[c]) < MaxDecisions
    /\ history' = [c \in Cases |-> IF c \in Reprocessed THEN Decided(c, Verdict(c), "engine")
                                   ELSE history[c]]
    /\ UNCHANGED <<version, loads, alerts, request, lost>>

Ack(a) ==
    /\ a.status = "open"
    /\ alerts' = (alerts \ {a}) \union {[a EXCEPT !.status = "acknowledged"]}
    /\ UNCHANGED <<version, loads, history, request, lost>>

\* Once acted upon, an alert is neither open nor counted.
Resolved(a) == Len(history[a.case]) > a.decision

-----------------------------------------------------------------------------
Next ==
    \/ \E r \in Requests :
          \/ \E rows \in Rows : SyncLands(r, rows) \/ WorkbookLands(r, rows)
          \/ Publish(r)
          \/ Compare(r) \/ DryRun(r) \/ ReadLatest(r) \/ Insert(r) \/ DetectionFails(r)
    \/ \E c \in Cases, decision \in Outcomes : Resolve(c, decision)
    \/ Reprocess
    \/ \E a \in alerts : Ack(a)

Spec == Init /\ [][Next]_vars

-----------------------------------------------------------------------------
Quiet == \A r \in Requests : request[r].stage = "idle"

\* What the engine says now is not what was decided, nor what it said then.
Stale(c) == Verdict(c) \notin {Last(history[c]).decision, Last(history[c]).verdict}

Flagged(c) ==
    \E a \in alerts : a.case = c /\ a.decision = Len(history[c]) /\ a.after = Verdict(c)

\* Once the detections are over, every decision that the active version would take
\* otherwise is flagged, of whichever author, however publications, resolutions and
\* reprocesses overlapped; a detection that ends makes up for those lost before it.
\* (As long as the rows stay the same.)
RuleChangeIsFlagged ==
    Quiet /\ ~lost /\ Len(loads) = 1 => \A c \in Cases : Stale(c) => Flagged(c)

\* The same of rows that changed, for the decisions other than to pay.  (As long as
\* they changed once: a load that lands before the detection of the load it follows
\* hides what that one changed.)
DataChangeIsFlagged ==
    Quiet /\ ~lost /\ Len(loads) <= 2 =>
        \A c \in Cases : Stale(c) /\ Last(history[c]).decision # Default => Flagged(c)

\* Nothing that would be decided otherwise escapes its manager.
ChangesAreFlagged == TypeOK /\ RuleChangeIsFlagged /\ DataChangeIsFlagged

\* An alert shows the outcome of the decision it flags, which a later one resolves.
AlertIsOfItsDecision ==
    \A a \in alerts : history[a.case][a.decision].decision = a.before
=============================================================================
