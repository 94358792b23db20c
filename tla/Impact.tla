------------------------------- MODULE Impact -------------------------------
(***************************************************************************)
(* What a change of the rules does to the cases there are, and who is told *)
(* before it is published: the impact of a norm that learning proposes     *)
(* (learning/validation.py, evidence.py), the report on a draft (inspect   *)
(* of versions/service.py) and a reprocess (decisions/service.py).         *)
(*                                                                         *)
(* Module Versions has the same publications with their drafts, approvers  *)
(* and revisions, and takes evidence for a value that changes.  Here it is *)
(* the cases, their data and their decisions.  A configuration is a set of *)
(* norms and required fields; what it concludes of some data, and which    *)
(* data lack a field of it, are constants.  A norm is of one of two kinds: *)
(* rules for the engine, or guidance for the reviewers of its decisions,   *)
(* which the engine does not read.  The validation of a norm captures its  *)
(* evidence, awaits models for minutes and records its report on the       *)
(* capture; all else is one transaction under the process lock.            *)
(***************************************************************************)
EXTENDS Naturals, Sequences

CONSTANTS
    Cases,
    Norms, Fields,   \* what a configuration may contain
    Kinds,           \* what the symbols and loads behind a case may be
    Decisions,       \* the decision types
    Escalate,        \* the one that sends a case to a person
    Concludes(_, _), \* what a configuration concludes of some data
    Lacks(_, _),     \* whether some data lack a field that it requires
    MaxRows,         \* bound on the decisions of a case
    MaxVersions,
    None

\* The proposal that is the draft, beside those of norms.
Draft == "draft"

ImpactAssumption ==
    /\ Draft \notin Norms
    /\ Escalate \in Decisions /\ {MaxRows, MaxVersions} \subseteq Nat
    /\ \A S \in SUBSET (Norms \union Fields), k \in Kinds :
          /\ Concludes(S, k) \in Decisions /\ Lacks(S, k) \in BOOLEAN
          /\ Lacks(S, k) => Concludes(S, k) = Escalate
          /\ \A T \in SUBSET S : Lacks(T, k) => Lacks(S, k)

VARIABLES
    guidance,  \* the norms proposed as guidance
    data,      \* what is behind each case, or None: it has no symbols
    history,   \* the decisions on each case
    rules,     \* the configuration of the active version
    version,   \* its number
    captured,  \* what the running validation of each norm captured, or None
    validated, \* the latest validation of each norm, and of the draft
    findings   \* the decisions that a publication reported as changed

vars == <<guidance, data, history, rules, version, captured, validated, findings>>

-----------------------------------------------------------------------------
Settings == Norms \union Fields

\* A decision: whether it is an escalation for a missing field, and whether a reviewer
\* objects to it and a person is asked.
Rows == [by : {"engine", "person"}, decision : Decisions, missing : BOOLEAN, objected : BOOLEAN]

Evidences == [data : [Cases -> Kinds \union {None}], history : [Cases -> Seq(Rows)]]
Now == [data |-> data, history |-> history]

Captures == [version : 1 .. MaxVersions, seen : Evidences]
\* A validation that succeeded: the latest counts, and one that failed is as none.
Preparations == [rules : SUBSET Settings, version : 1 .. MaxVersions, seen : Evidences]
Prepared(S, v, e, valid) == IF valid THEN [rules |-> S, version |-> v, seen |-> e] ELSE None

TypeOK ==
    /\ guidance \subseteq Norms
    /\ data \in [Cases -> Kinds \union {None}] /\ history \in [Cases -> Seq(Rows)]
    /\ rules \subseteq Settings /\ version \in 1 .. MaxVersions
    /\ \A n \in Norms : captured[n] = None \/ captured[n] \in Captures
    /\ \A p \in Norms \union {Draft} : validated[p] = None \/ validated[p] \in Preparations
    /\ findings \subseteq Cases \X (1 .. MaxRows)

Init ==
    /\ guidance \in SUBSET Norms
    /\ data \in [Cases -> Kinds \union {None}] /\ history = [c \in Cases |-> <<>>]
    /\ rules = {} /\ version = 1
    /\ captured = [n \in Norms |-> None]
    /\ validated = [p \in Norms \union {Draft} |-> None]
    /\ findings = {}

-----------------------------------------------------------------------------
(***************************************************************************)
(* Reports on some evidence                                                *)
(***************************************************************************)

\* The cases that are evaluated: decided, and with symbols.
Selected(e) == {c \in Cases : e.history[c] # <<>> /\ e.data[c] # None}

Latest(h) == h[Len(h)]

\* What the engine decides: no guidance is among its rules.
Verdict(S, k) == Concludes(S \ guidance, k)

\* The engine's last word on a case, or its only decision.
LastWord(h) ==
    LET own == {i \in DOMAIN h : h[i].by = "engine"}
    IN  h[IF own = {} THEN Len(h) ELSE CHOOSE i \in own : \A j \in own : j <= i]

Awaits(r) == r.by = "engine" /\ r.objected

\* Where the configuration would now decide otherwise.
Changed(S, e) == {c \in Selected(e) : Verdict(S, e.data[c]) # Latest(e.history[c]).decision}

\* Mutant: only what awaits a person is in the way.
ConflictsOfReviews(S, e) == {c \in Changed(S, e) : Awaits(Latest(e.history[c]))}

\* impact and reprocess: what a person decided, or is asked to, is in the way.
Conflicts(S, e) ==
    {c \in Changed(S, e) :
        Latest(e.history[c]).by = "person" \/ Awaits(Latest(e.history[c]))}

\* inspect: the cases that lack what was not required before cannot be compared.
NotEvaluable(S, e) == {c \in Selected(e) : Lacks(S \ rules, e.data[c])}

\* Nor may a case lack what already was, unless it was escalated for that.
Broken(S, e) ==
    {c \in Selected(e) : Lacks(S \intersect rules, e.data[c]) /\ ~LastWord(e.history[c]).missing}

\* A resolution blocks no draft: it is reported beside the conflicts.  A review does.
Overruled(S, e) ==
    {c \in Changed(S, e) \ NotEvaluable(S, e) :
        /\ Awaits(Latest(e.history[c]))
        /\ ~(Lacks(S \intersect rules, e.data[c]) /\ LastWord(e.history[c]).missing)}

\* Neither answered by a person nor asked of one.
Settled(S, e) ==
    {c \in Changed(S, e) \ NotEvaluable(S, e) :
        /\ Latest(e.history[c]).by = "engine" /\ ~Awaits(Latest(e.history[c]))
        /\ ~(Lacks(S \intersect rules, e.data[c]) /\ LastWord(e.history[c]).missing)}

-----------------------------------------------------------------------------
(***************************************************************************)
(* Cases                                                                   *)
(***************************************************************************)

Decide(c, r) ==
    /\ Len(history[c]) < MaxRows
    /\ history' = [history EXCEPT ![c] = Append(@, r)]

ByEngine(c, objected) ==
    [by |-> "engine", decision |-> Verdict(rules, data[c]),
     missing |-> Lacks(rules, data[c]), objected |-> objected]

Unchanged == UNCHANGED <<guidance, rules, version, captured, validated, findings>>

\* run: the first decision of the engine on a case, or the next, on another reading.
Run(c) ==
    /\ data[c] # None
    /\ \E objected \in BOOLEAN : Decide(c, ByEngine(c, objected))
    /\ UNCHANGED data /\ Unchanged

\* A person resolves a case, on nothing but his judgment.
Resolve(c) ==
    /\ \E d \in Decisions :
          Decide(c, [by |-> "person", decision |-> d, missing |-> FALSE, objected |-> FALSE])
    /\ UNCHANGED data /\ Unchanged

\* reprocess: what changed and is in nobody's way gets a new decision.
Reprocess ==
    LET again == Changed(rules, Now) \ Conflicts(rules, Now)
    IN  /\ again # {} /\ \A c \in again : Len(history[c]) < MaxRows
        /\ \E objected \in SUBSET again :
              history' = [c \in Cases |->
                  IF c \in again THEN Append(history[c], ByEngine(c, c \in objected))
                  ELSE history[c]]
        /\ UNCHANGED data /\ Unchanged

\* A document is read again, or a source is loaded.
Change(c) ==
    /\ data' \in {[data EXCEPT ![c] = k] : k \in Kinds \ {data[c]}}
    /\ UNCHANGED history /\ Unchanged

-----------------------------------------------------------------------------
(***************************************************************************)
(* Norms and drafts                                                        *)
(***************************************************************************)

\* validate: the evidence is captured at once, and the proposal stays locked.
Capture(n) ==
    /\ n \notin rules /\ captured[n] = None
    /\ captured' = [captured EXCEPT ![n] = [version |-> version, seen |-> Now]]
    /\ UNCHANGED <<guidance, data, history, rules, version, validated, findings>>

\* compare_reviews: the cases of which reviewers show their recommendation with and
\* without a guidance; there are no more than the ten that it takes.
Previewed(e) == {c \in Cases : \E i \in DOMAIN e.history[c] : e.history[c][i].by = "engine"}

\* What must hold of the captured evidence: guidance needs a case to be previewed on, and
\* is held to no conflict; rules overrule nobody.
ImpactHolds(n, e) ==
    IF n \in guidance THEN Previewed(e) # {} ELSE Conflicts(rules \union {n}, e) = {}

\* The models may fail to compile the norm or to review with it.
Record(n) ==
    /\ captured[n] # None
    /\ \E answered \in BOOLEAN :
          validated' = [validated EXCEPT ![n] =
              Prepared(rules \union {n}, captured[n].version, captured[n].seen,
                       answered /\ ImpactHolds(n, captured[n].seen))]
    /\ captured' = [captured EXCEPT ![n] = None]
    /\ UNCHANGED <<guidance, data, history, rules, version, findings>>

\* validate of a draft, under the lock.
Inspect ==
    /\ \E S \in SUBSET Settings :
          validated' = [validated EXCEPT ![Draft] =
              Prepared(S, version, Now, Overruled(S, Now) = {} /\ Broken(S, Now) = {})]
    /\ UNCHANGED <<guidance, data, history, rules, version, captured, findings>>

\* Mutant: only the version is compared.
HoldsForTheVersion(p) == validated[p] # None /\ validated[p].version = version

\* The digest of what was validated is the digest of what there is.
Holds(p) ==
    /\ validated[p] # None
    /\ validated[p].version = version /\ validated[p].seen = Now

PublishSnapshot(S) ==
    /\ version < MaxVersions
    /\ rules' = S /\ version' = version + 1

\* A change of what the engine had decided without a person is a finding.
Reported(changes) ==
    {<<c, Len(history[c])>> : c \in {d \in changes : Latest(history[d]).decision # Escalate}}

\* What the report of a norm's validation lists as changed: that of guidance lists nothing.
Affected(n) ==
    IF n \in guidance THEN {}
    ELSE Changed(rules \union {n}, Now) \ Conflicts(rules \union {n}, Now)

\* approve, unless a validation of the norm is running.
Adopt(n) ==
    /\ n \notin rules /\ captured[n] = None /\ Holds(n)
    /\ PublishSnapshot(rules \union {n})
    /\ findings' = findings \union Reported(Affected(n))
    /\ UNCHANGED <<guidance, data, history, captured, validated>>

Publish ==
    /\ Holds(Draft)
    /\ PublishSnapshot(validated[Draft].rules)
    /\ validated' = [validated EXCEPT ![Draft] = None]
    /\ findings' = findings \union Reported(Settled(validated[Draft].rules, Now))
    /\ UNCHANGED <<guidance, data, history, captured>>

Next ==
    \/ \E c \in Cases : Run(c) \/ Resolve(c) \/ Change(c)
    \/ \E n \in Norms : Capture(n) \/ Record(n) \/ Adopt(n)
    \/ Reprocess \/ Inspect \/ Publish

Spec == Init /\ [][Next]_vars

-----------------------------------------------------------------------------
Adopts == version' # version /\ validated' = validated
AdoptsGuidance == Adopts /\ rules' \ rules \subseteq guidance

\* Rules are adopted only while they agree with everything that people have decided and
\* take nothing from those who are asked to, though they go on deciding while models
\* prepare the norm; and each automatic decision they overturn is a finding.  Guidance is
\* adopted only while there is a past decision of the engine that it was tried on.
AdoptionIsAsShown ==
    /\ Adopts /\ ~AdoptsGuidance =>
          \A c \in Selected(Now) :
              LET r == Latest(history[c])
                  agrees == Verdict(rules', data[c]) = r.decision
              IN  /\ r.by = "person" \/ Awaits(r) => agrees
                  /\ ~agrees /\ r.decision # Escalate => <<c, Len(history[c])>> \in findings'
    /\ AdoptsGuidance => Previewed(Now) # {}

\* A version says nothing else of a case that a person has been asked about and has not
\* answered, unless the case lacks a field that it requires.  A version that adds guidance
\* decides all cases as the one before, which the data of a case may have left behind.
NoReviewIsOverruled ==
    version' # version =>
        \A c \in Selected(Now) :
            Awaits(Latest(history[c])) =>
                \/ Verdict(rules', data[c]) = Latest(history[c]).decision
                \/ Lacks(rules', data[c])
                \/ AdoptsGuidance /\ Verdict(rules', data[c]) = Verdict(rules, data[c])
=============================================================================
