------------------------------- MODULE Engine -------------------------------
(***************************************************************************)
(* The deterministic decision engine, decisions/engine.py: every rule of   *)
(* the published version runs over the case, in a pool of threads, and the *)
(* answers are combined into one verdict.  A rule that reads a source of   *)
(* truth that is down is never run (ADR 0028).                             *)
(*                                                                         *)
(* The code of a rule is data: what the rules of one case would answer on  *)
(* complete sources is chosen in Init and never read by the engine itself, *)
(* only by the answers of the rules it runs.  Names of rules and sources,  *)
(* the text of a reason and the hash of the rule set are left out.         *)
(***************************************************************************)
EXTENDS Naturals, FiniteSets

CONSTANTS
    Rules,          \* the rules of the published version
    DecisionTypes,  \* what the process can conclude
    Priority,       \* the priority of each decision type
    Default,        \* the type that applies when no rule fires
    Escalate,       \* the type that sends the case to a person
    Required        \* the symbols a case needs before any rule counts

\* The loader's guarantees that the engine leans on (definition.py): a default
\* and a human type, never the same, and a table of types with a last priority.
ASSUME EngineAssumption ==
    /\ Priority \in [DecisionTypes -> Nat]
    /\ {Default, Escalate} \subseteq DecisionTypes
    /\ Default # Escalate
    /\ \E t \in DecisionTypes : \A u \in DecisionTypes : Priority[u] <= Priority[t]

(***************************************************************************)
(* A rule's answer.  "failed" stands for RULE_ERROR, RULE_NEEDS_DATA and   *)
(* RULE_COMPILE_FAILED; "down" for SOURCE_UNAVAILABLE, a rule that was not *)
(* run; "unrun" is a rule whose thread has not finished.                   *)
(***************************************************************************)
Answers == {"fires", "silent", "failed"}
Results == Answers \union {"down"}

Documents == [missing : SUBSET Required, scanned : BOOLEAN,
              unconfirmed : SUBSET Required]

Causes == {"MISSING_DATA", "UNVERIFIED_DATA", "RULE_FAILURE",
           "SOURCE_UNAVAILABLE", "NONE_FIRED", "RULE_CONFLICT",
           "SCAN_REVIEW", "RULES"}

Verdicts == [decision : DecisionTypes, cause : Causes]

NoVerdict == [decision |-> Escalate, cause |-> "PENDING"]

VARIABLES
    decides,      \* the decision type each rule concludes when it fires
    document,     \* what the reading of the case's document left
    answer,       \* what each rule's code answers when it is run
    unavailable,  \* the rules that read a source that is down
    result,       \* what each rule returned so far
    verdict       \* the verdict, once the results are combined

vars == <<decides, document, answer, unavailable, result, verdict>>

-----------------------------------------------------------------------------
Returned(res, what) == {r \in Rules : res[r] = what}

\* The fired rules no fired rule outranks, and the types they conclude.
Winners(d, res) ==
    {r \in Returned(res, "fires") :
        \A q \in Returned(res, "fires") : Priority[d[q]] <= Priority[d[r]]}

Top(d, res) == {d[r] : r \in Winners(d, res)}

\* Mutant: forgets that an unrun rule may tie the winners with another type.
StillDecidedOnTies(d, res) ==
    /\ Winners(d, res) # {}
    /\ \A u \in Returned(res, "down"), w \in Winners(d, res) :
          Priority[d[u]] <= Priority[d[w]]

\* No rule that was not run could outrank the rules that fired, nor tie them
\* with another type.
StillDecided(d, res) ==
    /\ Winners(d, res) # {}
    /\ \A u \in Returned(res, "down"), w \in Winners(d, res) :
          \/ Priority[d[u]] < Priority[d[w]]
          \/ Priority[d[u]] = Priority[d[w]] /\ Top(d, res) = {d[u]}

Escalation(cause) == [decision |-> Escalate, cause |-> cause]

\* _combine once no rule failed and the unrun rules cannot matter.
RulesVerdict(d, res, doc) ==
    LET type == CHOOSE t \in Top(d, res) : TRUE
    IN  IF Returned(res, "fires") = {}
          THEN [decision |-> Default, cause |-> "NONE_FIRED"]
        ELSE IF \E t \in Top(d, res) : t # type
          THEN Escalation("RULE_CONFLICT")
        ELSE IF doc.scanned /\ type \notin {Default, Escalate}
          THEN Escalation("SCAN_REVIEW")
        ELSE [decision |-> type, cause |-> "RULES"]

Combine(d, res, doc) ==
    IF doc.missing # {} THEN Escalation("MISSING_DATA")
    ELSE IF doc.scanned /\ doc.unconfirmed # {}
      THEN Escalation("UNVERIFIED_DATA")
    ELSE IF Returned(res, "failed") # {} THEN Escalation("RULE_FAILURE")
    ELSE IF Returned(res, "down") # {} /\ ~StillDecided(d, res)
      THEN Escalation("SOURCE_UNAVAILABLE")
    ELSE RulesVerdict(d, res, doc)

-----------------------------------------------------------------------------
TypeOK ==
    /\ decides \in [Rules -> DecisionTypes]
    /\ document \in Documents
    /\ answer \in [Rules -> Answers]
    /\ unavailable \subseteq Rules
    /\ result \in [Rules -> Results \union {"unrun"}]
    /\ verdict \in Verdicts \union {NoVerdict}

Init ==
    /\ decides \in [Rules -> DecisionTypes]
    /\ document \in Documents
    /\ answer \in [Rules -> Answers]
    /\ unavailable \in SUBSET Rules
    /\ result = [r \in Rules |-> "unrun"]
    /\ verdict = NoVerdict

\* One thread of the pool finishes a rule; `down` is checked before its code.
RunRule(r) ==
    /\ result[r] = "unrun"
    /\ result' = [result EXCEPT ![r] = IF r \in unavailable THEN "down"
                                       ELSE answer[r]]
    /\ UNCHANGED <<decides, document, answer, unavailable, verdict>>

\* Every future has returned: the verdict.
Decide ==
    /\ verdict = NoVerdict
    /\ \A r \in Rules : result[r] # "unrun"
    /\ verdict' = Combine(decides, result, document)
    /\ UNCHANGED <<decides, document, answer, unavailable, result>>

Next == Decide \/ \E r \in Rules : RunRule(r)

Spec == Init /\ [][Next]_vars

-----------------------------------------------------------------------------
(***************************************************************************)
(* Properties                                                              *)
(***************************************************************************)

\* What the rules would have concluded had the source been up: the rules that
\* were not run answer `filled`, the others what they answered.
Completed(filled) ==
    [r \in Rules |-> IF r \in unavailable THEN filled[r] ELSE result[r]]

\* ADR 0028, the guarantee of _combine's SOURCE_UNAVAILABLE branch: whatever
\* the rules that could not run would have answered, the case is decided as
\* with every source up, or it goes to a person.  An outage never changes an
\* automatic outcome.
OutageNeverChangesTheOutcome ==
    verdict # NoVerdict =>
        \A filled \in [Rules -> {"fires", "silent"}] :
            verdict.decision \in
                {Escalate, Combine(decides, Completed(filled), document).decision}

\* ADR B (when in doubt, escalate): without a rule that concludes it, the
\* default (in the invoice process, paying) needs a complete, confirmed reading
\* and every rule run and silent.
DefaultNeedsAllEvidence ==
    verdict # NoVerdict /\ verdict.decision = Default =>
        /\ document.missing = {}
        /\ document.scanned => document.unconfirmed = {}
        /\ Returned(result, "failed") = {}
        /\ \/ \A r \in Rules : answer[r] = "silent" /\ r \notin unavailable
           \/ \E r \in Rules \ unavailable :
                answer[r] = "fires" /\ decides[r] = Default

\* A rule that fired is never outvoted: the outcome is a person's, or ranks at
\* least as high as every rule that fired.
FiredRuleNeverOutvoted ==
    verdict # NoVerdict /\ verdict.decision # Escalate =>
        \A r \in Returned(result, "fires") :
            Priority[decides[r]] <= Priority[verdict.decision]

\* ADR 0025: a document read from a scan is never rejected automatically, a
\* mismatch on OCR data may be a misreading.
ScanNeverRejected ==
    verdict # NoVerdict /\ document.scanned =>
        verdict.decision \in {Default, Escalate}
=============================================================================
