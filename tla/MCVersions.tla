----------------------------- MODULE MCVersions -----------------------------
(***************************************************************************)
(* A behaviour is about one of two parts.  The draft: its managers, one    *)
(* setting and one norm; "bad" does not pass validation on the evidence    *)
(* "late".  And the impact of versions on a case, whose data may be as the *)
(* norm rejects them or without the field that a version may require.      *)
(***************************************************************************)
EXTENDS Versions

CONSTANTS Cases, Fields, Kinds, Decisions, Escalate, Concludes(_, _), Lacks(_, _), MaxRows, None

MCPasses(snapshot, e) == ~ ("bad" \in snapshot /\ e = "late")

MCLacks(S, k) == "iban" \in S /\ k = "bare"
MCConcludes(S, k) ==
    IF MCLacks(S, k) THEN "escalate"
    ELSE IF "norm" \in S /\ k = "odd" THEN "reject" ELSE "pay"

VARIABLES part, guidance, data, history, rules, version, captured, validated, findings

Effect == INSTANCE Impact

effect == <<guidance, data, history, rules, version, captured, validated, findings>>

ASSUME PartsAssumption == Effect!ImpactAssumption

\* What the other part does not use: without versions, the line of them has no promise.
NoDrafts ==
    /\ versions = <<>> /\ draft = NoDraft /\ drafts = 0 /\ evidence = None
    /\ view = None /\ prepared = None

NoEffect ==
    /\ guidance = None /\ data = None /\ history = None /\ rules = None /\ version = None
    /\ captured = None /\ validated = None /\ findings = None

MCInit ==
    \/ part = "draft" /\ Init /\ NoEffect
    \/ part = "effect" /\ Effect!Init /\ NoDrafts

MCNext ==
    \/ part = "draft" /\ Next /\ UNCHANGED <<part, effect>>
    \/ part = "effect" /\ Effect!Next /\ UNCHANGED <<part, vars>>

MCSpec == MCInit /\ [][MCNext]_<<part, vars, effect>>

\* An edit or a discard acts on the draft its manager had fetched (Versions).
ActsOnTheDraftItSaw == [][part = "draft" => ActsOnItsDraft]_vars

\* A norm is adopted only while it agrees with what people decided and are asked, and
\* what it overturns is reported (Impact).
AdoptionIsAsShown == [][part = "effect" => Effect!AdoptionIsAsShown]_effect

\* A version leaves open what a person has been asked to answer (Impact).
NoReviewIsOverruled == [][part = "effect" => Effect!NoReviewIsOverruled]_effect
=============================================================================
