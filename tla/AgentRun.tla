------------------------------ MODULE AgentRun ------------------------------
(***************************************************************************)
(* One run of an agent, agents/llm.py: each request goes down the chain of *)
(* models of the role until one answers whole (ADR 0019), the validators   *)
(* send a malformed answer back in a new request, and the run is recorded  *)
(* with the model that answered, the failures before it and a price.       *)
(* Prompts, tokens and the output itself are left out.                     *)
(***************************************************************************)
EXTENDS Naturals, Sequences

CONSTANTS
    Local,       \* the models of the deployment's own server
    Hosted,      \* the others
    MaxChain,    \* models of a chain
    MaxRetries,  \* malformed answers sent back, as the role's limits allow
    None

Models == Local \union Hosted

AgentRunAssumption ==
    /\ Local \intersect Hosted = {} /\ None \notin Models
    /\ {MaxChain, MaxRetries} \subseteq Nat

Chains == {c \in UNION {[1 .. n -> Models] : n \in 1 .. MaxChain} :
              \A i, j \in DOMAIN c : c[i] = c[j] => i = j}

VARIABLES
    chain,     \* the model of the role and its fallbacks, in order
    confined,  \* local_only: the execution may call no hosted model
    phase,     \* "new", "asking", or how the run ended
    at,        \* the model that is being asked
    asked,     \* requests begun
    failed,    \* the failed attempts, as the trace lists them
    priced     \* the model the run is priced as, or None: unknown

vars == <<chain, confined, phase, at, asked, failed, priced>>

TypeOK ==
    /\ chain \in Chains /\ confined \in BOOLEAN
    /\ phase \in {"new", "asking", "answered", "every model failed", "invalid", "refused"}
    /\ at \in DOMAIN chain /\ asked \in 0 .. MaxRetries + 1
    /\ failed \in Seq(Models) /\ priced \in Models \union {None}

Init ==
    /\ chain \in Chains /\ confined \in BOOLEAN
    /\ phase = "new" /\ at = 1 /\ asked = 0 /\ failed = <<>> /\ priced = None

-----------------------------------------------------------------------------
\* A local execution runs only if every model it might fall back on is local.
Allowed == ~confined \/ \A i \in DOMAIN chain : chain[i] \in Local

\* A request, from the first model on.
Ask ==
    /\ phase = "new"
    /\ phase' = IF Allowed THEN "asking" ELSE "refused"
    /\ asked' = IF Allowed THEN 1 ELSE 0
    /\ UNCHANGED <<chain, confined, at, failed, priced>>

\* Mutant: an answer that was cut is tried elsewhere, and not listed.
FailedQuietly == failed

\* on_failure and truncated: each failed attempt is listed.
Failed == Append(failed, chain[at])

\* The provider fails, or the answer is cut: the next model, or none is left.
Fall ==
    /\ phase = "asking"
    /\ failed' = Failed
    /\ IF at = Len(chain) THEN phase' = "every model failed" /\ at' = at
                          ELSE phase' = phase /\ at' = at + 1
    /\ UNCHANGED <<chain, confined, asked, priced>>

\* The validators send the answer back: a new request, down the whole chain again.
SendBack ==
    /\ phase = "asking"
    /\ IF asked <= MaxRetries THEN asked' = asked + 1 /\ at' = 1 /\ phase' = phase
                              ELSE asked' = asked /\ at' = at /\ phase' = "invalid"
    /\ UNCHANGED <<chain, confined, failed, priced>>

\* _price: each entry of `failed` moved one model on.
Priced == IF Len(failed) < Len(chain) THEN chain[Len(failed) + 1] ELSE None

Answer ==
    /\ phase = "asking"
    /\ phase' = "answered" /\ priced' = Priced
    /\ UNCHANGED <<chain, confined, at, asked, failed>>

Next == Ask \/ Fall \/ SendBack \/ Answer

Spec == Init /\ [][Next]_vars

-----------------------------------------------------------------------------
\* A run whose first request is answered is priced as the model that answered it, and
\* its trace lists the models before that one, in order.
FirstRequestIsPriced ==
    phase = "answered" /\ asked = 1 =>
        /\ priced = chain[at]
        /\ failed = SubSeq(chain, 1, at - 1)

\* "The cost of a run, priced ... for the model of the chain that answered (each entry
\* of `failed` moved one model on)": also of a run that was sent back.
PricedAsAnswered == phase = "answered" => priced = chain[at]
=============================================================================
