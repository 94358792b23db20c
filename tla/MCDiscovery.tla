---------------------------- MODULE MCDiscovery ----------------------------
(***************************************************************************)
(* Conversations.  A behaviour is about one of two parts: the revisions of *)
(* one session on a process, with two requests, and what its inputs may    *)
(* hold; or the compilation of its plan and what is published of it.       *)
(***************************************************************************)
EXTENDS Discovery, TLC

CONSTANTS
    Symbols, DecisionTypes, Priority, Default, Escalate, Contexts, Tables, Proposals, Existing,
    Examples, MaxChecks, MaxChanges, None

\* Nothing requires what the first context does not know; the second asks for an account; the
\* third would read it from the whole transcript, by a label.
MCContexts ==
    LET plain == [symbols |-> {"order"}, required |-> {}, reviewed |-> FALSE, transcripts |-> {}]
        asks  == [plain EXCEPT !.symbols = {"order", "account"}, !.required = {"account"},
                               !.reviewed = TRUE]
    IN  {plain, asks, [asks EXCEPT !.transcripts = {[text |-> TRUE, labelled |-> TRUE]}]}

MCPriority == [t \in {"pay", "reject", "review"} |->
                  CASE t = "pay" -> 0 [] t = "reject" -> 1 [] t = "review" -> 2]

\* The rule of the process, two edits of it, and a rule more.
MCExisting == [name |-> "rule-1", text |-> "old", decision |-> "reject"]
MCProposals ==
    {MCExisting, [MCExisting EXCEPT !.decision = "review"], [MCExisting EXCEPT !.text = "new"]}
    \union {[name |-> "added", text |-> "more", decision |-> d] : d \in {"pay", "reject"}}

MCExamples == {[lacks |-> {}, expects |-> "reject"], [lacks |-> {}, expects |-> "review"],
               [lacks |-> {"account"}, expects |-> "review"]}

VARIABLES part, version, loads, row, found, plan, accepted, preview, result, changes

Plan == INSTANCE PlanCompilation WITH
    base <- found, published <- result

ASSUME PartsAssumption == Plan!PlanCompilationAssumption

planOnly == <<version, loads, row, found, plan, accepted, preview, result, changes>>

NoPlan ==
    /\ version = None /\ loads = None /\ row = None /\ found = None /\ plan = None
    /\ accepted = None /\ preview = None /\ result = None /\ changes = None

MCInit ==
    \/ part = "session" /\ Init /\ NoPlan
    \/ part = "plan" /\ Plan!Init /\ Init

MCNext ==
    \/ part = "session" /\ Next /\ UNCHANGED <<part, planOnly>>
    \/ part = "plan" /\ Plan!Next /\ UNCHANGED <<part, vars>>

MCSpec == MCInit /\ [][MCNext]_<<part, vars, planOnly>>

Symmetry == Permutations(Requests) \union Permutations(Evidence)

\* A version has the rules, outcomes and examples that were accepted (PlanCompilation).
PublishedIsReviewed == part = "plan" => Plan!PublishedIsReviewed
============================================================================
