-------------------------- MODULE PlanCompilation --------------------------
(***************************************************************************)
(* From the plan of a conversation to a version of an existing process     *)
(* (processes/draft_compilation.py and the end of processes/drafts.py).    *)
(* Discovery follows the revisions of a conversation and treats plans as   *)
(* data; here one conversation edits one plan, and what counts is what the *)
(* published rules are: normalised and compiled for a proposal, or kept    *)
(* from the version before, run over the acceptance examples with the      *)
(* engine, and published later, from the rows of the database.             *)
(*                                                                         *)
(* The answers of the agents and of the compiled rules are choices.  The   *)
(* effect on past decisions is that of Impact: a choice here.              *)
(***************************************************************************)
EXTENDS Naturals, FiniteSets

CONSTANTS
    Symbols,
    DecisionTypes, Priority, Default, Escalate,
    Contexts,    \* description, symbols and outcomes: what is required of the Symbols, whether
                 \* decisions are reviewed, and the symbols read from the whole transcript
    Tables,      \* what the sources of truth may hold
    Proposals,   \* the rules a plan may propose: name, text and decision
    Existing,    \* the one that the process starts with
    Examples,    \* acceptance examples: the symbols they lack, what they expect
    MaxChecks,   \* bound: the checks the normalizer makes of a proposal
    MaxChanges,  \* bound: revisions of the plan, loads and recompilations
    None

\* A plan names its proposals once.
Selections == {p \in SUBSET Proposals : \A q, r \in p : q.name = r.name => q = r}

Plans ==
    {[context |-> c, tables |-> t, rules |-> s, examples |-> e] :
        c \in Contexts, t \in Tables, s \in Selections, e \in SUBSET Examples}

PlanCompilationAssumption ==
    /\ Existing \in Proposals
    /\ \A p \in Proposals :
          /\ p = [name |-> p.name, text |-> p.text, decision |-> p.decision]
          /\ p.decision \in DecisionTypes
    /\ \A e \in Examples : e.lacks \subseteq Symbols /\ e.expects \in DecisionTypes
    /\ \A c \in Contexts :
          /\ c.required \subseteq c.symbols /\ c.symbols \subseteq Symbols
          /\ c.reviewed \in BOOLEAN
          /\ \A t \in c.transcripts : {t.text, t.labelled} \subseteq BOOLEAN
    /\ None \notin Plans
    /\ MaxChecks \in Nat \ {0} /\ MaxChanges \in Nat

VARIABLES
    version,    \* the published one: context and rules
    loads,      \* the current rows of its sources
    row,        \* the row of the existing rule, which a recompilation changes
    base,       \* version and loads as the conversation found them
    plan,       \* context, tables, rules and examples
    accepted,   \* every proposal of the plan has been accepted
    preview,    \* the compilations and whether they are valid, None before
    published,  \* the plan that was published, None before
    changes     \* so far

planVars == <<version, loads, row, base, plan, accepted, preview, published, changes>>

Names == {p.name : p \in Proposals}
Slots == Names \X (1 .. MaxChecks)

\* The engine runs the compiled rules: the slots that are not used stay silent.
Engine == INSTANCE Engine WITH
    Rules <- Slots, Required <- Symbols, decides <- None, document <- None, answer <- None,
    unavailable <- None, result <- None, verdict <- None

-----------------------------------------------------------------------------
(***************************************************************************)
(* Compiling a plan                                                        *)
(***************************************************************************)

\* What the normalizer makes of one sentence: its own decision, from a quote or by policy.
Checks == [decision : DecisionTypes, source : {"explicit", "policy"}, kind : {"violation", "doubt"}]

\* _consistent: a doubt without a quote goes to a person, a violation to the policy of the
\* use case when there is one.  compile_plan takes it out: the manager has chosen.
Consistent(check, policy) ==
    [check EXCEPT !.decision =
        IF check.source = "policy" /\ check.kind = "doubt" THEN Escalate
        ELSE IF check.source = "policy" /\ policy # None THEN policy ELSE @]

\* What the text of a check may conclude: the outcome that the manager has approved.
Conclusions(proposal) ==
    ({Consistent(c, None).decision : c \in Checks} \ {Default}) \intersect {proposal.decision}

\* A compiled rule, with the decision that its text names (history variable).
Rule(slot, proposal, conclusion, context, tables) ==
    [slot |-> slot, text |-> proposal.text, decision |-> proposal.decision,
     concludes |-> conclusion, context |-> context, tables |-> tables,
     kept |-> FALSE, build |-> 0]

\* Mutant: a published rule is kept whatever it is compiled for.
KeptAnyway(proposal) ==
    {r \in base.rules : r.slot[1] = proposal.name /\ r.text = proposal.text
                        /\ r.decision = proposal.decision}

\* compile_plan: an unchanged rule of the published version is kept when its context and
\* the sources have not changed either.
Kept(proposal) ==
    {r \in base.rules : r.slot[1] = proposal.name /\ r.text = proposal.text
                        /\ r.decision = proposal.decision
                        /\ plan.context = base.context /\ plan.tables = base.loads}

\* The rules made of a proposal, for the answers of the normalizer and of the compiler.
Compilations(proposal) ==
    IF Kept(proposal) # {} THEN {{[r EXCEPT !.kept = TRUE] : r \in Kept(proposal)}}
    ELSE UNION {{{Rule(<<proposal.name, i>>, proposal, read[i], plan.context, plan.tables)
                     : i \in 1 .. n} : read \in [1 .. n -> Conclusions(proposal)]}
                 : n \in 1 .. MaxChecks}

\* compile_plan: one proposal after the other.
RuleSets == {UNION {f[p] : p \in plan.rules} :
                f \in {g \in [plan.rules -> UNION {Compilations(p) : p \in plan.rules}] :
                          \A p \in plan.rules : g[p] \in Compilations(p)}}

-----------------------------------------------------------------------------
(***************************************************************************)
(* The examples                                                            *)
(***************************************************************************)

Missing(example, context) == example.lacks \intersect context.required

\* How the code of the rules answers one example.
Answers(rules) == [{r.slot : r \in rules} -> Engine!Answers]

\* decide: the verdict of the rules on an example.
Verdict(rules, context, example, answers) ==
    LET used == DOMAIN answers
        d == [s \in Slots |-> IF s \in used THEN (CHOOSE r \in rules : r.slot = s).decision ELSE Default]
        res == [s \in Slots |-> IF s \in used THEN answers[s] ELSE "silent"]
    IN  Engine!Combine(d, res, [missing |-> Missing(example, context), scanned |-> FALSE,
                                unconfirmed |-> {}])

\* preview: the outcome expected, and not because a rule has failed or two disagree.
Passed(verdict, example) ==
    verdict.decision = example.expects /\ verdict.cause \notin {"RULE_FAILURE", "RULE_CONFLICT"}

NewlyRequired(context) == context.required \ base.context.symbols

\* _check_schema_examples: a new required symbol is shown present, and absent on its own.
Exercised(context, examples) ==
    \A s \in NewlyRequired(context) :
        /\ \E e \in examples : Missing(e, context) = {}
        /\ \E e \in examples : Missing(e, context) = {s}

\* inspect: the examples once more when a symbol is newly required.  A rule that reads it
\* where it is absent is excused, and fails for no other reason.
Inspected(example, failed) ==
    NewlyRequired(plan.context) # {} /\ failed =>
        example.lacks \intersect NewlyRequired(plan.context) # {}

\* Some answers of the rules pass the example, with a rule that failed or without.
Passes(rules, example, failed) ==
    /\ Inspected(example, failed)
    /\ \E a \in Answers(rules) :
          /\ failed = \E s \in DOMAIN a : a[s] = "failed"
          /\ Passed(Verdict(rules, plan.context, example, a), example)

Passing(rules) == {x \in plan.examples \X BOOLEAN : Passes(rules, x[1], x[2])}

-----------------------------------------------------------------------------
(***************************************************************************)
(* The conversation                                                        *)
(***************************************************************************)

First(context, tables) == Rule(<<Existing.name, 1>>, Existing, Existing.decision, context, tables)

\* usable_extraction: a symbol that is the whole transcript is a text, and has no labels to
\* look for.
UsableExtraction(context) == \A t \in context.transcripts : t.text /\ ~t.labelled

\* start: the plan is what is published.
PlanOf(v, t) ==
    [context |-> v.context, tables |-> t, examples |-> {},
     rules |-> {p \in Proposals : \E r \in v.rules : r.slot[1] = p.name /\ r.text = p.text
                                                    /\ r.decision = p.decision}]

Init ==
    /\ \E c \in {x \in Contexts : UsableExtraction(x)}, t \in Tables :
          /\ version = [context |-> c, rules |-> {First(c, t)}]
          /\ loads = t
          /\ row = First(c, t)
          /\ base = [context |-> c, rules |-> {First(c, t)}, loads |-> t]
          /\ plan = PlanOf(version, t)
    /\ accepted = FALSE /\ preview = None /\ published = None
    /\ changes = 0

\* A load of a source makes the conversation stale: another one starts.
Load(t) ==
    /\ changes < MaxChanges /\ published = None
    /\ t # loads
    /\ loads' = t
    /\ base' = [base EXCEPT !.loads = t]
    /\ plan' = PlanOf(version, t)
    /\ accepted' = FALSE /\ preview' = None
    /\ changes' = changes + 1
    /\ UNCHANGED <<version, row, published>>

\* A compilation that was under way while the rule was published lands on its row
\* (RuleCompilation), or the row is compiled again after that.
Recompile ==
    /\ changes < MaxChanges /\ published = None
    /\ row' = [row EXCEPT !.build = 1]
    /\ changes' = changes + 1
    /\ UNCHANGED <<version, loads, base, plan, accepted, preview, published>>

\* message, upload and sync: another plan, nothing of it accepted yet.
Revise(p) ==
    /\ changes < MaxChanges /\ published = None
    /\ p # plan
    /\ plan' = p
    /\ accepted' = FALSE /\ preview' = None
    /\ changes' = changes + 1
    /\ UNCHANGED <<version, loads, row, base, published>>

\* review, once for each proposal.
Accept ==
    /\ ~accepted /\ published = None
    /\ accepted' = TRUE /\ preview' = None
    /\ UNCHANGED <<version, loads, row, base, plan, published, changes>>

\* ready, and no proposal that the normalizer reads otherwise.
Preparable ==
    accepted /\ published = None /\ plan.examples # {} /\ UsableExtraction(plan.context)

\* review_changed: decisions are reviewed, before or after, and something a review reads is
\* not what it was.
ReviewChanged(rules) ==
    /\ base.context.reviewed \/ plan.context.reviewed
    /\ \/ plan.tables # base.loads \/ plan.context # base.context
       \/ {r.slot : r \in rules} # {r.slot : r \in base.rules}
       \/ \E r \in rules : ~r.kept

\* review_preview: what the reviewer says of past cases, decided before and after.  Cases that
\* lack what is newly required are left out, and there may be none.  When it does not answer
\* in time the draft stays as it was, and nothing here happens.
Reviews(rules) == IF ReviewChanged(rules) THEN {"approves", "refuses", "no cases"} ELSE {"not asked"}

\* The examples on which a rule may have failed when all of them pass.
Passable(rules) ==
    LET passing == Passing(rules)
    IN  {f \in SUBSET plan.examples :
            /\ \A e \in plan.examples : <<e, e \in f>> \in passing
            /\ Exercised(plan.context, plan.examples)}

\* preview: valid when every example passes and the reviewer does not refuse, unless the
\* reports of the compiler or the effect on past cases are against it ("none").
Preview(rules, failed, review) ==
    [rules |-> rules, failed |-> failed, review |-> review,
     valid |-> review \notin {"none", "refuses"}]

Previews(rules) ==
    {Preview(rules, {}, "none")} \union
    {Preview(rules, f, r) : f \in Passable(rules), r \in Reviews(rules)}

\* compile_plan, and what is shown of it.
Prepare ==
    /\ Preparable
    /\ \E rules \in RuleSets : preview' \in Previews(rules)
    /\ UNCHANGED <<version, loads, row, base, plan, accepted, published, changes>>

\* publish: what was compiled, and the rows of what was kept.
Publish ==
    /\ Preparable /\ preview # None /\ preview.valid
    /\ LET rules == {IF r.kept THEN [row EXCEPT !.kept = TRUE] ELSE r : r \in preview.rules}
       IN  version' = [context |-> plan.context, rules |-> rules]
    /\ published' = plan
    /\ loads' = plan.tables
    /\ UNCHANGED <<row, base, plan, accepted, preview, changes>>

Next ==
    \/ \E t \in Tables : Load(t)
    \/ Recompile
    \/ \E p \in Plans : Revise(p)
    \/ Accept \/ Prepare \/ Publish

-----------------------------------------------------------------------------
(***************************************************************************)
(* Properties                                                              *)
(***************************************************************************)

\* "The manager's chosen outcome is explicit" (draft_compilation.py:180) and "an unexpected
\* rule execution error cannot pass an example" (docs/process-discovery.md): a version that
\* a conversation publishes has a rule for each accepted proposal and no other, each with
\* the outcome accepted, which is the one its text names; it was compiled for the context
\* and rows published with it, or kept because neither has changed; no rule failed on a
\* complete example; and each symbol that is required for the first time has an example
\* that goes to a person for the lack of it.  And when decisions are reviewed, a rule or a row
\* that was not published before was put to the reviewer.
PublishedIsReviewed ==
    published # None =>
        LET p == published IN
        /\ {r.slot[1] : r \in version.rules} = {q.name : q \in p.rules}
        /\ \A r \in version.rules, q \in p.rules :
              r.slot[1] = q.name =>
                 /\ r.text = q.text
                 /\ {r.decision, r.concludes} = {q.decision}
                 /\ r.context = p.context
                 /\ p.tables = IF r.kept THEN base.loads ELSE r.tables
        /\ \A e \in preview.failed : Missing(e, p.context) # {}
        /\ \A s \in NewlyRequired(p.context) :
              \E e \in p.examples : s \in e.lacks /\ e.expects = Escalate
        /\ (p.context.reviewed /\ (p.tables # base.loads \/ \E r \in version.rules : ~r.kept)) =>
              preview.review \in {"approves", "no cases"}

\* The code that is published is the code that ran the examples.  Not so: publish takes the
\* kept rules from their rows (drafts.py:466), not from the version they were kept from.
PublishedAsPreviewed ==
    published # None =>
        {[r EXCEPT !.kept = FALSE] : r \in version.rules} =
            {[r EXCEPT !.kept = FALSE] : r \in preview.rules}
=============================================================================
