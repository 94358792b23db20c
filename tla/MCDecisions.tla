---------------------------- MODULE MCDecisions ----------------------------
(***************************************************************************)
(* A behaviour is about one of five parts.  The cases: they are decided,   *)
(* decided again and resolved across two versions, the second of which     *)
(* drops a type, adds another and asks for reviews.  The executions: two   *)
(* cases and two sources, of which the second version reads both.  And     *)
(* what several managers write at once: the proposals on a case, a norm    *)
(* and the description; the configurations of an agent role; and a row of  *)
(* a table that is written directly.                                       *)
(***************************************************************************)
EXTENDS CaseViews, TLC

MCTypesOf == (1 :> {"pay", "review"}) @@ (2 :> {"pay", "hold"})
MCHumanTypes == (1 :> {"review"}) @@ (2 :> {"hold"})

MCNameOf == (1 :> "a.pdf") @@ (2 :> "a.pdf")

\* One case of each run: the evidence run needs no second one.
MCNameOfOne == 1 :> "a.pdf"

\* The first case has a history to follow, the second is there to share its name.
MCMaxRows == (1 :> 3) @@ (2 :> 1)

MCMaxRowsOfOne == 1 :> 1

MCReadsOf == <<{"erp"}, {"erp", "rates"}>>

CONSTANTS Cases, Contents, Unread, Tables, ReadsOf, MaxActive, MaxTables, MaxExecutions, None

\* Of the proposals, the configurations and the table.
CONSTANTS Escalations, Norms, Changes, MaxAnswers, MaxProposals, MaxVersions, MaxRevisions
CONSTANTS Configs, Pack, MaxConfigs, Values, NoRow, MaxChanges, MaxOwn

Symmetry == Permutations(Requests) \union Permutations(Changes)

VARIABLES part, content, current, tables, captured, taken
VARIABLES decided, proposals, norm, texts, draft, held, flights
VARIABLES configs, request, stored, changes, write, own

Inputs == INSTANCE Executions

\* The escalated cases of the process, and the versions by their description.
Settling == INSTANCE Proposals
    WITH Cases <- Escalations, MaxRows <- MaxAnswers,
         history <- decided, versions <- texts, req <- flights

Agents == INSTANCE AgentConfigs
DirectWrites == INSTANCE DatabaseTables WITH row <- stored

executions == <<content, current, tables, captured, taken>>
settlements == <<decided, proposals, norm, texts, draft, held, flights>>
agents == <<configs, request>>
directWrites == <<stored, changes, write, own>>

ASSUME PartsAssumption ==
    /\ Inputs!ExecutionsAssumption
    /\ Settling!ProposalsAssumption
    /\ Agents!AgentConfigsAssumption
    /\ DirectWrites!DatabaseTablesAssumption

\* What the other parts do not use; of the cases, the state they begin with.
NoExecutions ==
    /\ content = None /\ current = None /\ tables = None /\ captured = None /\ taken = None

NoSettlements ==
    /\ decided = None /\ proposals = None /\ norm = None /\ texts = None
    /\ draft = None /\ held = None /\ flights = None

NoAgents == configs = None /\ request = None
NoWrites == stored = None /\ changes = None /\ write = None /\ own = None

MCInit ==
    /\ Init
    /\ \/ part = "cases" /\ NoExecutions /\ NoSettlements /\ NoAgents /\ NoWrites
       \/ part = "executions" /\ Inputs!Init /\ NoSettlements /\ NoAgents /\ NoWrites
       \/ part = "proposals" /\ Settling!Init /\ NoExecutions /\ NoAgents /\ NoWrites
       \/ part = "agents" /\ Agents!Init /\ NoExecutions /\ NoSettlements /\ NoWrites
       \/ part = "tables" /\ DirectWrites!Init /\ NoExecutions /\ NoSettlements /\ NoAgents

MCNext ==
    \/ part = "cases" /\ Next
       /\ UNCHANGED <<part, executions, settlements, agents, directWrites>>
    \/ part = "executions" /\ Inputs!Next
       /\ UNCHANGED <<part, vars, settlements, agents, directWrites>>
    \/ part = "proposals" /\ Settling!Next
       /\ UNCHANGED <<part, vars, executions, agents, directWrites>>
    \/ part = "agents" /\ Agents!Next
       /\ UNCHANGED <<part, vars, executions, settlements, directWrites>>
    \/ part = "tables" /\ DirectWrites!Next
       /\ UNCHANGED <<part, vars, executions, settlements, agents>>

allVars == <<part, vars, executions, settlements, agents, directWrites>>

MCSpec == MCInit /\ [][MCNext]_allVars

\* A replay is given what the decision was given (Executions).
ReplaysAgree == part = "executions" => Inputs!ReplaysAgree

\* A decision that applies a proposal directly follows, on the same case, the
\* decision the proposal names (Proposals).
AnswersTheDecisionItNames == part = "proposals" => Settling!AnswersTheDecisionItNames

\* Proposals, decisions, norms and drafts tell one story (Proposals).
SettlementsAgree == part = "proposals" => Settling!SettlementsAgree

\* "A new one supersedes the instance's open proposal" (proposals/router.py:53).
OneOpenPerCase == part = "proposals" => Settling!OneOpenPerCase

\* A role that has any configuration has exactly one that is active (AgentConfigs).
OneActive == part = "agents" => Agents!OneActive

\* A direct write replaces exactly what its client had read (DatabaseTables).
ReplacesWhatWasRead == [][part = "tables" => DirectWrites!RecordsTheChange]_directWrites
=============================================================================
