----------------------------- MODULE Executions -----------------------------
(* What the decisions of one process were made of (versions/execution.py, run and
   reprocess of decisions/service.py).  A run captures its inputs - what was read
   of every case, the ids of the loads, the sources that are down - and evaluates
   the active version on them; a replay evaluates the captured version on the
   captured inputs again, after cases were read anew, sources loaded and versions
   published.  Runs hold the lock of the process, so each is one step.

   The engine is a function of what evaluate hands to it: a verdict is known here
   by that. *)
EXTENDS Naturals, Sequences

CONSTANTS
    Cases,
    Contents,   \* what the documents of a case may be read as
    Unread,     \* a case without symbols
    Tables,     \* the sources of the process
    ReadsOf,    \* of each version, the sources its rules name
    MaxActive, MaxTables, MaxExecutions  \* bounds: versions, loads, runs

ExecutionsAssumption ==
    /\ Unread \notin Contents
    /\ MaxActive \in Nat \ {0}
    /\ ReadsOf \in [1 .. MaxActive -> SUBSET Tables]

VARIABLES
    content,  \* Instance.symbols of each case
    current,  \* the active version
    tables,   \* the loads, by id: the source of each; what it holds is its own
    captured, \* the executions: [version, cases, source_ids, down]
    taken     \* the engine's decisions: a set of [case, execution, verdict]

executionVars == <<content, current, tables, captured, taken>>

ExecutionsTypeOK ==
    /\ content \in [Cases -> Contents \union {Unread}]
    /\ current \in 1 .. MaxActive
    /\ tables \in Seq(Tables)
    /\ \A e \in DOMAIN captured :
          captured[e].source_ids \subseteq DOMAIN tables /\ captured[e].down \subseteq Tables
    /\ \A d \in taken : d.case \in Cases /\ d.execution \in DOMAIN captured

Init ==
    /\ content = [c \in Cases |-> Unread] /\ current = 1
    /\ tables = << >> /\ captured = << >> /\ taken = {}

-----------------------------------------------------------------------------
Decided(c) == \E d \in taken : d.case = c

(* The documents of a case that is not decided are read, or read again. *)
ReadCase(c, what) ==
    /\ ~Decided(c)
    /\ content' = [content EXCEPT ![c] = what]
    /\ UNCHANGED <<current, tables, captured, taken>>

LoadTable(n) ==
    /\ Len(tables) < MaxTables
    /\ tables' = Append(tables, n)
    /\ UNCHANGED <<content, current, captured, taken>>

PublishNext ==
    /\ current < MaxActive
    /\ current' = current + 1
    /\ UNCHANGED <<content, tables, captured, taken>>

CurrentLoads ==
    {i \in DOMAIN tables : \A j \in DOMAIN tables : tables[j] = tables[i] => j <= i}

(* _inputs: what failed to sync is down, and what the rules name and nobody ever
   loaded; the loads of the others are kept, and every case. *)
Inputs(failed) ==
    LET down == failed \union (ReadsOf[current] \ {tables[i] : i \in CurrentLoads})
    IN  [version |-> current, cases |-> content, down |-> down,
         source_ids |-> {i \in CurrentLoads : tables[i] \notin down}]

\* Mutant: a replay reads the loads that are current.
RowsNow(inputs) == {i \in CurrentLoads : tables[i] \notin inputs.down}

(* evaluate selects the rows of the captured ids. *)
RowsOf(inputs) == inputs.source_ids

(* evaluate: the engine is given the version, the case, the others that have
   symbols, the rows of the sources that the version names, and which of those
   are down, whose rules do not run. *)
Evaluated(inputs, c) ==
    LET reads == ReadsOf[inputs.version]
    IN  [version |-> inputs.version,
         own |-> inputs.cases[c],
         others |-> {<<d, inputs.cases[d]>> : d \in {o \in Cases \ {c} : inputs.cases[o] # Unread}},
         rows |-> {i \in RowsOf(inputs) : tables[i] \in reads},
         unavailable |-> inputs.down \intersect reads]

Decide(inputs, chosen) ==
    /\ Len(captured) < MaxExecutions
    /\ captured' = Append(captured, inputs)
    /\ taken' = taken \union
          {[case |-> c, execution |-> Len(captured) + 1, verdict |-> Evaluated(inputs, c)] :
              c \in chosen}
    /\ UNCHANGED <<content, current, tables>>

(* run: every case that has symbols and no decision yet. *)
Run(failed) ==
    LET pending == {c \in Cases : ~Decided(c) /\ content[c] # Unread}
    IN  pending # {} /\ Decide(Inputs(failed), pending)

Verdicts(c) == {d \in taken : d.case = c}

Latest(c) == CHOOSE d \in Verdicts(c) : \A e \in Verdicts(c) : e.execution <= d.execution

(* reprocess: the decided cases of these names; what is decided as before is not
   written, and neither is what a person has decided.  A dry run writes nothing. *)
Reprocess(failed, names) ==
    LET changed == {c \in names : Decided(c) /\ Latest(c).verdict # Evaluated(Inputs(failed), c)}
    IN  changed # {} /\ Decide(Inputs(failed), changed)

Next ==
    \/ \E c \in Cases, what \in Contents : ReadCase(c, what)
    \/ \E n \in Tables : LoadTable(n)
    \/ PublishNext
    \/ \E failed \in SUBSET Tables :
          \/ Run(failed)
          \/ \E names \in SUBSET Cases : Reprocess(failed, names)

Spec == Init /\ [][Next]_executionVars

-----------------------------------------------------------------------------
(* "The down sources are part of the inputs, so a replay decides the same"
   (decisions/service.py:283): whatever was read, loaded and published since, the
   replay of a decision is given what the decision was given. *)
ReplaysAgree ==
    \A d \in taken : Evaluated(captured[d.execution], d.case) = d.verdict
=============================================================================
