---------------------------- MODULE DecisionLog ----------------------------
(***************************************************************************)
(* What the process promises about the decisions of its cases, and nothing *)
(* about how: per case an append-only log of decisions (ADR 0008), where   *)
(* the engine may speak again only over an automatic decision that nobody  *)
(* has to review, and only to say something else.                          *)
(***************************************************************************)
EXTENDS Naturals, Sequences

CONSTANTS
    Instances,      \* the cases
    DecisionTypes,  \* everything any version of the process can conclude
    Versions,       \* the published versions of the process, by number
    TypesOf         \* the decision types of each version

(***************************************************************************)
(* A row of the table `decisions`, with the row of `decision_reviews` that *)
(* is committed with it.  The review of an engine decision is "none" when  *)
(* the process asks for none, "human" when the reviewer disagreed, "kept"  *)
(* when it agreed or failed.                                               *)
(***************************************************************************)
Rows == [author : {"engine", "person"}, decision : DecisionTypes,
         version : Versions, review : {"none", "kept", "human"}]

VARIABLE log

Latest(h) == h[Len(h)]

\* A person may always decide; the engine only over its own settled word.
MayFollow(h, row) ==
    /\ row.decision \in TypesOf[row.version]
    /\ row.author = "person" => row.review = "none"
    /\ h # <<>> =>
         /\ Latest(h).version <= row.version
         /\ row.author = "engine" =>
              /\ Latest(h).author = "engine"
              /\ Latest(h).review # "human"
              /\ Latest(h).decision # row.decision

Grows(h, g) == \E row \in Rows : MayFollow(h, row) /\ g = Append(h, row)

-----------------------------------------------------------------------------
Init == log = [i \in Instances |-> <<>>]

\* One run may decide many cases: each log stays or grows by one row.
Next ==
    /\ log' \in [Instances -> Seq(Rows)]
    /\ \A i \in Instances : log'[i] = log[i] \/ Grows(log[i], log'[i])

Spec == Init /\ [][Next]_log

-----------------------------------------------------------------------------
\* ADR 0008: a person's decision is final for the engine.  Once a person has
\* decided a case, only persons do.
PersonStands ==
    \A i \in Instances : \A n \in 1 .. Len(log[i]) - 1 :
        log[i][n].author = "person" => log[i][n + 1].author = "person"

\* ADR 0021: an automatic decision the reviewer questioned is answered by a
\* person before anything else happens to the case.
ReviewAnswered ==
    \A i \in Instances : \A n \in 1 .. Len(log[i]) - 1 :
        log[i][n].review = "human" => log[i][n + 1].author = "person"

\* Reprocessing writes only what changes: two engine rows in a row differ.
EngineRowsChange ==
    \A i \in Instances : \A n \in 1 .. Len(log[i]) - 1 :
        (log[i][n].author = "engine" /\ log[i][n + 1].author = "engine")
            => log[i][n].decision # log[i][n + 1].decision

\* Every outcome, a person's included, is a type of the version its row names,
\* and the versions of a case never go back.
OutcomeOfItsVersion ==
    \A i \in Instances :
        /\ \A n \in 1 .. Len(log[i]) :
              log[i][n].decision \in TypesOf[log[i][n].version]
        /\ \A n \in 1 .. Len(log[i]) - 1 :
              log[i][n].version <= log[i][n + 1].version
=============================================================================
