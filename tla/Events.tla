------------------------------- MODULE Events -------------------------------
(***************************************************************************)
(* The audit trail: core/events.py and what traces/service.py reads of it  *)
(* (ADR 0018).  A step is a span.  The spans that one request or job       *)
(* starts in its own context share a list of rows, written in one insert   *)
(* when the outermost of them ends; a job that outlives its request        *)
(* continues the trace with a list of its own.  A point is a row that the  *)
(* caller's transaction adds, and is there only if it commits.             *)
(*                                                                         *)
(* Ids are taken when a row is inserted and seen when it is committed.     *)
(* Names, times, attributes and what OpenTelemetry exports are left out.   *)
(***************************************************************************)
EXTENDS Naturals, FiniteSets, FiniteSetsExt, SequencesExt

CONSTANTS
    MaxSpans, \* bound on the spans and points of the trace
    Cases,    \* the cases its steps may be about
    MaxDown,  \* bound on the times the database goes away
    None

EventsAssumption == {MaxSpans, MaxDown} \subseteq Nat /\ None \notin Nat \union Cases

VARIABLES
    span,    \* each span: its parent, the outermost span of its context, its case
    rows,    \* the finished spans of each outermost span, not yet written
    taken,   \* the inserted rows that are not committed
    table,   \* the committed rows
    nextId,
    up,      \* whether the database answers
    muted,   \* whether spans are dropped, after it did not
    downs,
    after,   \* the last id a live stream has sent
    sent     \* the spans it has sent

vars == <<span, rows, taken, table, nextId, up, muted, downs, after, sent>>

-----------------------------------------------------------------------------
\* In the order in which they begin.
Spans == 1 .. MaxSpans

States == {"open", "ended", "point"}
Started == [parent : Spans \union {None}, top : Spans, case : Cases \union {None}, state : States]
Unstarted == [parent |-> None, top |-> None, case |-> None, state |-> "none"]

Rows == [id : 1 .. MaxSpans, span : Spans]

TypeOK ==
    /\ span \in [Spans -> Started \union {Unstarted}]
    /\ rows \in [Spans -> SUBSET Spans]
    /\ taken \subseteq Rows /\ table \subseteq Rows /\ nextId \in 1 .. MaxSpans + 1
    /\ up \in BOOLEAN /\ muted \in BOOLEAN /\ downs \in 0 .. MaxDown
    /\ after \in 0 .. MaxSpans /\ sent \subseteq Spans

Init ==
    /\ span = [s \in Spans |-> Unstarted] /\ rows = [s \in Spans |-> {}]
    /\ taken = {} /\ table = {} /\ nextId = 1
    /\ up = TRUE /\ muted = FALSE /\ downs = 0
    /\ after = 0 /\ sent = {}

New(s) == span[s] = Unstarted
Fresh(s) == New(s) /\ \A t \in 1 .. s - 1 : ~New(t)
Open(s) == span[s].state = "open"
Begin(s, parent, top, case, state) ==
    span' = [span EXCEPT ![s] = [parent |-> parent, top |-> top, case |-> case, state |-> state]]

-----------------------------------------------------------------------------
(***************************************************************************)
(* Spans                                                                   *)
(***************************************************************************)

\* The first span of the trace.
StartTrace(s) ==
    /\ s = 1 /\ New(s)
    /\ Begin(s, None, s, None, "open")
    /\ UNCHANGED <<rows, taken, table, nextId, up, muted, downs, after, sent>>

\* A step within the current one, across await, gather and to_thread.
StartChild(s, p) ==
    /\ Fresh(s) /\ Open(p)
    /\ \E case \in Cases \union {None} : Begin(s, p, span[p].top, case, "open")
    /\ UNCHANGED <<rows, taken, table, nextId, up, muted, downs, after, sent>>

\* A job continues the trace of the step that queued it, in a context of its own.
StartJob(s, p) ==
    /\ Fresh(s) /\ span[p].state \in {"open", "ended"}
    /\ Begin(s, p, s, None, "open")
    /\ UNCHANGED <<rows, taken, table, nextId, up, muted, downs, after, sent>>

\* What it started in its context has ended: it awaited it.
Awaited(s) == \A t \in Spans : Open(t) /\ span[t].parent = s => span[t].top = t

\* Mutant: a span writes its own row when it ends.
OutermostAnyway(s) == span[s].top # None

Outermost(s) == span[s].top = s

EndInner(s) ==
    /\ Open(s) /\ Awaited(s) /\ ~Outermost(s)
    /\ span' = [span EXCEPT ![s].state = "ended"]
    /\ rows' = [rows EXCEPT ![span[s].top] = @ \union {s}]
    /\ UNCHANGED <<taken, table, nextId, up, muted, downs, after, sent>>

\* The rows of one insert, in the order in which they ended.
Inserted(order) == {[id |-> nextId + i - 1, span |-> order[i]] : i \in DOMAIN order}

\* _write: one insert, committed at once.  With the database away the rows are lost,
\* and so are those of the next spans, for a while.
EndOutermost(s) ==
    /\ Open(s) /\ Awaited(s) /\ Outermost(s)
    /\ span' = [span EXCEPT ![s].state = "ended"]
    /\ rows' = [rows EXCEPT ![s] = {}]
    /\ LET batch == rows[s] \union {s}
       IN  IF up /\ ~muted
           THEN /\ \E order \in SetToSeqs(batch) : table' = table \union Inserted(order)
                /\ nextId' = nextId + Cardinality(batch)
                /\ muted' = muted
           ELSE muted' = TRUE /\ UNCHANGED <<table, nextId>>
    /\ UNCHANGED <<taken, up, downs, after, sent>>

\* RETRY_AFTER_S has passed.
Unmute ==
    /\ muted /\ muted' = FALSE
    /\ UNCHANGED <<span, rows, taken, table, nextId, up, downs, after, sent>>

GoDown ==
    /\ up /\ downs < MaxDown
    /\ up' = FALSE /\ downs' = downs + 1
    /\ UNCHANGED <<span, rows, taken, table, nextId, muted, after, sent>>

GoUp ==
    /\ ~up /\ up' = TRUE
    /\ UNCHANGED <<span, rows, taken, table, nextId, muted, downs, after, sent>>

-----------------------------------------------------------------------------
(***************************************************************************)
(* Points                                                                  *)
(***************************************************************************)

\* record, flushed by the caller's transaction.
Record(s, p) ==
    /\ up /\ Fresh(s) /\ Open(p)
    /\ \E case \in Cases : Begin(s, p, span[p].top, case, "point")
    /\ taken' = taken \union {[id |-> nextId, span |-> s]} /\ nextId' = nextId + 1
    /\ UNCHANGED <<rows, table, up, muted, downs, after, sent>>

Commit(row) ==
    /\ up /\ row \in taken
    /\ taken' = taken \ {row} /\ table' = table \union {row}
    /\ UNCHANGED <<span, rows, nextId, up, muted, downs, after, sent>>

Rollback(row) ==
    /\ row \in taken /\ taken' = taken \ {row}
    /\ UNCHANGED <<span, rows, table, nextId, up, muted, downs, after, sent>>

-----------------------------------------------------------------------------
(***************************************************************************)
(* Reading                                                                 *)
(***************************************************************************)

\* stream polls the table for what is beyond the last id it sent.
Poll ==
    LET fresh == {row \in table : row.id > after}
    IN  /\ up /\ fresh # {}
        /\ after' = Max({row.id : row \in fresh})
        /\ sent' = sent \union {row.span : row \in fresh}
        /\ UNCHANGED <<span, rows, taken, table, nextId, up, muted, downs>>

Visible == {row.span : row \in table}

\* instance_trace: the steps of the case and those of no case, of a trace it is in.
OfCase(c) ==
    IF \E s \in Visible : span[s].case = c
    THEN {s \in Visible : span[s].case \in {c, None}} ELSE {}

\* Mutant: a root is a span without parent.
RootsWithoutParent(shown) == {s \in shown : span[s].parent = None}

\* _roots: a span whose parent is not shown is a root.
Roots(shown) == {s \in shown : span[s].parent \notin shown}

\* The last span on the way up from s.
Highest(s, shown) ==
    LET above[n \in 0 .. MaxSpans] ==
            IF n = 0 THEN s
            ELSE LET t == above[n - 1] IN IF span[t].parent \in shown THEN span[t].parent ELSE t
    IN  above[MaxSpans]

Next ==
    \/ \E s \in Spans : StartTrace(s) \/ EndInner(s) \/ EndOutermost(s)
    \/ \E s, p \in Spans : StartChild(s, p) \/ StartJob(s, p) \/ Record(s, p)
    \/ \E row \in taken : Commit(row) \/ Rollback(row)
    \/ Unmute \/ GoDown \/ GoUp \/ Poll

Spec == Init /\ [][Next]_vars

-----------------------------------------------------------------------------
\* The steps of one context are in the audit together or not at all, whenever the
\* database goes away: a step is never there without the one that it was part of.
ContextIsWhole ==
    \A s, t \in Spans :
        /\ s \in Visible /\ span[s].state = "ended"
        /\ span[t].top = span[s].top /\ span[t].state \in {"open", "ended"}
        => t \in Visible

\* Every recorded step of a trace, and of the journey of a case, hangs under a root,
\* though the steps above it are of another case, not written yet or lost.
NothingHidden ==
    \A shown \in {Visible} \union {OfCase(c) : c \in Cases} :
        \A s \in shown : Highest(s, shown) \in Roots(shown)

\* "Every new span, live (server-sent events)"
StreamMissesNothing == \A row \in table : row.id <= after => row.span \in sent
=============================================================================
