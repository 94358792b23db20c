----------------------------- MODULE MCJournal -----------------------------
(* Two threads of one process, which share its slots, on one directory.    *)
EXTENDS Journal, TLC

CONSTANTS c1, c2, p1, p2

MCProcessOf == [c \in Callers |-> IF c \in {c1, c2} THEN p1 ELSE p2]

=============================================================================
