---------------------------- MODULE MCJobStore ----------------------------
(* A server with two threads and another, of one thread, on its directory. *)
EXTENDS JobStore, TLC

CONSTANTS s1, s2, w1, w2

MCServerOf == [w \in Workers |-> IF w \in {w1, w2} THEN s1 ELSE s2]

===========================================================================
