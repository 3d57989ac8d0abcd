---------------------------- MODULE MCPlayerLogin ---------------------------
(* Two sessions, one of which may try again. *)
EXTENDS PlayerLogin

CONSTANTS t1, t2, t3, s1, s2

MCSessionOf == [t \in {t1, t2, t3} |-> IF t = t2 THEN s2 ELSE s1]
=============================================================================
