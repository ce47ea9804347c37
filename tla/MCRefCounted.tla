---------------------------- MODULE MCRefCounted ----------------------------
(***************************************************************************)
(* RefCounted for TLC: one thread has two variables, the other has three.  *)
(***************************************************************************)
EXTENDS RefCounted

CONSTANTS t1, t2, s1, s2, s3, s4, s5

MCSlotsOf == [t \in {t1, t2} |-> IF t = t1 THEN {s1, s2} ELSE {s3, s4, s5}]
=============================================================================
