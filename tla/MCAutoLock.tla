----------------------------- MODULE MCAutoLock -----------------------------
(***************************************************************************)
(* AutoLock for TLC.                                                       *)
(***************************************************************************)
EXTENDS AutoLock

CONSTANTS t1, t2
=============================================================================
