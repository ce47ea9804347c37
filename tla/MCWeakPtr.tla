----------------------------- MODULE MCWeakPtr -----------------------------
(***************************************************************************)
(* WeakPtr for TLC.  Flags are all alike, and so are WeakPtrs.             *)
(***************************************************************************)
EXTENDS WeakPtr, TLC

Alike == Permutations(Flags) \cup Permutations(WeakPtrs)
=============================================================================
