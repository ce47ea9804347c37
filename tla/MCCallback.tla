----------------------------- MODULE MCCallback -----------------------------
(* Two threads and four callback variables, two of which share a functor    *)
(* when split; three bind states; a call within a call.                     *)
EXTENDS Callback, TLC

CONSTANTS t1, t2, a, d, e, r1, s1, s2

MCVarsOf == t1 :> {a, r1, s1, s2} @@ t2 :> {d, e}
MCSymmetry == Permutations(BindStates)
=============================================================================
