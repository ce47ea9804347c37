------------------------------- MODULE Elements -------------------------------
(***************************************************************************)
(* What programs keep in the containers of base.                           *)
(***************************************************************************)
EXTENDS Naturals, SequencesExt

CONSTANTS
  Values,  \* elements of a deque, and what a map maps its keys to
  None,    \* no iterator, no operation, nothing returned
  MaxRange \* how many elements a program inserts or assigns at once

ASSUME ElementsAssumption == MaxRange \in Nat /\ None \notin Values

\* What is left of xs without the elements that equal x.
Without(xs, x) ==
  FoldLeft(LAMBDA kept, y : IF y = x THEN kept ELSE Append(kept, y), <<>>, xs)
=============================================================================
