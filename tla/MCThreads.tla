------------------------------ MODULE MCThreads ------------------------------
(***************************************************************************)
(* Three components that several threads share, each by itself: one of     *)
(* them, the subject of the behaviour, takes its steps, and the others     *)
(* keep their initial states.                                              *)
(***************************************************************************)
EXTENDS ThreadCollisionWarner, ThreadIdCache, ProtectedMemory

CONSTANTS w1, w2, w3, w4, p1, p2

\* The variables of two writers are on a page apart, those of two others on the
\* page of the counter.
MCPageOf == [w \in {w1, w2, w3, w4} |-> IF w \in {w1, w2} THEN p2 ELSE p1]

-----------------------------------------------------------------------------
VARIABLE subject

\* What differs in the initial states of a component that takes no steps does not
\* matter.
Init ==
  /\ WarnerInit /\ IdInit /\ MemoryInit
  /\ subject \in {"warner", "ids", "memory"}
  /\ subject # "ids" =>
       /\ dcheck_is_on = CHOOSE b \in Builds : TRUE
       /\ alive = {CHOOSE t \in Threads : TRUE} /\ pid = CHOOSE n \in Tids : TRUE
  /\ subject # "memory" => init = IF "posix" \in Platforms THEN "none" ELSE "done"
Next ==
  /\ UNCHANGED subject
  /\ \/ subject = "warner" /\ WarnerNext /\ UNCHANGED <<idVars, memoryVars>>
     \/ subject = "ids" /\ IdNext /\ UNCHANGED <<warnerVars, memoryVars>>
     \/ subject = "memory" /\ MemoryNext /\ UNCHANGED <<warnerVars, idVars>>

Spec == Init /\ [][Next]_<<subject, warnerVars, idVars, memoryVars>>
=============================================================================
