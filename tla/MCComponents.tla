---------------------------- MODULE MCComponents ----------------------------
(***************************************************************************)
(* The components that keep all of their state in one object and that no   *)
(* other component reads: one of them, the subject of the behaviour, takes *)
(* its steps, and the others keep their initial states.                    *)
(***************************************************************************)
EXTENDS CircularDeque, FlatMap, CheckedNumeric, TimeDelta, CommandLine, FilePath, ScopedFD, TLC

\* The ends of a type and what lies between them.
MCSamples(t) ==
  {v \in {Lowest(t), Lowest(t) + 1, -3, -2, -1, 0, 1, 2, 3, 5, 6, 7, t.half, MaxOf(t) - 1, MaxOf(t)} :
     InType(t, v)}

\* Switches with and without a value, the terminator, "--=" and an argument.
Word(p, n, v) == [prefix |-> p, name |-> n, value |-> v]
MCWords ==
  {Word("--", "a", NoSeparator), Word("--", "a", "v"), Word("-", "b", "v"), Word("--", "b", Empty),
   Word("--", "", NoSeparator), Word("--", "", Empty), Word("", "x", NoSeparator)}
MCProgram == Word("", "prog", NoSeparator)

\* The double extensions ".?.z" and ".z.a".
MCDoubleSuffixes == {<<"z">>}
MCDoubleExtensions == {<<"z", ".", "a">>}

MCSymmetry == Permutations(FdThreads) \cup Permutations(FdSlots)

-----------------------------------------------------------------------------
VARIABLE subject

Init ==
  /\ DequeInit /\ MapInit /\ MathInit /\ TimeInit /\ CommandLineInit /\ PathInit /\ FdInit
  /\ subject \in {"deque", "map", "math", "time", "line", "path", "fd"}
  /\ subject # "math" => number = Make("checked", Int32, Int32, 0, TRUE)
  /\ subject # "line" => line = NoProgram
  /\ subject # "path" => path = <<>>
Next ==
  /\ UNCHANGED subject
  /\ \/ /\ subject = "deque" /\ DequeNext
        /\ UNCHANGED <<mapVars, mathVars, timeVars, lineVars, pathVars, fdVars>>
     \/ /\ subject = "map" /\ MapNext
        /\ UNCHANGED <<dequeVars, mathVars, timeVars, lineVars, pathVars, fdVars>>
     \/ /\ subject = "math" /\ MathNext
        /\ UNCHANGED <<dequeVars, mapVars, timeVars, lineVars, pathVars, fdVars>>
     \/ /\ subject = "time" /\ TimeNext
        /\ UNCHANGED <<dequeVars, mapVars, mathVars, lineVars, pathVars, fdVars>>
     \/ /\ subject = "line" /\ CommandLineNext
        /\ UNCHANGED <<dequeVars, mapVars, mathVars, timeVars, pathVars, fdVars>>
     \/ /\ subject = "path" /\ PathNext
        /\ UNCHANGED <<dequeVars, mapVars, mathVars, timeVars, lineVars, fdVars>>
     \/ /\ subject = "fd" /\ FdNext
        /\ UNCHANGED <<dequeVars, mapVars, mathVars, timeVars, lineVars, pathVars>>

Spec == Init /\ [][Next]_<<subject, dequeVars, mapVars, mathVars, timeVars, lineVars, pathVars, fdVars>>

-----------------------------------------------------------------------------
\* Checked and clamped numbers and TimeDeltas agree with the integers.
ArithmeticIsExact == NumbersAreExact /\ TimesAreExact

\* What a command line and a path are made of is what is read of them.
PartsAreReadBack == ReadsBack /\ PathIsNames
=============================================================================
