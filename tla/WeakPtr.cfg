\* Users that keep to the contract: two sequences, two WeakPtrs, a SafeRef.
CONSTANTS
  Sequences = {q1, q2}
  WeakPtrs = {w1, w2}
  SafeRefs = {r1}
  Flags = {f1, f2, f3, f4}
  Null = Null
  Misuse = {}
SPECIFICATION Spec
SYMMETRY Alike
INVARIANTS UseIsSafe QuietMeansNone
PROPERTY InvalidStaysInvalid
CHECK_DEADLOCK FALSE
