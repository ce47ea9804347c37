\* Symmetric in the bind states. The program may stop at a failed check.
CONSTANTS
  t1 = t1  t2 = t2
  a = a  d = d  e = e  r1 = r1  s1 = s1  s2 = s2
  Threads = {t1, t2}
  OnceVars = {a, d, e}
  RepeatingVars = {r1}
  Runners = {s1, s2}
  VarsOf <- MCVarsOf
  BindStates = {o1, o2, o3}
  Null = Null
  Owner = t1
  MaxDepth = 2
  MaxSteps = 5
SYMMETRY MCSymmetry
SPECIFICATION Spec
CHECK_DEADLOCK FALSE
PROPERTY CancelledStaysCancelled
INVARIANTS RunsAsPromised BoundWhileHeld
