\* DCHECKs on, one class that starts from one and one that starts from zero, users
\* that may wrap a new object without adopting it and destructors that may wrap
\* "this".  Up to seven references to one object: an int whose largest value is 3
\* overflows.
CONSTANTS
  t1 = t1
  t2 = t2
  s1 = s1
  s2 = s2
  s3 = s3
  s4 = s4
  s5 = s5
  Null = Null
  Threads = {t1, t2}
  Slots = {s1, s2, s3, s4, s5}
  SlotsOf <- MCSlotsOf
  Objects = {o1, o2}
  IntMax = 3
  StartFromOne = {o1}
  DCheckOn = TRUE
  Misuse = {"resurrect", "wrap_new"}
SPECIFICATION FairSpec
INVARIANTS CountIsRefs NeverDangles OnlyOverflowFails
PROPERTY UnreferencedIsDeleted
CHECK_DEADLOCK FALSE
