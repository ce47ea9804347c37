\* Three threads and every scope class; forks with and without fork() and DCHECKs; both
\* platforms, two pages, and writers that may not wait for the initializer.  The program
\* may stop at a failed check.
CONSTANTS
  WarnerThreads = {h1, h2, h3}
  kInvalidThreadId = kInvalidThreadId
  Kinds = {"Check", "ScopedCheck", "ScopedRecursiveCheck"}
  MaxDepth = 2
  MaxPins = 1
  Threads = {t1, t2, t3}
  Tids = {n1, n2, n3, n4}
  NoTid = NoTid
  Builds = {TRUE, FALSE}
  IdMisuse = {"raw_clone"}
  w1 = w1
  w2 = w2
  w3 = w3
  w4 = w4
  p1 = p1
  p2 = p2
  Writers = {w1, w2, w3, w4}
  Pages = {p1, p2}
  PageOf <- MCPageOf
  CounterPage = p1
  Initializer = Initializer
  Nobody = Nobody
  Platforms = {"posix", "win"}
  MemoryMisuse = {"early_writer"}
SPECIFICATION Spec
CHECK_DEADLOCK FALSE
INVARIANTS NoOverlapUndetected QuiescentIsClear
INVARIANTS AnswersAreCurrent OnlyStraysAreFatal
INVARIANTS InScopeIsWritable SealedAtRest OnlyEarlyWritersFail
PROPERTY FirstWarningIsReal
