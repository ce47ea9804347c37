\* One thread nests up to three helper objects over two locks; another calls Lock
\* directly, acquires what it holds already and releases what it does not hold.  The
\* list of tracked locks has room for two.  A crash ends the behaviour.
CONSTANTS
  t1 = t1
  t2 = t2
  Threads = {t1, t2}
  Scoped = {t1}
  Locks = {l1, l2}
  NoThread = NoThread
  NoLock = NoLock
  kHeldLocksCapacity = 2
  ErrorCheckMutex = TRUE
  Misuse = {"reacquire", "foreign_release"}
  MaxScopes = 3
SPECIFICATION ScopeSpec
INVARIANT TrackedListIsExact
INVARIANT OnlyCallersFail
PROPERTY ReacquireFails
PROPERTY ImplementsAbstractLock
CHECK_DEADLOCK FALSE
INVARIANT HelpersAreExact
