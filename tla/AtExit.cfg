\* Two threads, a manager and a shadow of it, three tasks, calls five deep: a
\* task processes tasks, one of which registers another.
CONSTANTS
  Main = main
  Threads = {main, t2}
  NoThread = NoThread
  Managers = {m1, m2}
  Builds = {TRUE, FALSE}
  MaxTasks = 3
  MaxDepth = 5
SPECIFICATION Spec
INVARIANTS NothingIsDropped OnlyLateRegistrationsFail HolderNeverWaits
PROPERTIES NewestFirst
CHECK_DEADLOCK FALSE
