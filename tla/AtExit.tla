------------------------------- MODULE AtExit -------------------------------
(***************************************************************************)
(* base::AtExitManager: a stack of managers (only tests have more than     *)
(* one), each with a lock and a stack of tasks.  Running a task is a call  *)
(* back into the program, which may register tasks, process them or shadow *)
(* the manager, so that calls nest; calls[t] is what of this is on the     *)
(* call stack of thread t.  Tasks are numbered as they are registered.     *)
(*                                                                         *)
(* g_top_manager is not protected: a manager comes and goes only while the *)
(* other threads are outside, and they have ended when it is destroyed,    *)
(* as the comments of at_exit.cc ask for.  A failed check ends the process *)
(* (crash).                                                                *)
(***************************************************************************)
EXTENDS Integers, Sequences, FiniteSets

CONSTANTS
  Threads,      \* the threads
  Main,         \* the thread that creates and destroys managers
  NoThread,     \* not a thread
  Managers,     \* the AtExitManager objects
  Builds,       \* the values of DCHECK_IS_ON()
  MaxTasks,     \* bound on the tasks registered
  MaxDepth      \* bound on how deep calls nest

ASSUME MainAssumption == Main \in Threads /\ NoThread \notin Threads
ASSUME BuildsAssumption == Builds \subseteq BOOLEAN
ASSUME BoundsAssumption == MaxTasks \in Nat /\ MaxDepth \in Nat

VARIABLES
  dcheck_is_on,         \* the build
  managers,             \* g_top_manager and its next_manager_s, the top last
  g_disable_managers,
  stack,                \* stack_ of each manager
  processing_callbacks, \* managers whose processing_callbacks_ is set
  lock,                 \* the thread that has lock_ of each manager
  calls,                \* the frames of each thread, the innermost last
  registered,           \* how many tasks have been registered
  late,                 \* those registered while their manager's tasks ran
  finished,             \* tasks that have run
  dropped,              \* tasks destroyed with their manager without running
  crash                 \* "none", or the check that failed

vars == <<dcheck_is_on, managers, g_disable_managers, stack,
          processing_callbacks, lock, calls, registered, late, finished,
          dropped, crash>>

\* "alive" and "dtor" are the life of a manager; "register", "process" and
\* "finish" wait for the lock in RegisterTask and ProcessCallbacksNow and
\* "disable" in DisableAllAtExitManagers; "push", "swap", "clear" and "set"
\* are the blocks under it; in "task" a task is running.
Places == {"alive", "dtor", "register", "push", "process", "swap", "run",
           "task", "finish", "clear", "disable", "set"}

Crashes == {"none", "no_manager", "second_manager", "not_top", "processing",
            "not_empty"}

Init ==
  /\ dcheck_is_on \in Builds
  /\ managers = <<>>
  /\ g_disable_managers = FALSE
  /\ stack = [m \in Managers |-> <<>>]
  /\ processing_callbacks = {}
  /\ lock = [m \in Managers |-> NoThread]
  /\ calls = [t \in Threads |-> <<>>]
  /\ registered = 0
  /\ late = {}
  /\ finished = {}
  /\ dropped = {}
  /\ crash = "none"

Top == managers[Len(managers)]
Frame(t) == calls[t][Len(calls[t])]
Where(t) == IF calls[t] = <<>> THEN "outside" ELSE Frame(t).at
At(t, place) == crash = "none" /\ Where(t) = place

Call(t, place, m) ==
  calls' = [calls EXCEPT ![t] = Append(@, [at |-> place, manager |-> m, tasks |-> <<>>])]
Goto(t, place) == calls' = [calls EXCEPT ![t][Len(calls[t])].at = place]
Return(t) == calls' = [calls EXCEPT ![t] = SubSeq(@, 1, Len(@) - 1)]

Fail(check) ==
  /\ crash' = check
  /\ UNCHANGED <<dcheck_is_on, managers, g_disable_managers, stack,
                 processing_callbacks, lock, calls, registered, late,
                 finished, dropped>>

\* Where t runs code of the program: outside, under a manager in its scope, or
\* in a task.  Other threads have ended when Main destroys a manager.
InProgram(t) ==
  /\ crash = "none"
  /\ Where(t) \in {"outside", "alive", "task"}
  /\ t # Main => \A i \in DOMAIN calls[Main] : calls[Main][i].at # "dtor"
MayCall(t) == InProgram(t) /\ managers # <<>> /\ Len(calls[t]) < MaxDepth
Alone == \A t \in Threads \ {Main} : calls[t] = <<>>

-----------------------------------------------------------------------------
\* AtExitManager(), or the constructor of ShadowingAtExitManager.
Construct(m, shadow) ==
  /\ InProgram(Main) /\ Alone /\ Len(calls[Main]) < MaxDepth
  /\ \A i \in DOMAIN managers : managers[i] # m
  /\ IF dcheck_is_on /\ ~shadow /\ managers # <<>>
       THEN Fail("second_manager")
       ELSE /\ managers' = Append(managers, m)
            /\ stack' = [stack EXCEPT ![m] = <<>>]
            /\ processing_callbacks' = processing_callbacks \ {m}
            /\ Call(Main, "alive", m)
            /\ UNCHANGED <<dcheck_is_on, g_disable_managers, lock, registered,
                           late, finished, dropped, crash>>

\* g_top_manager = next_manager_.
Popped == SubSeq(managers, 1, Len(managers) - 1)

Tasks(s) == {s[i] : i \in DOMAIN s}

\* The end of ~AtExitManager; what is left in stack_ goes with it.
Pop ==
  /\ managers' = Popped
  /\ dropped' = dropped \cup Tasks(stack[Top])
  /\ stack' = [stack EXCEPT ![Top] = <<>>]
  /\ Return(Main)
  /\ UNCHANGED <<dcheck_is_on, g_disable_managers, processing_callbacks, lock,
                 registered, late, finished, crash>>

\* ~AtExitManager calls ProcessCallbacksNow unless managers are disabled.
Destroy ==
  /\ At(Main, "alive") /\ Alone
  /\ IF dcheck_is_on /\ Frame(Main).manager # Top
       THEN Fail("not_top")
       ELSE \/ g_disable_managers /\ Pop
            \/ /\ ~g_disable_managers
               /\ calls' = [calls EXCEPT ![Main] =
                    Append([@ EXCEPT ![Len(@)].at = "dtor"],
                           [at |-> "process", manager |-> Top, tasks |-> <<>>])]
               /\ UNCHANGED <<dcheck_is_on, managers, g_disable_managers, stack,
                              processing_callbacks, lock, registered, late,
                              finished, dropped, crash>>

EndDestroy == At(Main, "dtor") /\ Pop

-----------------------------------------------------------------------------
\* RegisterTask, ProcessCallbacksNow and DisableAllAtExitManagers start at the
\* lock of g_top_manager.
Start(t, place) ==
  /\ MayCall(t)
  /\ Call(t, place, Top)
  /\ UNCHANGED <<dcheck_is_on, managers, g_disable_managers, stack,
                 processing_callbacks, lock, registered, late, finished,
                 dropped, crash>>

\* Registrations under way: with those done they are at most MaxTasks.
Registering == {u \in Threads : At(u, "register") \/ At(u, "push")}

RegisterTask(t) ==
  /\ registered + Cardinality(Registering) < MaxTasks
  /\ Start(t, "register")

ProcessCallbacksNow(t) == Start(t, "process")
DisableAllAtExitManagers(t) == Start(t, "disable")

\* Each of them needs a manager: NOTREACHED(), or the null pointer.
NoManager(t) == InProgram(t) /\ managers = <<>> /\ Fail("no_manager")

\* AutoLock lock(g_top_manager->lock_): the block under the lock comes next.
Take(t, place, block) ==
  /\ At(t, place)
  /\ lock[Top] = NoThread
  /\ lock' = [lock EXCEPT ![Top] = t]
  /\ Goto(t, block)
  /\ UNCHANGED <<dcheck_is_on, managers, g_disable_managers, stack,
                 processing_callbacks, registered, late, finished, dropped,
                 crash>>

TakeLock(t) ==
  \/ Take(t, "register", "push")
  \/ Take(t, "process", "swap")
  \/ Take(t, "finish", "clear")
  \/ Take(t, "disable", "set")

\* ~AutoLock, and an AutoLock whose scope is too wide.
UnlockedMutant == lock
Unlocked == [lock EXCEPT ![Top] = NoThread]

\* Frames of ProcessCallbacksNow that have taken the tasks of m.
Running(t, m) ==
  {i \in DOMAIN calls[t] :
     calls[t][i].at \in {"run", "task", "finish", "clear"} /\ calls[t][i].manager = m}
IsProcessing(m) == \E t \in Threads : Running(t, m) # {}

\* stack_.push(), and a push at the wrong end.
PushedMutant(s, k) == <<k>> \o s
Pushed(s, k) == Append(s, k)

Push(t) ==
  /\ At(t, "push")
  /\ IF dcheck_is_on /\ Top \in processing_callbacks
       THEN Fail("processing")
       ELSE /\ registered' = registered + 1
            /\ stack' = [stack EXCEPT ![Top] = Pushed(@, registered')]
            /\ late' = IF IsProcessing(Top) THEN late \cup {registered'} ELSE late
            /\ lock' = Unlocked
            /\ Return(t)
            /\ UNCHANGED <<dcheck_is_on, managers, g_disable_managers,
                           processing_callbacks, finished, dropped, crash>>

\* What the swap leaves in stack_; a copy leaves it as it was.
Left == [stack EXCEPT ![Top] = <<>>]

Swap(t) ==
  /\ At(t, "swap")
  /\ calls' = [calls EXCEPT ![t][Len(calls[t])] =
                 [@ EXCEPT !.at = "run", !.tasks = stack[Top]]]
  /\ stack' = Left
  /\ processing_callbacks' =
       IF dcheck_is_on THEN processing_callbacks \cup {Top} ELSE processing_callbacks
  /\ lock' = Unlocked
  /\ UNCHANGED <<dcheck_is_on, managers, g_disable_managers, registered, late,
                 finished, dropped, crash>>

\* std::move(tasks.top()).Run(); the task stays in the local stack meanwhile.
RunTask(t) ==
  /\ At(t, "run")
  /\ Frame(t).tasks # <<>>
  /\ Goto(t, "task")
  /\ UNCHANGED <<dcheck_is_on, managers, g_disable_managers, stack,
                 processing_callbacks, lock, registered, late, finished,
                 dropped, crash>>

\* The task returns; tasks.pop().
PopTask(t) ==
  LET tasks == Frame(t).tasks IN
  /\ At(t, "task")
  /\ finished' = finished \cup {tasks[Len(tasks)]}
  /\ calls' = [calls EXCEPT ![t][Len(calls[t])] =
                 [@ EXCEPT !.at = "run", !.tasks = SubSeq(tasks, 1, Len(tasks) - 1)]]
  /\ UNCHANGED <<dcheck_is_on, managers, g_disable_managers, stack,
                 processing_callbacks, lock, registered, late, dropped, crash>>

\* The loop is over: a build without DCHECKs returns.
EndLoop(t) ==
  /\ At(t, "run")
  /\ Frame(t).tasks = <<>>
  /\ IF dcheck_is_on THEN Goto(t, "finish") ELSE Return(t)
  /\ UNCHANGED <<dcheck_is_on, managers, g_disable_managers, stack,
                 processing_callbacks, lock, registered, late, finished,
                 dropped, crash>>

\* processing_callbacks_ = false, and forgotten.
ClearedMutant == processing_callbacks
Cleared == processing_callbacks \ {Top}

\* DCHECK(g_top_manager->stack_.empty()), and the check left out.
MissesTasksMutant == FALSE
MissesTasks == stack[Top] # <<>>

Clear(t) ==
  /\ At(t, "clear")
  /\ IF MissesTasks
       THEN Fail("not_empty")
       ELSE /\ processing_callbacks' = Cleared
            /\ lock' = Unlocked
            /\ Return(t)
            /\ UNCHANGED <<dcheck_is_on, managers, g_disable_managers, stack,
                           registered, late, finished, dropped, crash>>

Set(t) ==
  /\ At(t, "set")
  /\ g_disable_managers' = TRUE
  /\ lock' = Unlocked
  /\ Return(t)
  /\ UNCHANGED <<dcheck_is_on, managers, stack, processing_callbacks,
                 registered, late, finished, dropped, crash>>

Next ==
  \/ \E m \in Managers, shadow \in BOOLEAN : Construct(m, shadow)
  \/ Destroy
  \/ EndDestroy
  \/ \E t \in Threads :
       \/ RegisterTask(t) \/ ProcessCallbacksNow(t) \/ DisableAllAtExitManagers(t)
       \/ NoManager(t) \/ TakeLock(t)
       \/ Push(t) \/ Swap(t) \/ RunTask(t) \/ PopTask(t) \/ EndLoop(t)
       \/ Clear(t) \/ Set(t)

Spec == Init /\ [][Next]_vars

-----------------------------------------------------------------------------
FrameType == [at : Places, manager : Managers, tasks : Seq(Nat)]

\* A call in progress has a manager to work on.
TypeOK ==
  /\ dcheck_is_on \in BOOLEAN
  /\ managers \in Seq(Managers)
  /\ g_disable_managers \in BOOLEAN
  /\ stack \in [Managers -> Seq(Nat)]
  /\ processing_callbacks \in SUBSET Managers
  /\ lock \in [Managers -> Threads \cup {NoThread}]
  /\ calls \in [Threads -> Seq(FrameType)]
  /\ \A t \in Threads : calls[t] # <<>> => managers # <<>>
  /\ registered \in Nat
  /\ late \in SUBSET Nat /\ finished \in SUBSET Nat /\ dropped \in SUBSET Nat
  /\ crash \in Crashes

\* at_exit.h: "Calls the functions registered with RegisterCallback in LIFO
\* order".  A task that has run was the newest of those its thread had taken
\* from the manager, those of the calls around the innermost one included.
NewestFirst ==
  [][\A k \in finished' \ finished :
       \E t \in Threads :
         /\ At(t, "task")
         /\ \A i \in Running(t, Frame(t).manager) :
              \A n \in Tasks(calls[t][i].tasks) : n <= k]_vars

\* A task is dropped only by a manager that was disabled, or, in a build
\* without DCHECKs, because it was registered while tasks were being run.
NothingIsDropped ==
  g_disable_managers \/ dropped \subseteq (IF dcheck_is_on THEN {} ELSE late)

\* The DCHECKs about callbacks fail only when a task has been registered while
\* tasks were being run, and destructors find their manager on top.
OnlyLateRegistrationsFail ==
  /\ crash = "processing" => \E m \in Managers : IsProcessing(m)
  /\ crash = "not_empty" => late # {}
  /\ crash # "not_top"

\* at_exit.cc: tasks run without the lock "so we don't deadlock".  Whoever has
\* the lock of a manager is in a block under it, where it waits for nothing.
HolderNeverWaits ==
  \A m \in Managers, t \in Threads :
    lock[m] = t => m = Top /\ Where(t) \in {"push", "swap", "clear", "set"}
=============================================================================
