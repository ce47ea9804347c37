---------------------------- MODULE ThreadIdCache ----------------------------
(***************************************************************************)
(* GetCurrentThreadId on Linux: each thread keeps its id in thread-local   *)
(* storage, and after a fork the id of the only thread of the child is     *)
(* stale.  A pthread_atfork handler may not touch thread-local storage, so *)
(* it clears one atomic flag, which the main thread looks at.              *)
(*                                                                         *)
(* The module follows one line of descent: after a fork it goes on with    *)
(* the child, since the parent is as it was.  The kernel's ids can be used *)
(* again once their thread, or process, is gone.                           *)
(***************************************************************************)
EXTENDS Naturals, FiniteSets

CONSTANTS
  Threads,      \* threads, by the memory their thread-local variables have
  Tids,         \* the kernel's thread and process ids
  NoTid,        \* -1
  Builds,       \* the values of DCHECK_IS_ON()
  IdMisuse      \* {"raw_clone"}: forks that run no pthread_atfork handler

ASSUME NoTidAssumption == NoTid \notin Tids
ASSUME IdBuildsAssumption == Builds \subseteq BOOLEAN
ASSUME IdMisuseAssumption == IdMisuse \subseteq {"raw_clone"}

VARIABLES
  dcheck_is_on,   \* the build
  alive,          \* the threads of the process
  pid,            \* getpid()
  tid,            \* gettid() of each thread, NoTid for one that is not alive
  thread_id,      \* g_thread_id of each thread
  is_main,        \* the threads whose g_is_main_thread is true
  cache_valid,    \* g_main_thread_tid_cache_valid
  init_at_fork,   \* the static InitAtFork has registered the handler
  answer,         \* what GetCurrentThreadId last returned to each thread
  strayed,        \* a thread other than the main one has forked, or a fork has
                  \* run no handler
  id_crash        \* "none", or "fatal" after RAW_LOG(FATAL)

idVars == <<dcheck_is_on, alive, pid, tid, thread_id, is_main, cache_valid, init_at_fork, answer,
            strayed, id_crash>>

\* main() has not called GetCurrentThreadId yet.
IdInit ==
  /\ dcheck_is_on \in Builds
  /\ \E t \in Threads, n \in Tids :
       /\ alive = {t}
       /\ pid = n
       /\ tid = [u \in Threads |-> IF u = t THEN n ELSE NoTid]
       /\ thread_id = [u \in Threads |-> NoTid]
       /\ is_main = Threads
       /\ cache_valid = FALSE
       /\ init_at_fork = FALSE
       /\ answer = [u \in Threads |-> NoTid]
       /\ strayed = FALSE
       /\ id_crash = "none"

\* When the cached id is not to be used; the mutant only looks for none at all.
MustAskMutant(t) == thread_id[t] = NoTid
MustAsk(t) == thread_id[t] = NoTid \/ (t \in is_main /\ ~ cache_valid)

\* gettid, and whether it is the process id decides if this is the main thread.
Ask(t) ==
  /\ thread_id' = [thread_id EXCEPT ![t] = tid[t]]
  /\ answer' = [answer EXCEPT ![t] = tid[t]]
  /\ IF tid[t] = pid
       THEN cache_valid' = TRUE /\ UNCHANGED is_main
       ELSE is_main' = is_main \ {t} /\ UNCHANGED cache_valid
  /\ UNCHANGED id_crash

\* With DCHECKs a cached id that is not the kernel's is fatal.
IsFatal(t) == dcheck_is_on /\ thread_id[t] # tid[t]

UseCached(t) ==
  /\ IF IsFatal(t)
       THEN id_crash' = "fatal" /\ UNCHANGED answer
       ELSE answer' = [answer EXCEPT ![t] = thread_id[t]] /\ UNCHANGED id_crash
  /\ UNCHANGED <<thread_id, is_main, cache_valid>>

\* A whole call is one step: what it reads and writes is its thread's own, but
\* for cache_valid, which only the main thread uses or sets.
GetCurrentThreadId(t) ==
  /\ id_crash = "none" /\ t \in alive
  /\ init_at_fork' = TRUE
  /\ IF MustAsk(t) THEN Ask(t) ELSE UseCached(t)
  /\ UNCHANGED <<dcheck_is_on, alive, pid, tid, strayed>>

\* Fresh thread-local variables, and an id nobody has.
StartThread(t, n) ==
  /\ id_crash = "none" /\ t \notin alive
  /\ \A u \in alive : tid[u] # n
  /\ alive' = alive \cup {t}
  /\ tid' = [tid EXCEPT ![t] = n]
  /\ thread_id' = [thread_id EXCEPT ![t] = NoTid]
  /\ answer' = [answer EXCEPT ![t] = NoTid]
  /\ is_main' = is_main \cup {t}
  /\ UNCHANGED <<dcheck_is_on, pid, cache_valid, init_at_fork, strayed, id_crash>>

\* A thread other than the main one ends.
EndThread(t) ==
  /\ id_crash = "none" /\ t \in alive /\ tid[t] # pid
  /\ alive' = alive \ {t}
  /\ tid' = [tid EXCEPT ![t] = NoTid]
  /\ UNCHANGED <<dcheck_is_on, pid, thread_id, is_main, cache_valid, init_at_fork, answer,
                 strayed, id_crash>>

\* InvalidateTidCache, the handler that fork() runs in the child; the mutant leaves
\* the flag as it is.
InvalidateTidCacheMutant == cache_valid
InvalidateTidCache == FALSE

\* The child has a copy of the forking thread, with a new id, and only that.
Child(t, n) ==
  /\ \A u \in alive : tid[u] # n
  /\ alive' = {t}
  /\ pid' = n
  /\ tid' = [u \in Threads |-> IF u = t THEN n ELSE NoTid]
  /\ answer' = [answer EXCEPT ![t] = NoTid]
  /\ UNCHANGED <<dcheck_is_on, thread_id, is_main, init_at_fork, id_crash>>

Fork(t, n) ==
  /\ id_crash = "none" /\ t \in alive
  /\ Child(t, n)
  /\ strayed' = (strayed \/ tid[t] # pid)
  /\ cache_valid' = IF init_at_fork THEN InvalidateTidCache ELSE cache_valid

RawClone(t, n) ==
  /\ "raw_clone" \in IdMisuse
  /\ id_crash = "none" /\ t \in alive
  /\ Child(t, n)
  /\ strayed' = TRUE
  /\ UNCHANGED cache_valid

IdNext ==
  \E t \in Threads :
    \/ GetCurrentThreadId(t)
    \/ EndThread(t)
    \/ \E n \in Tids : StartThread(t, n) \/ Fork(t, n) \/ RawClone(t, n)

IdSpec == IdInit /\ [][IdNext]_idVars

-----------------------------------------------------------------------------
IdTypeOK ==
  /\ dcheck_is_on \in BOOLEAN
  /\ alive \in SUBSET Threads
  /\ pid \in Tids
  /\ tid \in [Threads -> Tids \cup {NoTid}]
  /\ \A t \in alive : tid[t] \in Tids
  /\ thread_id \in [Threads -> Tids \cup {NoTid}]
  /\ is_main \in SUBSET Threads
  /\ cache_valid \in BOOLEAN
  /\ init_at_fork \in BOOLEAN
  /\ answer \in [Threads -> Tids \cup {NoTid}]
  /\ strayed \in BOOLEAN
  /\ id_crash \in {"none", "fatal"}

\* GetCurrentThreadId never answers with an id this thread had in the parent:
\* the cached id is the kernel's whenever it is used, however often the process
\* forks, as long as only main threads do.  With DCHECKs it is so in any program.
AnswersAreCurrent ==
  dcheck_is_on \/ ~ strayed =>
    \A t \in alive : answer[t] # NoTid => answer[t] = tid[t]

\* What ThreadCollisionWarner rests on: two threads of a process never go by the
\* same id, although the kernel uses ids again.
IdsAreDistinct ==
  dcheck_is_on \/ ~ strayed =>
    \A t, u \in alive : answer[t] # NoTid /\ answer[t] = answer[u] => t = u

\* A call is fatal only after a fork that left the handler, or the main thread,
\* out: forks of main threads never leave a stale id that is used.
OnlyStraysAreFatal == id_crash = "fatal" => strayed

\* "Thread id stored in TLS is different from thread id returned by the system.
\* It is likely that the process was forked without going through fork()."
OnlyRawClonesAreFatal == id_crash = "none"
=============================================================================
