-------------------------------- MODULE Lock --------------------------------
(***************************************************************************)
(* base::Lock in a build with DCHECKs: the native mutex of LockImpl, the   *)
(* owner recorded for AssertAcquired, and the thread-local list of locks   *)
(* held with LockTracking::kEnabled.  owning_thread_ref_ and the flag      *)
(* in_tracked_locks_held_by_current_thread_ are plain members "protected   *)
(* by lock_"; a step is one access to what other threads can see: the      *)
(* native mutex, the owner, the flag with the thread's own list.           *)
(*                                                                         *)
(* A failed CHECK or DCHECK ends the process (crash).                      *)
(***************************************************************************)
EXTENDS Integers, Sequences

CONSTANTS
  Threads,            \* the threads
  Locks,              \* the Lock objects
  NoThread,           \* the null PlatformThreadRef
  NoLock,             \* not a lock
  kHeldLocksCapacity, \* size of g_tracked_locks_held_by_thread
  ErrorCheckMutex,    \* the native mutex is PTHREAD_MUTEX_ERRORCHECK: POSIX
                      \* without NDEBUG; not so with NDEBUG or an SRWLOCK
  Misuse              \* what callers do against the contract of Lock

ASSUME NoThreadAssumption == NoThread \notin Threads
ASSUME NoLockAssumption == NoLock \notin Locks
ASSUME CapacityAssumption == kHeldLocksCapacity \in Nat \ {0}
ASSUME ErrorCheckAssumption == ErrorCheckMutex \in BOOLEAN
ASSUME MisuseAssumption == Misuse \subseteq {"reacquire", "foreign_release"}

VARIABLES
  native_handle,      \* the thread that has the native mutex of each lock
  owning_thread_ref,  \* owning_thread_ref_
  in_tracked,         \* locks whose in_tracked_locks_held_by_current_thread_
                      \* is set
  tracked_locks,      \* g_tracked_locks_held_by_thread of each thread
  pc,                 \* where the thread is inside Lock
  lock,               \* the lock it was called on, NoLock when idle
  tracking,           \* the LockTracking argument, kDisabled when idle
  crash               \* "none", or the check that failed

vars == <<native_handle, owning_thread_ref, in_tracked, tracked_locks, pc,
          lock, tracking, crash>>

PcValues == {"idle", "LockInternal", "Add", "Mark", "Remove", "Unlock"}

Crashes == {"none", "EDEADLK", "add_twice", "capacity", "not_null", "not_owner"}

Init ==
  /\ native_handle = [l \in Locks |-> NoThread]
  /\ owning_thread_ref = [l \in Locks |-> NoThread]
  /\ in_tracked = {}
  /\ tracked_locks = [t \in Threads |-> <<>>]
  /\ pc = [t \in Threads |-> "idle"]
  /\ lock = [t \in Threads |-> NoLock]
  /\ tracking = [t \in Threads |-> "kDisabled"]
  /\ crash = "none"

At(t, where) == crash = "none" /\ pc[t] = where

Goto(t, where) == pc' = [pc EXCEPT ![t] = where]

Call(t, l, tr) ==
  /\ lock' = [lock EXCEPT ![t] = l]
  /\ tracking' = [tracking EXCEPT ![t] = tr]

Return(t) == Goto(t, "idle") /\ Call(t, NoLock, "kDisabled")

InCall == UNCHANGED <<lock, tracking>>

\* The native mutex is t's: Acquire and Try go on to the bookkeeping.
Take(t, l) ==
  /\ native_handle[l] = NoThread
  /\ native_handle' = [native_handle EXCEPT ![l] = t]

AfterTake(tr) == IF tr = "kEnabled" THEN "Add" ELSE "Mark"

-----------------------------------------------------------------------------
\* Lock::Acquire calls LockImpl::Lock: Try() first, then LockInternal().
Acquire(t, l, tr) ==
  /\ At(t, "idle")
  /\ "reacquire" \in Misuse \/ native_handle[l] # t
  /\ Call(t, l, tr)
  /\ \/ Take(t, l) /\ Goto(t, AfterTake(tr))
     \/ /\ native_handle[l] # NoThread
        /\ Goto(t, "LockInternal")
        /\ UNCHANGED native_handle
  /\ UNCHANGED <<owning_thread_ref, in_tracked, tracked_locks, crash>>

\* Lock::Try; when LockImpl::Try fails it returns false and changes nothing.
Try(t, l, tr) ==
  /\ At(t, "idle")
  /\ Call(t, l, tr)
  /\ Take(t, l)
  /\ Goto(t, AfterTake(tr))
  /\ UNCHANGED <<owning_thread_ref, in_tracked, tracked_locks, crash>>

\* The mutex reports that its own holder asks for it; one that never does.
ReportsHolderMutant(t) == FALSE
ReportsHolder(t) == ErrorCheckMutex /\ native_handle[lock[t]] = t

\* pthread_mutex_lock: it waits for the mutex, except that an error-checking
\* mutex answers its own holder with EDEADLK, which the DCHECK refuses.
LockInternal(t) ==
  /\ At(t, "LockInternal")
  /\ \/ /\ Take(t, lock[t])
        /\ Goto(t, AfterTake(tracking[t]))
        /\ UNCHANGED crash
     \/ /\ ReportsHolder(t)
        /\ crash' = "EDEADLK"
        /\ UNCHANGED <<native_handle, pc>>
  /\ InCall
  /\ UNCHANGED <<owning_thread_ref, in_tracked, tracked_locks>>

AddToLocksHeldOnCurrentThread(t) ==
  LET l == lock[t] IN
  /\ At(t, "Add")
  /\ CASE l \in in_tracked ->
            crash' = "add_twice" /\ UNCHANGED <<in_tracked, tracked_locks, pc>>
       [] l \notin in_tracked /\ Len(tracked_locks[t]) >= kHeldLocksCapacity ->
            crash' = "capacity" /\ UNCHANGED <<in_tracked, tracked_locks, pc>>
       [] OTHER ->
            /\ tracked_locks' = [tracked_locks EXCEPT ![t] = Append(@, l)]
            /\ in_tracked' = in_tracked \cup {l}
            /\ Goto(t, "Mark")
            /\ UNCHANGED crash
  /\ InCall
  /\ UNCHANGED <<native_handle, owning_thread_ref>>

CheckUnheldAndMark(t) ==
  LET l == lock[t] IN
  /\ At(t, "Mark")
  /\ IF owning_thread_ref[l] = NoThread
       THEN /\ owning_thread_ref' = [owning_thread_ref EXCEPT ![l] = t]
            /\ Return(t)
            /\ UNCHANGED crash
       ELSE crash' = "not_null" /\ InCall /\ UNCHANGED <<owning_thread_ref, pc>>
  /\ UNCHANGED <<native_handle, in_tracked, tracked_locks>>

\* The DCHECK of CheckHeldAndUnmark and AssertAcquired, and a weaker one that
\* only asks for some owner.
IsHeldBy(t, l) == owning_thread_ref[l] = t

\* owning_thread_ref_ = PlatformThreadRef(), and the assignment forgotten.
UnmarkedMutant(l) == owning_thread_ref
Unmarked(l) == [owning_thread_ref EXCEPT ![l] = NoThread]

\* Lock::Release: CheckHeldAndUnmark, then the list if the lock is in it, then
\* Unlock.  The owner is read before anything is known of the mutex.
Release(t, l) ==
  /\ At(t, "idle")
  /\ "foreign_release" \in Misuse \/ native_handle[l] = t
  /\ Call(t, l, "kDisabled")
  /\ IF IsHeldBy(t, l)
       THEN /\ owning_thread_ref' = Unmarked(l)
            /\ Goto(t, IF l \in in_tracked THEN "Remove" ELSE "Unlock")
            /\ UNCHANGED crash
       ELSE crash' = "not_owner" /\ UNCHANGED <<owning_thread_ref, pc>>
  /\ UNCHANGED <<native_handle, in_tracked, tracked_locks>>

\* The list without l: the last entry takes the place of the last one equal to
\* l.  The mutant drops the last entry whatever it is.
WithoutLastMutant(s, l) == SubSeq(s, 1, Len(s) - 1)
Without(s, l) ==
  IF \E i \in DOMAIN s : s[i] = l
    THEN LET index == CHOOSE i \in DOMAIN s :
                        s[i] = l /\ \A j \in DOMAIN s : s[j] = l => j <= i
         IN  SubSeq([s EXCEPT ![index] = s[Len(s)]], 1, Len(s) - 1)
    ELSE s

\* in_tracked_locks_held_by_current_thread_ = false, and forgotten.
UnflaggedMutant(l) == in_tracked
Unflagged(l) == in_tracked \ {l}

RemoveFromLocksHeldOnCurrentThread(t) ==
  /\ At(t, "Remove")
  /\ tracked_locks' = [tracked_locks EXCEPT ![t] = Without(@, lock[t])]
  /\ in_tracked' = Unflagged(lock[t])
  /\ Goto(t, "Unlock")
  /\ InCall
  /\ UNCHANGED <<native_handle, owning_thread_ref, crash>>

Unlock(t) ==
  /\ At(t, "Unlock")
  /\ native_handle' = [native_handle EXCEPT ![lock[t]] = NoThread]
  /\ Return(t)
  /\ UNCHANGED <<owning_thread_ref, in_tracked, tracked_locks, crash>>

Next ==
  \E t \in Threads :
    \/ \E l \in Locks, tr \in {"kDisabled", "kEnabled"} :
         Acquire(t, l, tr) \/ Try(t, l, tr)
    \/ \E l \in Locks : Release(t, l)
    \/ LockInternal(t)
    \/ AddToLocksHeldOnCurrentThread(t)
    \/ CheckUnheldAndMark(t)
    \/ RemoveFromLocksHeldOnCurrentThread(t)
    \/ Unlock(t)

Spec == Init /\ [][Next]_vars

\* The threads are scheduled: one that is inside a call and can go on, does.
Step(t) ==
  \/ LockInternal(t)
  \/ AddToLocksHeldOnCurrentThread(t)
  \/ CheckUnheldAndMark(t)
  \/ RemoveFromLocksHeldOnCurrentThread(t)
  \/ Unlock(t)

FairSpec == Spec /\ \A t \in Threads : WF_vars(Step(t))

-----------------------------------------------------------------------------
TypeOK ==
  /\ native_handle \in [Locks -> Threads \cup {NoThread}]
  /\ owning_thread_ref \in [Locks -> Threads \cup {NoThread}]
  /\ in_tracked \in SUBSET Locks
  /\ tracked_locks \in [Threads -> Seq(Locks)]
  /\ pc \in [Threads -> PcValues]
  /\ lock \in [Threads -> Locks \cup {NoLock}]
  /\ \A t \in Threads : pc[t] # "idle" => lock[t] \in Locks
  /\ tracking \in [Threads -> {"kEnabled", "kDisabled"}]
  /\ crash \in Crashes

\* t is inside a call that has l's mutex: it took it and has not yet marked
\* itself the owner, or it is no longer the owner and has not yet let go.
Handling(t, l) == lock[t] = l /\ pc[t] \in {"Add", "Mark", "Remove", "Unlock"}

\* The owner AssertAcquired and AssertNotHeld read is right whenever it can be
\* acted on: a thread recorded as owner has the mutex, and a thread that has
\* the mutex is recorded except inside its own Acquire, Try or Release.  So
\* AssertAcquired never fails for the holder and never passes for another
\* thread, in any interleaving and even when callers misuse the lock.
OwnerIsHolder ==
  \A l \in Locks, t \in Threads :
    /\ owning_thread_ref[l] = t => native_handle[l] = t /\ ~Handling(t, l)
    /\ native_handle[l] = t /\ crash = "none" /\ ~Handling(t, l) =>
         owning_thread_ref[l] = t
    /\ Handling(t, l) => native_handle[l] = t

\* GetTrackedLocksHeldByCurrentThread: the list of each thread holds exactly
\* the locks it has whose flag is set, each once, whatever the order they are
\* released in.
TrackedListIsExact ==
  \A t \in Threads :
    /\ \A l \in Locks :
         (l \in in_tracked /\ native_handle[l] = t)
           <=> (\E i \in DOMAIN tracked_locks[t] : tracked_locks[t][i] = l)
    /\ \A i, j \in DOMAIN tracked_locks[t] :
         tracked_locks[t][i] = tracked_locks[t][j] => i = j

\* lock.h: "Acquiring a lock that is already held by the calling thread is not
\* supported and results in a CHECK() failure", where the native mutex can tell.
ReacquireFails ==
  \A t \in Threads :
    (pc[t] = "LockInternal" /\ native_handle[lock[t]] = t) ~> crash # "none"

\* Lock implements AbstractLock, with the owner that AssertAcquired sees as the
\* holder: misuse is what the checks say it is, and nothing else fails.
Abstract == INSTANCE AbstractLock WITH holder <- owning_thread_ref

ImplementsAbstractLock == Abstract!Spec
=============================================================================
