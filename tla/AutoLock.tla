------------------------------ MODULE AutoLock ------------------------------
(***************************************************************************)
(* The scoped helpers of lock.h on top of Lock: a thread that uses them    *)
(* has a stack of helper objects whose constructors and destructors are    *)
(* its only calls of Acquire, Try and Release.  The other threads call     *)
(* these directly, also against their contract (Misuse).                   *)
(*                                                                         *)
(* A scope object is a record: its class, its lock_ (NoLock when null, or  *)
(* when an AutoTryLock did not get it), and the LockTracking with which    *)
(* the lock it covers was last acquired.                                   *)
(***************************************************************************)
EXTENDS Lock

CONSTANTS
  Scoped,    \* the threads that use the helpers
  MaxScopes  \* bound: helper objects such a thread has at once

ASSUME ScopedAssumption == Scoped \subseteq Threads /\ MaxScopes \in Nat

VARIABLE scopes

scopeVars == <<vars, scopes>>

Classes == {"AutoLock", "MovableAutoLock", "AutoTryLock", "AutoUnlock",
            "AutoLockMaybe", "ReleasableAutoLock"}

Scope(class, l, tr) == [class |-> class, lock |-> l, tracking |-> tr]

ScopeInit == Init /\ scopes = [t \in Threads |-> <<>>]

Push(t, scope) ==
  /\ Len(scopes[t]) < MaxScopes
  /\ scopes' = [scopes EXCEPT ![t] = Append(@, scope)]

Top(t) == scopes[t][Len(scopes[t])]
Popped(s) == SubSeq(s, 1, Len(s) - 1)

\* The innermost helper of t that refers to l decides whether t holds l.
On(t, l) == {i \in DOMAIN scopes[t] : scopes[t][i].lock = l}
Innermost(t, l) == CHOOSE i \in On(t, l) : \A j \in On(t, l) : j <= i
CoversClass(class) == class # "AutoUnlock"
Covered(t, l) == On(t, l) # {} /\ CoversClass(scopes[t][Innermost(t, l)].class)

\* The contract: t does not acquire what its scopes cover.
OpenAcquiring(t, class, l, tr) ==
  /\ class \in {"AutoLock", "MovableAutoLock", "AutoLockMaybe", "ReleasableAutoLock"}
  /\ ~Covered(t, l)
  /\ Acquire(t, l, tr)
  /\ Push(t, Scope(class, l, tr))

\* AutoLockMaybe(nullptr) touches no lock.
OpenMaybeNull(t) ==
  /\ At(t, "idle")
  /\ Push(t, Scope("AutoLockMaybe", NoLock, "kDisabled"))
  /\ UNCHANGED vars

OpenAutoTryLock(t, l, tr) ==
  /\ ~Covered(t, l)
  /\ \/ Try(t, l, tr) /\ Push(t, Scope("AutoTryLock", l, tr))
     \/ /\ At(t, "idle")
        /\ native_handle[l] # NoThread
        /\ Push(t, Scope("AutoTryLock", NoLock, "kDisabled"))
        /\ UNCHANGED vars

OpenAutoUnlock(t, l) ==
  /\ Covered(t, l)
  /\ Release(t, l)
  /\ Push(t, Scope("AutoUnlock", l, "kDisabled"))

\* What a move leaves (std::exchange(other.lock_, nullptr)), and an early
\* release (lock_ = nullptr); the mutant leaves the pointer.
MovedFromMutant(scope) == scope
MovedFrom(scope) == Scope(scope.class, NoLock, "kDisabled")

\* The move constructor makes a new helper that takes over the lock.
Move(t, i) ==
  LET from == scopes[t][i] IN
  /\ At(t, "idle")
  /\ from.class = "MovableAutoLock"
  /\ Len(scopes[t]) < MaxScopes
  /\ \A j \in On(t, from.lock) : j <= i
  /\ scopes' = [scopes EXCEPT ![t] = Append([@ EXCEPT ![i] = MovedFrom(from)], from)]
  /\ UNCHANGED vars

\* ReleasableAutoLock::Release, at most once and only while it covers.
ReleaseEarly(t, i) ==
  LET scope == scopes[t][i] IN
  /\ scope.class = "ReleasableAutoLock"
  /\ scope.lock # NoLock
  /\ i = Innermost(t, scope.lock)
  /\ Release(t, scope.lock)
  /\ scopes' = [scopes EXCEPT ![t][i] = MovedFrom(@)]

\* Lock.Acquire() of ~AutoUnlock has the default tracking, kDisabled: the
\* helper that covers l again covers an acquisition that is not tracked.  The
\* mutant believes the tracking survived.
Reacquired(s, l) ==
  [i \in DOMAIN s |-> IF s[i].lock = l THEN [s[i] EXCEPT !.tracking = "kDisabled"] ELSE s[i]]

\* The destructors: nothing for a null lock_, Acquire for an AutoUnlock, and
\* AssertAcquired and Release for the others.
Close(t) ==
  /\ scopes[t] # <<>>
  /\ LET scope == Top(t)
         rest == Popped(scopes[t])
     IN  CASE scope.lock = NoLock ->
                /\ At(t, "idle")
                /\ scopes' = [scopes EXCEPT ![t] = rest]
                /\ UNCHANGED vars
           [] scope.lock # NoLock /\ CoversClass(scope.class) ->
                /\ Release(t, scope.lock)
                /\ scopes' = [scopes EXCEPT ![t] = rest]
           [] OTHER ->
                /\ Acquire(t, scope.lock, "kDisabled")
                /\ scopes' = [scopes EXCEPT ![t] = Reacquired(rest, scope.lock)]

OpenOrClose(t) ==
  \/ \E class \in Classes, l \in Locks, tr \in {"kDisabled", "kEnabled"} :
       OpenAcquiring(t, class, l, tr)
  \/ \E l \in Locks, tr \in {"kDisabled", "kEnabled"} : OpenAutoTryLock(t, l, tr)
  \/ \E l \in Locks : OpenAutoUnlock(t, l)
  \/ OpenMaybeNull(t)
  \/ \E i \in DOMAIN scopes[t] : Move(t, i) \/ ReleaseEarly(t, i)
  \/ Close(t)

Direct(t) ==
  /\ \E l \in Locks :
       \/ \E tr \in {"kDisabled", "kEnabled"} : Acquire(t, l, tr) \/ Try(t, l, tr)
       \/ Release(t, l)
  /\ UNCHANGED scopes

StepInCall(t) == Step(t) /\ UNCHANGED scopes

ScopeNext ==
  \/ \E t \in Scoped : OpenOrClose(t)
  \/ \E t \in Threads \ Scoped : Direct(t)
  \/ \E t \in Threads : StepInCall(t)

\* The threads are scheduled: one that is inside a call and can go on, does.
ScopeSpec ==
  ScopeInit /\ [][ScopeNext]_scopeVars /\ \A t \in Threads : WF_scopeVars(StepInCall(t))

-----------------------------------------------------------------------------
\* Outside the calls, a thread holds exactly the locks its helper objects
\* cover: none is leaked by a move, an early release or an unlocked region,
\* and none is released under a helper that still covers it, whatever the
\* threads without helpers do.
HoldsWhatIsCovered ==
  crash = "none" =>
    \A t \in Scoped, l \in Locks :
      pc[t] = "idle" => (owning_thread_ref[l] = t <=> Covered(t, l))

\* GetTrackedLocksHeldByCurrentThread lists exactly the covered locks whose
\* acquisition now in force asked for tracking; a lock acquired again by
\* ~AutoUnlock is not among them.
TrackedAsAcquired ==
  crash = "none" =>
    \A t \in Scoped, l \in Locks :
      pc[t] = "idle" =>
        ((\E i \in DOMAIN tracked_locks[t] : tracked_locks[t][i] = l) <=>
          (Covered(t, l) /\ scopes[t][Innermost(t, l)].tracking = "kEnabled"))

\* No check of Lock fails but for what a caller does: a lock acquired again or
\* released by another thread, or more tracked locks than there is room for.
OnlyCallersFail == crash \in {"none", "EDEADLK", "not_owner", "capacity"}

\* The helpers leave the locks as their scopes say: held and tracked.
HelpersAreExact == HoldsWhatIsCovered /\ TrackedAsAcquired
=============================================================================
