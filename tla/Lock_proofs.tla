----------------------------- MODULE Lock_proofs -----------------------------
(***************************************************************************)
(* For any threads, locks and capacity: Lock keeps its owner field right   *)
(* and its list of tracked locks exact whatever its callers do, and        *)
(* implements AbstractLock; and a thread that uses the scoped helpers      *)
(* holds what they cover, however many there are and whatever their order. *)
(***************************************************************************)
EXTENDS AutoLock, WellFoundedInduction, TLAPS

\* Every step of Lock keeps the types.
LEMMA TypeStep == TypeOK /\ [Next]_vars => TypeOK'
<1> SUFFICES ASSUME TypeOK, [Next]_vars PROVE TypeOK'
  OBVIOUS
<1> USE DEF TypeOK, At, Goto, Call, Return, InCall, Take, AfterTake, PcValues, Crashes
<1>1. ASSUME NEW t \in Threads, NEW l \in Locks, NEW tr \in {"kDisabled", "kEnabled"},
             Acquire(t, l, tr)
      PROVE  TypeOK'
  <2>1. CASE Take(t, l) /\ Goto(t, AfterTake(tr))
    BY <1>1, <2>1 DEF Acquire
  <2>2. CASE Goto(t, "LockInternal") /\ UNCHANGED native_handle
    BY <1>1, <2>2 DEF Acquire
  <2>3. QED
    BY <1>1, <2>1, <2>2 DEF Acquire
<1>2. ASSUME NEW t \in Threads, NEW l \in Locks, NEW tr \in {"kDisabled", "kEnabled"},
             Try(t, l, tr)
      PROVE  TypeOK'
  BY <1>2 DEF Try
<1>3. ASSUME NEW t \in Threads, NEW l \in Locks, Release(t, l) PROVE TypeOK'
  BY <1>3 DEF Release, Unmarked, IsHeldBy
<1>4. ASSUME NEW t \in Threads, LockInternal(t) PROVE TypeOK'
  BY <1>4 DEF LockInternal, ReportsHolder
<1>5. ASSUME NEW t \in Threads, AddToLocksHeldOnCurrentThread(t) PROVE TypeOK'
  <2>1. CASE pc' = pc /\ UNCHANGED <<in_tracked, tracked_locks>>
    BY <1>5, <2>1 DEF AddToLocksHeldOnCurrentThread
  <2>2. CASE /\ tracked_locks' = [tracked_locks EXCEPT ![t] = Append(@, lock[t])]
             /\ in_tracked' = in_tracked \cup {lock[t]}
             /\ Goto(t, "Mark")
             /\ UNCHANGED crash
    BY <1>5, <2>2 DEF AddToLocksHeldOnCurrentThread
  <2>3. QED
    BY <1>5, <2>1, <2>2 DEF AddToLocksHeldOnCurrentThread
<1>6. ASSUME NEW t \in Threads, CheckUnheldAndMark(t) PROVE TypeOK'
  <2>1. CASE owning_thread_ref[lock[t]] = NoThread
    <3> HIDE DEF TypeOK, PcValues, Crashes
    <3>1. owning_thread_ref' = [owning_thread_ref EXCEPT ![lock[t]] = t]
      BY <1>6, <2>1 DEF CheckUnheldAndMark
    <3>2. /\ UNCHANGED <<native_handle, in_tracked, tracked_locks, crash>>
          /\ tracking' = [tracking EXCEPT ![t] = "kDisabled"]
      BY <1>6, <2>1 DEF CheckUnheldAndMark
    <3>3. pc' = [pc EXCEPT ![t] = "idle"] /\ lock' = [lock EXCEPT ![t] = NoLock]
      BY <1>6, <2>1 DEF CheckUnheldAndMark
    <3> QED BY <3>1, <3>2, <3>3 DEF TypeOK, PcValues
  <2>2. CASE owning_thread_ref[lock[t]] # NoThread
    BY <1>6, <2>2 DEF CheckUnheldAndMark
  <2>3. QED
    BY <2>1, <2>2
<1>7. ASSUME NEW t \in Threads, RemoveFromLocksHeldOnCurrentThread(t) PROVE TypeOK'
  BY <1>7 DEF RemoveFromLocksHeldOnCurrentThread, Unflagged, Without
<1>8. ASSUME NEW t \in Threads, Unlock(t) PROVE TypeOK'
  BY <1>8 DEF Unlock
<1>9. CASE UNCHANGED vars
  BY <1>9 DEF vars
<1>10. QED
  BY <1>1, <1>2, <1>3, <1>4, <1>5, <1>6, <1>7, <1>8, <1>9 DEF Next

\* The types, crashes included, whatever callers do.
THEOREM TypeCorrect == Spec => []TypeOK
<1>1. Init => TypeOK
  BY DEF Init, TypeOK, PcValues, Crashes
<1> QED BY <1>1, TypeStep, PTL DEF Spec

-----------------------------------------------------------------------------
\* The owner AssertAcquired reads is right in every interleaving, also when
\* callers release what they do not hold or acquire what they do.
\* OwnerIsHolder is inductive with the types.
LEMMA OwnerStep == TypeOK /\ OwnerIsHolder /\ [Next]_vars => OwnerIsHolder'
<1> SUFFICES ASSUME TypeOK, OwnerIsHolder, [Next]_vars PROVE OwnerIsHolder'
  OBVIOUS
<1> USE NoThreadAssumption, NoLockAssumption
    DEF TypeOK, OwnerIsHolder, Handling, At, Goto, Call, Return, InCall, Take, AfterTake
<1>1. ASSUME NEW t \in Threads, NEW l \in Locks, NEW tr \in {"kDisabled", "kEnabled"},
             Acquire(t, l, tr)
      PROVE  OwnerIsHolder'
  <2>1. CASE Take(t, l) /\ Goto(t, AfterTake(tr))
    BY <1>1, <2>1 DEF Acquire
  <2>2. CASE Goto(t, "LockInternal") /\ UNCHANGED native_handle
    BY <1>1, <2>2 DEF Acquire
  <2>3. QED
    BY <1>1, <2>1, <2>2 DEF Acquire
<1>2. ASSUME NEW t \in Threads, NEW l \in Locks, NEW tr \in {"kDisabled", "kEnabled"},
             Try(t, l, tr)
      PROVE  OwnerIsHolder'
  BY <1>2 DEF Try
<1>3. ASSUME NEW t \in Threads, NEW l \in Locks, Release(t, l) PROVE OwnerIsHolder'
  <2>1. CASE IsHeldBy(t, l)
    BY <1>3, <2>1 DEF Release, IsHeldBy, Unmarked
  <2>2. CASE ~IsHeldBy(t, l)
    BY <1>3, <2>2 DEF Release
  <2>3. QED
    BY <2>1, <2>2
<1>4. ASSUME NEW t \in Threads, LockInternal(t) PROVE OwnerIsHolder'
  BY <1>4 DEF LockInternal, ReportsHolder
<1>5. ASSUME NEW t \in Threads, AddToLocksHeldOnCurrentThread(t) PROVE OwnerIsHolder'
  BY <1>5 DEF AddToLocksHeldOnCurrentThread
<1>6. ASSUME NEW t \in Threads, CheckUnheldAndMark(t) PROVE OwnerIsHolder'
  <2>1. CASE owning_thread_ref[lock[t]] = NoThread
    BY <1>6, <2>1 DEF CheckUnheldAndMark
  <2>2. CASE owning_thread_ref[lock[t]] # NoThread
    BY <1>6, <2>2 DEF CheckUnheldAndMark
  <2>3. QED
    BY <2>1, <2>2
<1>7. ASSUME NEW t \in Threads, RemoveFromLocksHeldOnCurrentThread(t) PROVE OwnerIsHolder'
  BY <1>7 DEF RemoveFromLocksHeldOnCurrentThread
<1>8. ASSUME NEW t \in Threads, Unlock(t) PROVE OwnerIsHolder'
  BY <1>8 DEF Unlock
<1>9. CASE UNCHANGED vars
  BY <1>9 DEF vars
<1>10. QED
  BY <1>1, <1>2, <1>3, <1>4, <1>5, <1>6, <1>7, <1>8, <1>9 DEF Next

\* owning_thread_ref_ names the holder of the mutex whenever the holder is not in
\* the middle of Acquire, Try or Release, and no one otherwise.
THEOREM OwnerCorrect == Spec => []OwnerIsHolder
<1>1. Init => OwnerIsHolder
  BY NoThreadAssumption DEF Init, OwnerIsHolder, Handling
<1>2. QED
  BY <1>1, OwnerStep, TypeCorrect, PTL DEF Spec

-----------------------------------------------------------------------------
\* The thread-local lists.  The flag of a lock is set only while somebody has
\* the mutex, and is clear when the holder is about to add it or to unlock.
FlagMeansHeld ==
  /\ \A l \in in_tracked : native_handle[l] # NoThread
  /\ \A t \in Threads : pc[t] \in {"Add", "Unlock"} => lock[t] \notin in_tracked

Mem(l, s) == \E i \in DOMAIN s : s[i] = l
NoRepeats(s) == \A i, j \in DOMAIN s : s[i] = s[j] => i = j

\* Removing an entry by moving the last one into its place keeps every other.
LEMMA WithoutIsExact ==
  ASSUME NEW S, NEW s \in Seq(S), NEW l \in S, NoRepeats(s)
  PROVE  /\ NoRepeats(Without(s, l))
         /\ ~Mem(l, Without(s, l))
         /\ \A m \in S : m # l => (Mem(m, Without(s, l)) <=> Mem(m, s))
<1>1. CASE ~Mem(l, s)
  BY <1>1 DEF Without, Mem
<1>2. CASE Mem(l, s)
  <2> DEFINE Last(i) == s[i] = l /\ \A j \in DOMAIN s : s[j] = l => j <= i
             index == CHOOSE i \in DOMAIN s : Last(i)
             n == Len(s)
             r == SubSeq([s EXCEPT ![index] = s[n]], 1, n - 1)
  <2>1. \E i \in DOMAIN s : Last(i)
    BY <1>2 DEF Mem, NoRepeats
  <2>2. index \in DOMAIN s /\ Last(index)
    BY <2>1
  <2>3. Without(s, l) = r
    BY <1>2 DEF Without, Mem
  <2> HIDE DEF index
  <2>4. n \in Nat /\ DOMAIN s = 1..n /\ index \in 1..n /\ s[index] = l
    BY <2>2
  <2>5. [s EXCEPT ![index] = s[n]] \in Seq(S) /\ Len([s EXCEPT ![index] = s[n]]) = n
    BY <2>4
  <2>6. DOMAIN r = 1..(n - 1)
    BY <2>4, <2>5
  <2>7. \A i \in 1..(n - 1) : r[i] = IF i = index THEN s[n] ELSE s[i]
    BY <2>4, <2>5
  <2>8. NoRepeats(r)
    BY <2>4, <2>6, <2>7 DEF NoRepeats
  <2>9. ~Mem(l, r)
    BY <2>4, <2>6, <2>7 DEF NoRepeats, Mem
  <2>10. ASSUME NEW m \in S, m # l PROVE Mem(m, r) <=> Mem(m, s)
    <3>1. ASSUME Mem(m, r) PROVE Mem(m, s)
      BY <2>4, <2>6, <2>7, <3>1 DEF Mem
    <3>2. ASSUME Mem(m, s) PROVE Mem(m, r)
      <4>1. PICK i \in 1..n : s[i] = m
        BY <2>4, <3>2 DEF Mem
      <4>2. CASE i = n
        <5>1. index \in 1..(n - 1)
          BY <2>4, <2>10, <4>1, <4>2
        <5>2. r[index] = m
          BY <2>7, <4>1, <4>2, <5>1
        <5>3. QED
          BY <2>6, <5>1, <5>2 DEF Mem
      <4>3. CASE i # n
        <5>1. i \in 1..(n - 1)
          <6> HIDE DEF n
          <6>1. n \in Nat /\ i \in 1..n /\ i # n
            BY <2>4, <4>1, <4>3
          <6>2. QED
            BY <6>1
        <5>2. i # index
          BY <2>4, <2>10, <4>1
        <5>3. r[i] = m
          BY <2>7, <4>1, <5>1, <5>2
        <5>4. QED
          BY <2>6, <5>1, <5>3 DEF Mem
      <4>4. QED
        BY <4>2, <4>3
    <3>3. QED
      BY <3>1, <3>2
  <2>11. QED
    BY <2>3, <2>8, <2>9, <2>10
<1>3. QED
  BY <1>1, <1>2

ListInv == FlagMeansHeld /\ TrackedListIsExact

\* Every step keeps in_tracked_locks_held_by_current_thread_ set only on held locks.
LEMMA FlagStep ==
  TypeOK /\ OwnerIsHolder /\ FlagMeansHeld /\ [Next]_vars => FlagMeansHeld'
<1> SUFFICES ASSUME TypeOK, OwnerIsHolder, FlagMeansHeld, [Next]_vars PROVE FlagMeansHeld'
  OBVIOUS
<1> USE NoThreadAssumption, NoLockAssumption
    DEF TypeOK, OwnerIsHolder, FlagMeansHeld, Handling, At, Goto, Call, Return, InCall,
        Take, AfterTake
<1>1. ASSUME NEW t \in Threads, NEW l \in Locks, NEW tr \in {"kDisabled", "kEnabled"},
             Acquire(t, l, tr)
      PROVE  FlagMeansHeld'
  <2>1. CASE Take(t, l) /\ Goto(t, AfterTake(tr))
    BY <1>1, <2>1 DEF Acquire
  <2>2. CASE Goto(t, "LockInternal") /\ UNCHANGED native_handle
    BY <1>1, <2>2 DEF Acquire
  <2>3. QED
    BY <1>1, <2>1, <2>2 DEF Acquire
<1>2. ASSUME NEW t \in Threads, NEW l \in Locks, NEW tr \in {"kDisabled", "kEnabled"},
             Try(t, l, tr)
      PROVE  FlagMeansHeld'
  BY <1>2 DEF Try
<1>3. ASSUME NEW t \in Threads, NEW l \in Locks, Release(t, l) PROVE FlagMeansHeld'
  <2>1. CASE IsHeldBy(t, l)
    BY <1>3, <2>1 DEF Release
  <2>2. CASE ~IsHeldBy(t, l)
    BY <1>3, <2>2 DEF Release
  <2>3. QED
    BY <2>1, <2>2
<1>4. ASSUME NEW t \in Threads, LockInternal(t) PROVE FlagMeansHeld'
  BY <1>4 DEF LockInternal, ReportsHolder
<1>5. ASSUME NEW t \in Threads, AddToLocksHeldOnCurrentThread(t) PROVE FlagMeansHeld'
  <2> DEFINE l == lock[t]
  <2>1. l \in Locks /\ native_handle[l] = t
    BY <1>5 DEF AddToLocksHeldOnCurrentThread
  <2>2. \A u \in Threads \ {t} : pc[u] \in {"Add", "Unlock"} => lock[u] # l
    BY <2>1
  <2>3. CASE pc' = pc /\ UNCHANGED in_tracked
    BY <1>5, <2>3 DEF AddToLocksHeldOnCurrentThread
  <2>4. CASE in_tracked' = in_tracked \cup {l} /\ Goto(t, "Mark")
    BY <1>5, <2>1, <2>2, <2>4 DEF AddToLocksHeldOnCurrentThread
  <2>5. QED
    BY <1>5, <2>3, <2>4 DEF AddToLocksHeldOnCurrentThread
<1>6. ASSUME NEW t \in Threads, CheckUnheldAndMark(t) PROVE FlagMeansHeld'
  BY <1>6 DEF CheckUnheldAndMark
<1>7. ASSUME NEW t \in Threads, RemoveFromLocksHeldOnCurrentThread(t) PROVE FlagMeansHeld'
  BY <1>7 DEF RemoveFromLocksHeldOnCurrentThread, Unflagged
<1>8. ASSUME NEW t \in Threads, Unlock(t) PROVE FlagMeansHeld'
  BY <1>8 DEF Unlock
<1>9. CASE UNCHANGED vars
  BY <1>9 DEF vars
<1>10. QED
  BY <1>1, <1>2, <1>3, <1>4, <1>5, <1>6, <1>7, <1>8, <1>9 DEF Next

\* TrackedListIsExact, with the entry of each list as a membership.
Exact(t) ==
  /\ \A l \in Locks : (l \in in_tracked /\ native_handle[l] = t) <=> Mem(l, tracked_locks[t])
  /\ NoRepeats(tracked_locks[t])

\* The per-thread form of the property is the property.
LEMMA ExactMeansListed == (\A t \in Threads : Exact(t)) <=> TrackedListIsExact
BY DEF Exact, TrackedListIsExact, Mem, NoRepeats

\* A step that takes or gives up only mutexes whose flag is clear, and leaves
\* flags and lists alone, keeps the lists exact.
LEMMA ExactKept ==
  ASSUME TypeOK, NEW u \in Threads, Exact(u),
         UNCHANGED <<in_tracked, tracked_locks>>,
         \A l \in in_tracked : native_handle'[l] = native_handle[l]
  PROVE  Exact(u)'
BY DEF Exact, Mem, NoRepeats, TypeOK

\* Every step keeps the list of each thread exact.
LEMMA ExactStep ==
  ASSUME TypeOK, OwnerIsHolder, FlagMeansHeld, [Next]_vars, NEW u \in Threads, Exact(u)
  PROVE  Exact(u)'
<1> USE NoThreadAssumption, NoLockAssumption
    DEF TypeOK, OwnerIsHolder, FlagMeansHeld, Handling, At, Goto, Take
<1>1. ASSUME NEW t \in Threads, NEW l \in Locks, NEW tr \in {"kDisabled", "kEnabled"},
             Acquire(t, l, tr) \/ Try(t, l, tr)
      PROVE  Exact(u)'
  <2>1. UNCHANGED <<in_tracked, tracked_locks>>
    BY <1>1 DEF Acquire, Try
  <2>2. \A m \in in_tracked : native_handle'[m] = native_handle[m]
    BY <1>1 DEF Acquire, Try
  <2>3. QED
    BY <2>1, <2>2, ExactKept
<1>2. ASSUME NEW t \in Threads, NEW l \in Locks, Release(t, l) PROVE Exact(u)'
  BY <1>2, ExactKept DEF Release
<1>3. ASSUME NEW t \in Threads, LockInternal(t) PROVE Exact(u)'
  <2>1. UNCHANGED <<in_tracked, tracked_locks>>
    BY <1>3 DEF LockInternal
  <2>2. \A m \in in_tracked : native_handle'[m] = native_handle[m]
    BY <1>3 DEF LockInternal
  <2>3. QED
    BY <2>1, <2>2, ExactKept
<1>4. ASSUME NEW t \in Threads, AddToLocksHeldOnCurrentThread(t) PROVE Exact(u)'
  <2> DEFINE l == lock[t]
  <2>1. l \in Locks /\ native_handle[l] = t /\ l \notin in_tracked /\ UNCHANGED native_handle
    BY <1>4 DEF AddToLocksHeldOnCurrentThread
  <2>2. CASE UNCHANGED <<in_tracked, tracked_locks>>
    BY <2>1, <2>2, ExactKept
  <2>3. CASE /\ tracked_locks' = [tracked_locks EXCEPT ![t] = Append(@, l)]
             /\ in_tracked' = in_tracked \cup {l}
    <3>1. CASE u # t
      <4>1. tracked_locks'[u] = tracked_locks[u]
        BY <2>3, <3>1
      <4>2. \A m \in Locks : (m \in in_tracked /\ native_handle[m] = u)
                               <=> (m \in in_tracked' /\ native_handle'[m] = u)
        BY <2>1, <2>3, <3>1
      <4>3. QED
        BY <4>1, <4>2 DEF Exact
    <3>2. CASE u = t
      <4> DEFINE s == tracked_locks[t]
      <4>1. s \in Seq(Locks) /\ tracked_locks'[u] = Append(s, l)
        BY <2>3, <3>2
      <4>2. ~Mem(l, s) /\ NoRepeats(s)
        BY <2>1, <3>2 DEF Exact
      <4>3. NoRepeats(Append(s, l))
        BY <2>1, <4>1, <4>2 DEF NoRepeats, Mem
      <4>4. \A m \in Locks : Mem(m, Append(s, l)) <=> (Mem(m, s) \/ m = l)
        <5> HIDE DEF s, l
        <5> TAKE m \in Locks
        <5>1. ASSUME Mem(m, Append(s, l)) PROVE Mem(m, s) \/ m = l
          BY <2>1, <4>1, <5>1 DEF Mem
        <5>2. ASSUME m = l PROVE Mem(m, Append(s, l))
          <6>1. Len(s) + 1 \in DOMAIN Append(s, l) /\ Append(s, l)[Len(s) + 1] = l
            BY <2>1, <4>1
          <6>2. QED
            BY <5>2, <6>1 DEF Mem
        <5>3. ASSUME Mem(m, s) PROVE Mem(m, Append(s, l))
          <6>1. PICK i \in DOMAIN s : s[i] = m
            BY <5>3 DEF Mem
          <6>2. i \in DOMAIN Append(s, l) /\ Append(s, l)[i] = m
            BY <2>1, <4>1, <6>1
          <6>3. QED
            BY <6>2 DEF Mem
        <5>4. QED
          BY <5>1, <5>2, <5>3
      <4>5. \A m \in Locks : (m \in in_tracked' /\ native_handle'[m] = u)
                               <=> (Mem(m, s) \/ m = l)
        BY <2>1, <2>3, <3>2 DEF Exact
      <4>6. QED
        BY <4>1, <4>3, <4>4, <4>5 DEF Exact
    <3>3. QED
      BY <3>1, <3>2
  <2>4. QED
    BY <1>4, <2>2, <2>3 DEF AddToLocksHeldOnCurrentThread
<1>5. ASSUME NEW t \in Threads, CheckUnheldAndMark(t) PROVE Exact(u)'
  BY <1>5, ExactKept DEF CheckUnheldAndMark
<1>6. ASSUME NEW t \in Threads, RemoveFromLocksHeldOnCurrentThread(t) PROVE Exact(u)'
  <2> DEFINE l == lock[t]
  <2>1. l \in Locks /\ native_handle[l] = t /\ UNCHANGED native_handle
    BY <1>6 DEF RemoveFromLocksHeldOnCurrentThread
  <2>2. /\ tracked_locks' = [tracked_locks EXCEPT ![t] = Without(@, l)]
        /\ in_tracked' = in_tracked \ {l}
    BY <1>6 DEF RemoveFromLocksHeldOnCurrentThread, Unflagged
  <2>3. CASE u # t
    <3>1. tracked_locks'[u] = tracked_locks[u]
      BY <2>2, <2>3
    <3>2. \A m \in Locks : (m \in in_tracked /\ native_handle[m] = u)
                             <=> (m \in in_tracked' /\ native_handle'[m] = u)
      BY <2>1, <2>2, <2>3
    <3>3. QED
      BY <3>1, <3>2 DEF Exact
  <2>4. CASE u = t
    <3> DEFINE s == tracked_locks[t]
    <3>1. s \in Seq(Locks) /\ tracked_locks'[u] = Without(s, l) /\ NoRepeats(s)
      BY <2>2, <2>4 DEF Exact
    <3>2. /\ NoRepeats(Without(s, l))
          /\ ~Mem(l, Without(s, l))
          /\ \A m \in Locks : m # l => (Mem(m, Without(s, l)) <=> Mem(m, s))
      BY <2>1, <3>1, WithoutIsExact
    <3>3. QED
      BY <2>1, <2>2, <2>4, <3>1, <3>2 DEF Exact
  <2>5. QED
    BY <2>3, <2>4
<1>7. ASSUME NEW t \in Threads, Unlock(t) PROVE Exact(u)'
  <2>1. UNCHANGED <<in_tracked, tracked_locks>>
    BY <1>7 DEF Unlock
  <2>2. \A m \in in_tracked : native_handle'[m] = native_handle[m]
    BY <1>7 DEF Unlock
  <2>3. QED
    BY <2>1, <2>2, ExactKept
<1>8. CASE UNCHANGED vars
  BY <1>8, ExactKept DEF vars
<1>9. QED
  BY <1>1, <1>2, <1>3, <1>4, <1>5, <1>6, <1>7, <1>8 DEF Next

\* Every step keeps all the lists exact.
LEMMA ListStep ==
  TypeOK /\ OwnerIsHolder /\ FlagMeansHeld /\ TrackedListIsExact /\ [Next]_vars
    => TrackedListIsExact'
BY ExactStep, ExactMeansListed DEF TrackedListIsExact, Exact, Mem, NoRepeats

\* The list of tracked locks is exact, also after releases out of order.
THEOREM TrackedListsCorrect == Spec => []TrackedListIsExact
<1>1. Init => FlagMeansHeld /\ TrackedListIsExact
  BY DEF Init, FlagMeansHeld, TrackedListIsExact
<1>2. QED
  BY <1>1, ListStep, FlagStep, TypeCorrect, OwnerCorrect, PTL DEF Spec

-----------------------------------------------------------------------------
\* A thread waits for a mutex of its own only if callers may acquire what they
\* hold.
SelfWaitIsMisuse ==
  \A t \in Threads :
    pc[t] = "LockInternal" /\ native_handle[lock[t]] = t => "reacquire" \in Misuse

\* No step makes a thread wait for itself in a program that never reacquires.
LEMMA SelfWaitStep ==
  ASSUME TypeOK, SelfWaitIsMisuse, [Next]_vars
  PROVE  SelfWaitIsMisuse'
<1> USE NoThreadAssumption, NoLockAssumption
    DEF TypeOK, SelfWaitIsMisuse, At, Goto, Call, Return, InCall, Take, AfterTake
<1>1. ASSUME NEW t \in Threads, NEW l \in Locks, NEW tr \in {"kDisabled", "kEnabled"},
             Acquire(t, l, tr)
      PROVE  SelfWaitIsMisuse'
  <2>1. CASE Take(t, l) /\ Goto(t, AfterTake(tr))
    BY <1>1, <2>1 DEF Acquire
  <2>2. CASE Goto(t, "LockInternal") /\ UNCHANGED native_handle
    BY <1>1, <2>2 DEF Acquire
  <2>3. QED
    BY <1>1, <2>1, <2>2 DEF Acquire
<1>2. ASSUME NEW t \in Threads, NEW l \in Locks, NEW tr \in {"kDisabled", "kEnabled"},
             Try(t, l, tr)
      PROVE  SelfWaitIsMisuse'
  BY <1>2 DEF Try
<1>3. ASSUME NEW t \in Threads, NEW l \in Locks, Release(t, l) PROVE SelfWaitIsMisuse'
  BY <1>3 DEF Release
<1>4. ASSUME NEW t \in Threads, LockInternal(t) PROVE SelfWaitIsMisuse'
  BY <1>4 DEF LockInternal
<1>5. ASSUME NEW t \in Threads, AddToLocksHeldOnCurrentThread(t) PROVE SelfWaitIsMisuse'
  BY <1>5 DEF AddToLocksHeldOnCurrentThread
<1>6. ASSUME NEW t \in Threads, CheckUnheldAndMark(t) PROVE SelfWaitIsMisuse'
  BY <1>6 DEF CheckUnheldAndMark
<1>7. ASSUME NEW t \in Threads, RemoveFromLocksHeldOnCurrentThread(t)
      PROVE  SelfWaitIsMisuse'
  BY <1>7 DEF RemoveFromLocksHeldOnCurrentThread
<1>8. ASSUME NEW t \in Threads, Unlock(t) PROVE SelfWaitIsMisuse'
  BY <1>8 DEF Unlock
<1>9. CASE UNCHANGED vars
  BY <1>9 DEF vars
<1>10. QED
  BY <1>1, <1>2, <1>3, <1>4, <1>5, <1>6, <1>7, <1>8, <1>9 DEF Next

\* Every step of Lock is a step of AbstractLock or leaves its state alone.
LEMMA AbstractStep ==
  ASSUME TypeOK, OwnerIsHolder, FlagMeansHeld, SelfWaitIsMisuse, [Next]_vars
  PROVE  [Abstract!Next]_(Abstract!vars)
<1> USE NoThreadAssumption, NoLockAssumption
    DEF TypeOK, OwnerIsHolder, Handling, At, Abstract!Next, Abstract!vars
<1>1. ASSUME NEW t \in Threads, NEW l \in Locks, Release(t, l)
      PROVE  Abstract!Give(t, l) \/ Abstract!ForeignRelease(t, l)
  <2>1. CASE IsHeldBy(t, l)
    BY <1>1, <2>1 DEF Release, IsHeldBy, Unmarked, Abstract!Give
  <2>2. CASE ~IsHeldBy(t, l)
    BY <1>1, <2>2 DEF Release, IsHeldBy, Abstract!ForeignRelease, Abstract!Fail
  <2>3. QED
    BY <2>1, <2>2
<1>2. ASSUME NEW t \in Threads, CheckUnheldAndMark(t)
      PROVE  lock[t] \in Locks /\ Abstract!Take(t, lock[t])
  BY <1>2 DEF CheckUnheldAndMark, Abstract!Take
<1>3. ASSUME NEW t \in Threads, AddToLocksHeldOnCurrentThread(t)
      PROVE  Abstract!TooManyTracked \/ UNCHANGED Abstract!vars
  BY <1>3 DEF AddToLocksHeldOnCurrentThread, FlagMeansHeld, Abstract!TooManyTracked,
      Abstract!Fail
<1>4. ASSUME NEW t \in Threads, LockInternal(t)
      PROVE  \/ lock[t] \in Locks /\ Abstract!Reacquire(t, lock[t])
             \/ UNCHANGED Abstract!vars
  BY <1>4 DEF LockInternal, ReportsHolder, SelfWaitIsMisuse, Abstract!Reacquire,
      Abstract!Fail
<1>5. ASSUME NEW t \in Threads, NEW l \in Locks, NEW tr \in {"kDisabled", "kEnabled"},
             Acquire(t, l, tr) \/ Try(t, l, tr)
      PROVE  UNCHANGED Abstract!vars
  BY <1>5 DEF Acquire, Try
<1>6. ASSUME NEW t \in Threads, RemoveFromLocksHeldOnCurrentThread(t) \/ Unlock(t)
      PROVE  UNCHANGED Abstract!vars
  BY <1>6 DEF RemoveFromLocksHeldOnCurrentThread, Unlock
<1>7. CASE UNCHANGED vars
  BY <1>7 DEF vars
<1>8. QED
  BY <1>1, <1>2, <1>3, <1>4, <1>5, <1>6, <1>7 DEF Next

\* Lock implements AbstractLock, whatever its callers do: mutual exclusion as they
\* see it, and a failed check only for the misuse it reports or a full list.
THEOREM LockImplementsAbstractLock == Spec => ImplementsAbstractLock
<1>1. Init => SelfWaitIsMisuse /\ FlagMeansHeld /\ Abstract!Init
  BY DEF Init, SelfWaitIsMisuse, FlagMeansHeld, Abstract!Init
<1>2. TypeOK /\ SelfWaitIsMisuse /\ [Next]_vars => SelfWaitIsMisuse'
  BY SelfWaitStep
<1>3. TypeOK /\ OwnerIsHolder /\ FlagMeansHeld /\ SelfWaitIsMisuse /\ [Next]_vars
        => [Abstract!Next]_(Abstract!vars)
  BY AbstractStep
<1>4. QED
  BY <1>1, <1>2, <1>3, FlagStep, TypeCorrect, OwnerCorrect, PTL
  DEF Spec, ImplementsAbstractLock, Abstract!Spec

-----------------------------------------------------------------------------
(* The scoped helpers of AutoLock *)

\* A nonempty set of naturals has a least member.
LEMMA LeastNatural ==
  ASSUME NEW S \in SUBSET Nat, S # {}
  PROVE  \E m \in S : \A n \in S : m <= n
<1> DEFINE R == OpToRel(<, Nat)
<1>1. IsWellFoundedOn(R, Nat)
  BY NatLessThanWellFounded
<1>2. PICK m \in S : \A n \in S : ~(<<n, m>> \in R)
  <2> HIDE DEF R
  <2> QED BY <1>1, WFMin
<1>3. \A n \in S : ~(n < m)
  BY <1>2 DEF OpToRel
<1> HIDE DEF R
<1>4. m \in Nat
  BY <1>2
<1>5. \A n \in S : m <= n
  BY <1>3, <1>4
<1> QED BY <1>2, <1>5

\* A nonempty set of positions in a sequence has a last member.
LEMMA LastPosition ==
  ASSUME NEW n \in Nat, NEW S \in SUBSET (1..n), S # {}
  PROVE  \E i \in S : \A j \in S : j <= i
<1> DEFINE T == {n - i : i \in S}
<1>1. T \in SUBSET Nat /\ T # {}
  <2>1. \A i \in S : n - i \in Nat
    OBVIOUS
  <2> QED BY <2>1
<1>2. PICK m \in T : \A k \in T : m <= k
  <2> HIDE DEF T
  <2> QED BY <1>1, LeastNatural
<1>3. PICK i \in S : m = n - i
  OBVIOUS
<1>4. ASSUME NEW j \in S PROVE j <= i
  <2>1. n - j \in T
    OBVIOUS
  <2>2. n - i <= n - j
    BY <1>2, <1>3, <2>1
  <2> QED BY <2>2
<1> QED BY <1>4

ScopeType == [class : Classes, lock : Locks \cup {NoLock}, tracking : {"kDisabled", "kEnabled"}]

\* Among the first n helpers of a stack, i is the last that refers to l.
LastOn(s, n, l, i) ==
  i \in 1..n /\ s[i].lock = l /\ \A j \in 1..n : s[j].lock = l => j <= i

\* The last of the first n helpers on l covers it, and acquired it with tracking.
Covers(s, n, l) == \E i \in 1..n : LastOn(s, n, l, i) /\ CoversClass(s[i].class)
Tracks(s, n, l) ==
  \E i \in 1..n : /\ LastOn(s, n, l, i) /\ CoversClass(s[i].class)
                  /\ s[i].tracking = "kEnabled"

\* Every helper turns over whether its lock is covered.
Alternates(s) ==
  \A i \in 1..Len(s) :
    s[i].lock \in Locks => (CoversClass(s[i].class) <=> ~Covers(s, i - 1, s[i].lock))

\* Covered() is Covers() of the whole stack, and the helper it looks at is the
\* one that Tracks() looks at.
LEMMA CoveredIsCovers ==
  ASSUME NEW t \in Threads, scopes[t] \in Seq(ScopeType), NEW l \in Locks
  PROVE  /\ Covered(t, l) <=> Covers(scopes[t], Len(scopes[t]), l)
         /\ (Covered(t, l) /\ scopes[t][Innermost(t, l)].tracking = "kEnabled")
              <=> Tracks(scopes[t], Len(scopes[t]), l)
<1> DEFINE s == scopes[t]
           n == Len(s)
<1>1. n \in Nat /\ DOMAIN s = 1..n
  OBVIOUS
<1>2. On(t, l) = {i \in 1..n : s[i].lock = l}
  BY <1>1 DEF On
<1>3. CASE On(t, l) = {}
  BY <1>2, <1>3 DEF Covered, Covers, Tracks, LastOn
<1>4. CASE On(t, l) # {}
  <2>1. \E i \in On(t, l) : \A j \in On(t, l) : j <= i
    <3> HIDE DEF n
    <3> QED BY <1>1, <1>2, <1>4, LastPosition
  <2>2. /\ Innermost(t, l) \in On(t, l)
        /\ \A j \in On(t, l) : j <= Innermost(t, l)
    BY <2>1 DEF Innermost
  <2> HIDE DEF n, s
  <2> DEFINE i == Innermost(t, l)
  <2>3. LastOn(s, n, l, i)
    BY <1>2, <2>2 DEF LastOn
  <2>4. \A k \in 1..n : LastOn(s, n, l, k) => k = i
    BY <2>3, <1>1 DEF LastOn
  <2> HIDE DEF i
  <2>5. i \in 1..n
    BY <2>3 DEF LastOn
  <2>6. Covers(s, n, l) <=> CoversClass(s[i].class)
    BY <2>3, <2>4, <2>5 DEF Covers
  <2>7. Tracks(s, n, l) <=> CoversClass(s[i].class) /\ s[i].tracking = "kEnabled"
    BY <2>3, <2>4, <2>5 DEF Tracks
  <2>8. Covered(t, l) <=> CoversClass(s[i].class)
    BY <1>4 DEF Covered, i, s
  <2>9. s[i] = scopes[t][Innermost(t, l)]
    BY DEF i, s
  <2> QED BY <2>6, <2>7, <2>8, <2>9 DEF s, n
<1> QED BY <1>3, <1>4

-----------------------------------------------------------------------------
(* Stacks *)

\* What is covered depends on the helpers' locks, classes and tracking only.
LEMMA SamePrefix ==
  ASSUME NEW s, NEW r, NEW n \in Nat, NEW l,
         \A i \in 1..n : s[i] = r[i]
  PROVE  /\ Covers(s, n, l) <=> Covers(r, n, l)
         /\ Tracks(s, n, l) <=> Tracks(r, n, l)
BY DEF Covers, Tracks, LastOn

\* One more helper decides for its lock and leaves the others alone.
LEMMA OneMore ==
  ASSUME NEW s, NEW n \in Nat, NEW l
  PROVE  /\ s[n + 1].lock = l =>
              /\ Covers(s, n + 1, l) <=> CoversClass(s[n + 1].class)
              /\ Tracks(s, n + 1, l) <=>
                   CoversClass(s[n + 1].class) /\ s[n + 1].tracking = "kEnabled"
         /\ s[n + 1].lock # l =>
              /\ Covers(s, n + 1, l) <=> Covers(s, n, l)
              /\ Tracks(s, n + 1, l) <=> Tracks(s, n, l)
<1>1. CASE s[n + 1].lock = l
  <2>1. \A i \in 1..(n + 1) : LastOn(s, n + 1, l, i) <=> i = n + 1
    BY <1>1 DEF LastOn
  <2> QED BY <1>1, <2>1 DEF Covers, Tracks
<1>2. CASE s[n + 1].lock # l
  <2>1. \A i \in 1..(n + 1) : LastOn(s, n + 1, l, i) <=> i \in 1..n /\ LastOn(s, n, l, i)
    BY <1>2 DEF LastOn
  <2> QED BY <1>2, <2>1 DEF Covers, Tracks
<1> QED BY <1>1, <1>2

\* A helper is pushed that turns over its lock.
LEMMA Pushing ==
  ASSUME NEW s \in Seq(ScopeType), Alternates(s), NEW e \in ScopeType,
         e.lock \in Locks => (CoversClass(e.class) <=> ~Covers(s, Len(s), e.lock))
  PROVE  /\ Append(s, e) \in Seq(ScopeType)
         /\ Alternates(Append(s, e))
         /\ e.lock \in Locks =>
              /\ Covers(Append(s, e), Len(Append(s, e)), e.lock) <=> CoversClass(e.class)
              /\ Tracks(Append(s, e), Len(Append(s, e)), e.lock) <=>
                   CoversClass(e.class) /\ e.tracking = "kEnabled"
         /\ \A l \in Locks : l # e.lock =>
              /\ Covers(Append(s, e), Len(Append(s, e)), l) <=> Covers(s, Len(s), l)
              /\ Tracks(Append(s, e), Len(Append(s, e)), l) <=> Tracks(s, Len(s), l)
<1>1. PICK n \in Nat : n = Len(s)
  OBVIOUS
<1>2. PICK r : r = Append(s, e)
  OBVIOUS
<1>3. r \in Seq(ScopeType) /\ Len(r) = n + 1 /\ r[n + 1] = e
  BY <1>1, <1>2
<1>4. \A i \in 1..n : r[i] = s[i]
  BY <1>1, <1>2
<1>5. \A m \in 0..n : \A l : Covers(r, m, l) <=> Covers(s, m, l)
  <2> TAKE m \in 0..n
  <2>1. m \in Nat /\ \A i \in 1..m : r[i] = s[i]
    BY <1>4
  <2> QED BY <2>1, SamePrefix
<1>6. \A l : Tracks(r, n, l) <=> Tracks(s, n, l)
  BY <1>4, SamePrefix
<1>7. Alternates(r)
  <2> SUFFICES ASSUME NEW i \in 1..(n + 1), r[i].lock \in Locks
               PROVE  CoversClass(r[i].class) <=> ~Covers(r, i - 1, r[i].lock)
    BY <1>3 DEF Alternates
  <2>1. i - 1 \in 0..n
    OBVIOUS
  <2>2. Covers(r, i - 1, r[i].lock) <=> Covers(s, i - 1, r[i].lock)
    BY <1>5, <2>1
  <2>3. CASE i = n + 1
    <3>1. i - 1 = n
      BY <2>3
    <3> QED BY <1>1, <1>3, <2>2, <2>3, <3>1
  <2>4. CASE i \in 1..n
    BY <1>1, <1>4, <2>2, <2>4 DEF Alternates
  <2> QED BY <2>3, <2>4
<1>8. e.lock \in Locks =>
        /\ Covers(r, n + 1, e.lock) <=> CoversClass(e.class)
        /\ Tracks(r, n + 1, e.lock) <=> CoversClass(e.class) /\ e.tracking = "kEnabled"
  BY <1>3, OneMore
<1>9. \A l \in Locks : l # e.lock =>
        /\ Covers(r, n + 1, l) <=> Covers(s, n, l)
        /\ Tracks(r, n + 1, l) <=> Tracks(s, n, l)
  BY <1>3, <1>5, <1>6, OneMore
<1> QED BY <1>1, <1>2, <1>3, <1>7, <1>8, <1>9

\* The last helper is popped.
LEMMA Popping ==
  ASSUME NEW s \in Seq(ScopeType), Alternates(s), s # <<>>
  PROVE  /\ Popped(s) \in Seq(ScopeType)
         /\ Alternates(Popped(s))
         /\ LET e == s[Len(s)] IN
            /\ e \in ScopeType
            /\ e.lock \in Locks =>
                 /\ Covers(s, Len(s), e.lock) <=> CoversClass(e.class)
                 /\ Covers(Popped(s), Len(Popped(s)), e.lock) <=> ~CoversClass(e.class)
            /\ \A l \in Locks : l # e.lock =>
                 /\ Covers(Popped(s), Len(Popped(s)), l) <=> Covers(s, Len(s), l)
                 /\ Tracks(Popped(s), Len(Popped(s)), l) <=> Tracks(s, Len(s), l)
<1>1. PICK n \in Nat : Len(s) = n + 1
  <2>1. Len(s) \in Nat /\ Len(s) # 0
    OBVIOUS
  <2>2. Len(s) - 1 \in Nat /\ Len(s) = (Len(s) - 1) + 1
    BY <2>1
  <2> QED BY <2>2
<1>2. PICK r : r = Popped(s)
  OBVIOUS
<1>3. r \in Seq(ScopeType) /\ Len(r) = n
  BY <1>1, <1>2 DEF Popped
<1>4. \A i \in 1..n : r[i] = s[i]
  BY <1>1, <1>2 DEF Popped
<1>5. PICK e : e = s[n + 1]
  OBVIOUS
<1>6. e \in ScopeType
  BY <1>1, <1>5
<1>7. \A m \in 0..n : \A l : Covers(r, m, l) <=> Covers(s, m, l)
  <2> TAKE m \in 0..n
  <2>1. m \in Nat /\ \A i \in 1..m : r[i] = s[i]
    BY <1>4
  <2> QED BY <2>1, SamePrefix
<1>8. \A l : Tracks(r, n, l) <=> Tracks(s, n, l)
  BY <1>4, SamePrefix
<1>9. Alternates(r)
  <2> SUFFICES ASSUME NEW i \in 1..n, r[i].lock \in Locks
               PROVE  CoversClass(r[i].class) <=> ~Covers(r, i - 1, r[i].lock)
    BY <1>3 DEF Alternates
  <2>1. i - 1 \in 0..n /\ i \in 1..Len(s)
    BY <1>1
  <2>2. Covers(r, i - 1, r[i].lock) <=> Covers(s, i - 1, r[i].lock)
    BY <1>7, <2>1
  <2> QED BY <1>4, <2>1, <2>2 DEF Alternates
<1>10. e.lock \in Locks => (CoversClass(e.class) <=> ~Covers(s, n, e.lock))
  <2>1. n + 1 \in 1..Len(s) /\ (n + 1) - 1 = n
    BY <1>1
  <2> QED BY <1>5, <2>1 DEF Alternates
<1>11. e.lock \in Locks =>
        /\ Covers(s, n + 1, e.lock) <=> CoversClass(e.class)
        /\ Covers(r, n, e.lock) <=> ~CoversClass(e.class)
  BY <1>5, <1>7, <1>10, OneMore
<1>12. \A l \in Locks : l # e.lock =>
         /\ Covers(r, n, l) <=> Covers(s, n + 1, l)
         /\ Tracks(r, n, l) <=> Tracks(s, n + 1, l)
  BY <1>5, <1>7, <1>8, OneMore
<1> QED BY <1>1, <1>2, <1>3, <1>5, <1>6, <1>9, <1>11, <1>12

Emptied(s, i) == [s EXCEPT ![i] = MovedFrom(s[i])]

\* The last helper on a lock loses it (a move, an early release): what is covered
\* is what the helpers below cover.
LEMMA Emptying ==
  ASSUME NEW s \in Seq(ScopeType), Alternates(s), NEW i \in 1..Len(s),
         s[i].lock \in Locks => LastOn(s, Len(s), s[i].lock, i),
         NEW r, r = Emptied(s, i)
  PROVE  /\ r \in Seq(ScopeType)
         /\ Len(r) = Len(s)
         /\ Alternates(r)
         /\ s[i].lock \in Locks =>
              /\ Covers(s, Len(s), s[i].lock) <=> CoversClass(s[i].class)
              /\ Tracks(s, Len(s), s[i].lock) <=>
                   CoversClass(s[i].class) /\ s[i].tracking = "kEnabled"
              /\ Covers(r, Len(r), s[i].lock) <=> ~CoversClass(s[i].class)
         /\ \A l \in Locks : l # s[i].lock =>
              /\ Covers(r, Len(r), l) <=> Covers(s, Len(s), l)
              /\ Tracks(r, Len(r), l) <=> Tracks(s, Len(s), l)
<1>1. PICK n \in Nat : n = Len(s)
  OBVIOUS
<1>2. PICK e : e = s[i]
  OBVIOUS
<1>3. e \in ScopeType /\ i \in 1..n
  BY <1>1, <1>2
<1>4. MovedFrom(e) \in ScopeType /\ MovedFrom(e).lock = NoLock
  BY <1>3 DEF MovedFrom, Scope, ScopeType
<1>5. r \in Seq(ScopeType) /\ Len(r) = n
  BY <1>1, <1>2, <1>4 DEF Emptied
<1>6. r[i].lock = NoLock /\ \A k \in 1..n : k # i => r[k] = s[k]
  BY <1>1, <1>2, <1>4 DEF Emptied
<1>7. ASSUME NEW m \in 0..n, NEW l \in Locks, l # e.lock
      PROVE  /\ Covers(r, m, l) <=> Covers(s, m, l)
             /\ Tracks(r, m, l) <=> Tracks(s, m, l)
  <2>1. \A k \in 1..m : k \in 1..n
    OBVIOUS
  <2>2. \A k \in 1..m : r[k].lock = l <=> s[k].lock = l
    BY <1>2, <1>6, <1>7, <2>1, NoLockAssumption
  <2>3. \A k \in 1..m : LastOn(r, m, l, k) <=> LastOn(s, m, l, k)
    BY <2>2 DEF LastOn
  <2>4. \A k \in 1..m : LastOn(s, m, l, k) => r[k] = s[k]
    BY <1>2, <1>6, <1>7, <2>1 DEF LastOn
  <2> QED BY <2>3, <2>4 DEF Covers, Tracks
<1>8. ASSUME NEW m \in 0..(i - 1), NEW l PROVE Covers(r, m, l) <=> Covers(s, m, l)
  <2>1. m \in Nat /\ \A k \in 1..m : r[k] = s[k]
    BY <1>3, <1>6
  <2> QED BY <2>1, SamePrefix
<1>9. ASSUME e.lock \in Locks PROVE Covers(r, n, e.lock) <=> Covers(s, i - 1, e.lock)
  <2>1. LastOn(s, n, e.lock, i)
    BY <1>1, <1>2, <1>9
  <2>2. \A k \in 1..n : k >= i => r[k].lock # e.lock
    BY <1>3, <1>6, <1>9, <2>1, NoLockAssumption DEF LastOn
  <2>3. \A k \in 1..n : LastOn(r, n, e.lock, k) <=> k \in 1..(i - 1) /\ LastOn(s, i - 1, e.lock, k)
    BY <1>3, <1>6, <2>2 DEF LastOn
  <2>4. \A k \in 1..(i - 1) : k \in 1..n /\ r[k] = s[k]
    BY <1>3, <1>6
  <2> QED BY <2>3, <2>4 DEF Covers
<1>10. e.lock \in Locks => (CoversClass(e.class) <=> ~Covers(s, i - 1, e.lock))
  BY <1>2 DEF Alternates
<1>11. Alternates(r)
  <2> SUFFICES ASSUME NEW k \in 1..n, r[k].lock \in Locks
               PROVE  CoversClass(r[k].class) <=> ~Covers(r, k - 1, r[k].lock)
    BY <1>5 DEF Alternates
  <2>1. k # i
    BY <1>6, NoLockAssumption
  <2>2. r[k] = s[k] /\ k - 1 \in 0..n /\ k \in 1..Len(s)
    BY <1>1, <1>6, <2>1
  <2>3. CASE r[k].lock # e.lock
    <3>1. Covers(r, k - 1, r[k].lock) <=> Covers(s, k - 1, r[k].lock)
      BY <1>7, <2>2, <2>3
    <3> QED BY <2>2, <3>1 DEF Alternates
  <2>4. CASE r[k].lock = e.lock
    <3>1. k <= i
      BY <1>1, <1>2, <2>2, <2>4 DEF LastOn
    <3>2. k - 1 \in 0..(i - 1)
      BY <1>3, <2>1, <3>1
    <3>3. Covers(r, k - 1, r[k].lock) <=> Covers(s, k - 1, r[k].lock)
      BY <1>8, <3>2
    <3> QED BY <2>2, <3>3 DEF Alternates
  <2> QED BY <2>3, <2>4
<1>12. ASSUME e.lock \in Locks
       PROVE  /\ Covers(s, n, e.lock) <=> CoversClass(e.class)
              /\ Tracks(s, n, e.lock) <=> CoversClass(e.class) /\ e.tracking = "kEnabled"
  <2>1. LastOn(s, n, e.lock, i)
    BY <1>1, <1>2, <1>12
  <2>2. \A k \in 1..n : LastOn(s, n, e.lock, k) => k = i
    BY <2>1 DEF LastOn
  <2> QED BY <1>2, <1>3, <2>1, <2>2 DEF Covers, Tracks
<1>13. e.lock \in Locks => (Covers(r, n, e.lock) <=> ~CoversClass(e.class))
  BY <1>9, <1>10
<1>14. n \in 0..n
  OBVIOUS
<1>15. \A l \in Locks : l # e.lock =>
         /\ Covers(r, n, l) <=> Covers(s, n, l)
         /\ Tracks(r, n, l) <=> Tracks(s, n, l)
  BY <1>7, <1>14
<1> QED BY <1>1, <1>2, <1>5, <1>11, <1>12, <1>13, <1>15

\* ~AutoUnlock acquires the lock again, without tracking.
LEMMA Reacquiring ==
  ASSUME NEW s \in Seq(ScopeType), Alternates(s), NEW l \in Locks,
         NEW r, r = Reacquired(s, l)
  PROVE  /\ r \in Seq(ScopeType)
         /\ Len(r) = Len(s)
         /\ Alternates(r)
         /\ \A m \in Locks : Covers(r, Len(r), m) <=> Covers(s, Len(s), m)
         /\ ~Tracks(r, Len(r), l)
         /\ \A m \in Locks : m # l => Tracks(r, Len(r), m) <=> Tracks(s, Len(s), m)
<1>1. PICK n \in Nat : n = Len(s)
  OBVIOUS
<1>2. DOMAIN s = 1..n /\ \A i \in 1..n : s[i] \in ScopeType
  BY <1>1
<1>3. \A i \in 1..n : r[i] = IF s[i].lock = l THEN [s[i] EXCEPT !.tracking = "kDisabled"] ELSE s[i]
  BY <1>2 DEF Reacquired
<1>4. \A i \in 1..n : r[i] \in ScopeType
  BY <1>2, <1>3 DEF ScopeType
<1>5. r \in [1..n -> ScopeType]
  BY <1>2, <1>4 DEF Reacquired
<1>6. r \in Seq(ScopeType) /\ Len(r) = n
  BY <1>5
<1>7. \A i \in 1..n :
        /\ r[i].lock = s[i].lock /\ r[i].class = s[i].class
        /\ s[i].lock = l => r[i].tracking = "kDisabled"
        /\ s[i].lock # l => r[i].tracking = s[i].tracking
  BY <1>2, <1>3 DEF ScopeType
<1>8. ASSUME NEW k \in 0..n, NEW m
      PROVE  /\ \A i \in 1..k : LastOn(r, k, m, i) <=> LastOn(s, k, m, i)
             /\ Covers(r, k, m) <=> Covers(s, k, m)
  <2>1. \A i \in 1..k : i \in 1..n
    OBVIOUS
  <2>2. \A i \in 1..k : LastOn(r, k, m, i) <=> LastOn(s, k, m, i)
    BY <1>7, <2>1 DEF LastOn
  <2> QED BY <1>7, <2>1, <2>2 DEF Covers
<1>9. Alternates(r)
  <2> SUFFICES ASSUME NEW i \in 1..n, r[i].lock \in Locks
               PROVE  CoversClass(r[i].class) <=> ~Covers(r, i - 1, r[i].lock)
    BY <1>6 DEF Alternates
  <2>1. i - 1 \in 0..n /\ i \in 1..Len(s)
    BY <1>1
  <2>2. Covers(r, i - 1, r[i].lock) <=> Covers(s, i - 1, r[i].lock)
    BY <1>8, <2>1
  <2> QED BY <1>7, <2>1, <2>2 DEF Alternates
<1>10. n \in 0..n
  OBVIOUS
<1>11. \A m \in Locks : Covers(r, n, m) <=> Covers(s, n, m)
  BY <1>8, <1>10
<1>12. ~Tracks(r, n, l)
  BY <1>7 DEF Tracks, LastOn
<1>13. \A m \in Locks : m # l => Tracks(r, n, m) <=> Tracks(s, n, m)
  BY <1>7, <1>8, <1>10 DEF Tracks, LastOn
<1> QED BY <1>1, <1>6, <1>9, <1>11, <1>12, <1>13

-----------------------------------------------------------------------------
(* Lock under the helpers *)

\* The mutex, the owner and the flag of l are as the helpers of t in the stack s
\* say: held and flagged when t is not in a call on l; in Acquire or Try the stack
\* is already that after the call, and so in Release.
Agrees(t, l, s) ==
  /\ pc[t] = "idle" \/ lock[t] # l =>
       /\ owning_thread_ref[l] = t <=> Covers(s, Len(s), l)
       /\ (l \in in_tracked /\ owning_thread_ref[l] = t) <=> Tracks(s, Len(s), l)
  /\ pc[t] = "LockInternal" /\ lock[t] = l =>
       /\ Covers(s, Len(s), l)
       /\ tracking[t] = "kEnabled" <=> Tracks(s, Len(s), l)
  /\ pc[t] = "Add" /\ lock[t] = l => Covers(s, Len(s), l) /\ Tracks(s, Len(s), l)
  /\ pc[t] = "Mark" /\ lock[t] = l =>
       /\ Covers(s, Len(s), l)
       /\ l \in in_tracked <=> Tracks(s, Len(s), l)
  /\ pc[t] \in {"Remove", "Unlock"} /\ lock[t] = l => ~Covers(s, Len(s), l)

\* What is tracked is covered.
LEMMA TracksCovers == ASSUME NEW s, NEW n, NEW l, Tracks(s, n, l) PROVE Covers(s, n, l)
BY DEF Tracks, Covers

LockInv == TypeOK /\ OwnerIsHolder /\ FlagMeansHeld

CallOf(u) ==
  \E l \in Locks, tr \in {"kDisabled", "kEnabled"} :
    Acquire(u, l, tr) \/ Try(u, l, tr) \/ Release(u, l)

\* What another thread does changes nothing for t.
LEMMA OthersAgree ==
  ASSUME LockInv, NEW t \in Threads, NEW u \in Threads, t # u, NEW l \in Locks, NEW s,
         Agrees(t, l, s), CallOf(u) \/ Step(u), crash' = "none"
  PROVE  Agrees(t, l, s)'
<1> USE NoThreadAssumption, NoLockAssumption
    DEF LockInv, TypeOK, OwnerIsHolder, FlagMeansHeld, Handling, Agrees, At, Goto, Call,
        Return, InCall, Take, AfterTake
<1>1. ASSUME NEW m \in Locks, NEW tr \in {"kDisabled", "kEnabled"},
             Acquire(u, m, tr) \/ Try(u, m, tr)
      PROVE  Agrees(t, l, s)'
  BY <1>1 DEF Acquire, Try
<1>2. ASSUME NEW m \in Locks, Release(u, m) PROVE Agrees(t, l, s)'
  BY <1>2 DEF Release, IsHeldBy, Unmarked
<1>3. CASE LockInternal(u)
  BY <1>3 DEF LockInternal
<1>4. CASE AddToLocksHeldOnCurrentThread(u)
  BY <1>4 DEF AddToLocksHeldOnCurrentThread
<1>5. CASE CheckUnheldAndMark(u)
  BY <1>5 DEF CheckUnheldAndMark
<1>6. CASE RemoveFromLocksHeldOnCurrentThread(u)
  BY <1>6 DEF RemoveFromLocksHeldOnCurrentThread, Unflagged
<1>7. CASE Unlock(u)
  BY <1>7 DEF Unlock
<1> QED BY <1>1, <1>2, <1>3, <1>4, <1>5, <1>6, <1>7 DEF CallOf, Step

\* A call of t goes on.
LEMMA StepAgrees ==
  ASSUME LockInv, NEW t \in Threads, NEW l \in Locks, NEW s,
         Agrees(t, l, s), Step(t), crash' = "none"
  PROVE  Agrees(t, l, s)'
<1> USE NoThreadAssumption, NoLockAssumption
    DEF LockInv, TypeOK, OwnerIsHolder, FlagMeansHeld, Handling, Agrees, At, Goto, Call,
        Return, InCall, Take, AfterTake
<1>1. CASE LockInternal(t)
  BY <1>1, TracksCovers DEF LockInternal
<1>2. CASE AddToLocksHeldOnCurrentThread(t)
  BY <1>2 DEF AddToLocksHeldOnCurrentThread
<1>3. CASE CheckUnheldAndMark(t)
  BY <1>3 DEF CheckUnheldAndMark
<1>4. CASE RemoveFromLocksHeldOnCurrentThread(t)
  BY <1>4 DEF RemoveFromLocksHeldOnCurrentThread, Unflagged
<1>5. CASE Unlock(t)
  BY <1>5, TracksCovers DEF Unlock
<1> QED BY <1>1, <1>2, <1>3, <1>4, <1>5 DEF Step

\* t acquires m, which a new helper covers.
LEMMA AcquireAgrees ==
  ASSUME LockInv, NEW t \in Threads, NEW l \in Locks, NEW m \in Locks,
         NEW tr \in {"kDisabled", "kEnabled"}, NEW s, NEW r,
         Agrees(t, l, s), Acquire(t, m, tr) \/ Try(t, m, tr),
         l = m => Covers(r, Len(r), l) /\ (Tracks(r, Len(r), l) <=> tr = "kEnabled"),
         l # m => /\ Covers(r, Len(r), l) <=> Covers(s, Len(s), l)
                  /\ Tracks(r, Len(r), l) <=> Tracks(s, Len(s), l)
  PROVE  Agrees(t, l, r)'
BY NoThreadAssumption, NoLockAssumption
  DEF LockInv, TypeOK, OwnerIsHolder, FlagMeansHeld, Handling, Agrees, At, Goto, Call, Take,
      AfterTake, Acquire, Try

\* t releases m, which no helper covers any more.
LEMMA ReleaseAgrees ==
  ASSUME LockInv, NEW t \in Threads, NEW l \in Locks, NEW m \in Locks, NEW s, NEW r,
         Agrees(t, l, s), Release(t, m), crash' = "none",
         l = m => ~Covers(r, Len(r), l),
         l # m => /\ Covers(r, Len(r), l) <=> Covers(s, Len(s), l)
                  /\ Tracks(r, Len(r), l) <=> Tracks(s, Len(s), l)
  PROVE  Agrees(t, l, r)'
BY NoThreadAssumption, NoLockAssumption
  DEF LockInv, TypeOK, OwnerIsHolder, FlagMeansHeld, Handling, Agrees, At, Goto, Call, Release,
      IsHeldBy, Unmarked

\* The helpers change and Lock does not.
LEMMA RestAgrees ==
  ASSUME NEW t, NEW l, NEW s, NEW r, Agrees(t, l, s), UNCHANGED vars,
         Covers(r, Len(r), l) <=> Covers(s, Len(s), l),
         Tracks(r, Len(r), l) <=> Tracks(s, Len(s), l)
  PROVE  Agrees(t, l, r)'
BY DEF Agrees, vars

StacksInv ==
  /\ scopes \in [Threads -> Seq(ScopeType)]
  /\ \A t \in Scoped : Alternates(scopes[t])
  /\ crash = "none" => \A t \in Scoped, l \in Locks : Agrees(t, l, scopes[t])

HelpersInv == LockInv /\ StacksInv

\* r is the stack of t after a step; it fits Lock after the step.
Results(t, r) ==
  /\ scopes' = [scopes EXCEPT ![t] = r]
  /\ r \in Seq(ScopeType) /\ Alternates(r)
  /\ crash' = "none" => \A l \in Locks : Agrees(t, l, r)'

\* Every class that acquires pushes itself on a lock it covers from then on.
LEMMA OpeningResults ==
  ASSUME HelpersInv, NEW t \in Scoped, NEW l \in Locks, NEW tr \in {"kDisabled", "kEnabled"},
         NEW class \in Classes, CoversClass(class), ~Covered(t, l),
         Acquire(t, l, tr) \/ Try(t, l, tr), Push(t, Scope(class, l, tr))
  PROVE  \E r : Results(t, r)
<1>1. PICK s : s = scopes[t]
  OBVIOUS
<1>2. t \in Threads /\ s \in Seq(ScopeType) /\ Alternates(s)
  BY <1>1, ScopedAssumption DEF HelpersInv, StacksInv
<1>3. ~Covers(s, Len(s), l)
  BY <1>1, <1>2, CoveredIsCovers
<1>4. PICK e : e = Scope(class, l, tr)
  OBVIOUS
<1>5. e \in ScopeType /\ e.lock = l /\ e.class = class /\ e.tracking = tr
  BY <1>4 DEF Scope, ScopeType
<1>6. PICK r : r = Append(s, e)
  OBVIOUS
<1>7. /\ r \in Seq(ScopeType) /\ Alternates(r)
      /\ Covers(r, Len(r), l) /\ (Tracks(r, Len(r), l) <=> tr = "kEnabled")
      /\ \A m \in Locks : m # l => /\ Covers(r, Len(r), m) <=> Covers(s, Len(s), m)
                                   /\ Tracks(r, Len(r), m) <=> Tracks(s, Len(s), m)
  BY <1>2, <1>3, <1>5, <1>6, Pushing
<1>8. ASSUME NEW m \in Locks, crash' = "none" PROVE Agrees(t, m, r)'
  <2>1. LockInv
    BY DEF HelpersInv
  <2>2. crash = "none"
    BY DEF Acquire, Try, At
  <2>3. Agrees(t, m, s)
    BY <1>1, <2>2 DEF HelpersInv, StacksInv
  <2>4. m = l => Covers(r, Len(r), m) /\ (Tracks(r, Len(r), m) <=> tr = "kEnabled")
    BY <1>7
  <2>5. m # l => /\ Covers(r, Len(r), m) <=> Covers(s, Len(s), m)
                 /\ Tracks(r, Len(r), m) <=> Tracks(s, Len(s), m)
    BY <1>7
  <2> QED BY <1>2, <2>1, <2>3, <2>4, <2>5, AcquireAgrees
<1>9. scopes' = [scopes EXCEPT ![t] = r]
  BY <1>1, <1>4, <1>6 DEF Push
<1> QED BY <1>7, <1>8, <1>9 DEF Results

\* AutoLockMaybe(nullptr) and an AutoTryLock that did not get its lock.
LEMMA NullResults ==
  ASSUME HelpersInv, NEW t \in Scoped, NEW class \in Classes, At(t, "idle"),
         Push(t, Scope(class, NoLock, "kDisabled")), UNCHANGED vars
  PROVE  \E r : Results(t, r)
<1>1. PICK s : s = scopes[t]
  OBVIOUS
<1>2. s \in Seq(ScopeType) /\ Alternates(s)
  BY <1>1, ScopedAssumption DEF HelpersInv, StacksInv
<1>3. PICK e : e = Scope(class, NoLock, "kDisabled")
  OBVIOUS
<1>4. e \in ScopeType /\ e.lock \notin Locks
  BY <1>3, NoLockAssumption DEF Scope, ScopeType
<1>5. PICK r : r = Append(s, e)
  OBVIOUS
<1>6. /\ r \in Seq(ScopeType) /\ Alternates(r)
      /\ \A m \in Locks : m # e.lock => /\ Covers(r, Len(r), m) <=> Covers(s, Len(s), m)
                                        /\ Tracks(r, Len(r), m) <=> Tracks(s, Len(s), m)
  BY <1>2, <1>4, <1>5, Pushing
<1>7. ASSUME NEW m \in Locks PROVE Agrees(t, m, r)'
  <2>1. Agrees(t, m, s)
    BY <1>1 DEF HelpersInv, StacksInv, At
  <2>2. /\ Covers(r, Len(r), m) <=> Covers(s, Len(s), m)
        /\ Tracks(r, Len(r), m) <=> Tracks(s, Len(s), m)
    BY <1>4, <1>6
  <2> QED BY <2>1, <2>2, RestAgrees
<1>8. scopes' = [scopes EXCEPT ![t] = r]
  BY <1>1, <1>3, <1>5 DEF Push
<1> QED BY <1>6, <1>7, <1>8 DEF Results

\* An AutoUnlock is opened.
LEMMA UnlockingResults ==
  ASSUME HelpersInv, NEW t \in Scoped, NEW l \in Locks, OpenAutoUnlock(t, l)
  PROVE  \E r : Results(t, r)
<1>1. PICK s : s = scopes[t]
  OBVIOUS
<1>2. t \in Threads /\ s \in Seq(ScopeType) /\ Alternates(s)
  BY <1>1, ScopedAssumption DEF HelpersInv, StacksInv
<1>3. Covers(s, Len(s), l)
  BY <1>1, <1>2, CoveredIsCovers DEF OpenAutoUnlock
<1>4. PICK e : e = Scope("AutoUnlock", l, "kDisabled")
  OBVIOUS
<1>5. e \in ScopeType /\ e.lock = l /\ ~CoversClass(e.class)
  BY <1>4 DEF Scope, ScopeType, Classes, CoversClass
<1>6. PICK r : r = Append(s, e)
  OBVIOUS
<1>7. /\ r \in Seq(ScopeType) /\ Alternates(r)
      /\ ~Covers(r, Len(r), l)
      /\ \A m \in Locks : m # l => /\ Covers(r, Len(r), m) <=> Covers(s, Len(s), m)
                                   /\ Tracks(r, Len(r), m) <=> Tracks(s, Len(s), m)
  BY <1>2, <1>3, <1>5, <1>6, Pushing
<1>8. ASSUME NEW m \in Locks, crash' = "none" PROVE Agrees(t, m, r)'
  <2>1. LockInv /\ Release(t, l)
    BY DEF HelpersInv, OpenAutoUnlock
  <2>2. crash = "none"
    BY DEF OpenAutoUnlock, Release, At
  <2>3. Agrees(t, m, s)
    BY <1>1, <2>2 DEF HelpersInv, StacksInv
  <2>4. m = l => ~Covers(r, Len(r), m)
    BY <1>7
  <2>5. m # l => /\ Covers(r, Len(r), m) <=> Covers(s, Len(s), m)
                 /\ Tracks(r, Len(r), m) <=> Tracks(s, Len(s), m)
    BY <1>7
  <2> QED BY <1>2, <1>8, <2>1, <2>3, <2>4, <2>5, ReleaseAgrees
<1>9. scopes' = [scopes EXCEPT ![t] = r]
  BY <1>1, <1>4, <1>6 DEF OpenAutoUnlock, Push
<1> QED BY <1>7, <1>8, <1>9 DEF Results

\* A MovableAutoLock is moved: the new one covers what the old one did.
LEMMA MovingResults ==
  ASSUME HelpersInv, NEW t \in Scoped, NEW i \in DOMAIN scopes[t], Move(t, i)
  PROVE  \E r : Results(t, r)
<1>1. PICK s : s = scopes[t]
  OBVIOUS
<1>2. s \in Seq(ScopeType) /\ Alternates(s) /\ i \in 1..Len(s)
  BY <1>1, ScopedAssumption DEF HelpersInv, StacksInv
<1>3. PICK e : e = s[i]
  OBVIOUS
<1>4. e \in ScopeType /\ CoversClass(e.class)
  BY <1>1, <1>2, <1>3 DEF Move, CoversClass
<1>5. s[i].lock \in Locks => LastOn(s, Len(s), s[i].lock, i)
  BY <1>1, <1>2 DEF Move, On, LastOn
<1>6. PICK q : q = Emptied(s, i)
  OBVIOUS
<1>7. /\ q \in Seq(ScopeType) /\ Alternates(q)
      /\ e.lock \in Locks =>
           /\ Covers(s, Len(s), e.lock)
           /\ Tracks(s, Len(s), e.lock) <=> e.tracking = "kEnabled"
           /\ ~Covers(q, Len(q), e.lock)
      /\ \A l \in Locks : l # e.lock => /\ Covers(q, Len(q), l) <=> Covers(s, Len(s), l)
                                        /\ Tracks(q, Len(q), l) <=> Tracks(s, Len(s), l)
  <2>1. /\ q \in Seq(ScopeType) /\ Alternates(q)
        /\ s[i].lock \in Locks =>
             /\ Covers(s, Len(s), s[i].lock) <=> CoversClass(s[i].class)
             /\ Tracks(s, Len(s), s[i].lock) <=>
                  CoversClass(s[i].class) /\ s[i].tracking = "kEnabled"
             /\ Covers(q, Len(q), s[i].lock) <=> ~CoversClass(s[i].class)
        /\ \A l \in Locks : l # s[i].lock => /\ Covers(q, Len(q), l) <=> Covers(s, Len(s), l)
                                             /\ Tracks(q, Len(q), l) <=> Tracks(s, Len(s), l)
    BY <1>2, <1>5, <1>6, Emptying
  <2> QED BY <1>3, <1>4, <2>1
<1>8. PICK r : r = Append(q, e)
  OBVIOUS
<1>9. /\ r \in Seq(ScopeType) /\ Alternates(r)
      /\ e.lock \in Locks =>
           /\ Covers(r, Len(r), e.lock)
           /\ Tracks(r, Len(r), e.lock) <=> e.tracking = "kEnabled"
      /\ \A l \in Locks : l # e.lock => /\ Covers(r, Len(r), l) <=> Covers(q, Len(q), l)
                                        /\ Tracks(r, Len(r), l) <=> Tracks(q, Len(q), l)
  BY <1>4, <1>7, <1>8, Pushing
<1>10. ASSUME NEW m \in Locks PROVE Agrees(t, m, r)'
  <2>1. Agrees(t, m, s) /\ UNCHANGED vars
    BY <1>1 DEF HelpersInv, StacksInv, Move, At
  <2>2. /\ Covers(r, Len(r), m) <=> Covers(s, Len(s), m)
        /\ Tracks(r, Len(r), m) <=> Tracks(s, Len(s), m)
    <3>1. CASE m = e.lock
      BY <1>7, <1>9, <3>1
    <3>2. CASE m # e.lock
      BY <1>7, <1>9, <3>2
    <3> QED BY <3>1, <3>2
  <2> QED BY <2>1, <2>2, RestAgrees
<1>11. scopes' = [scopes EXCEPT ![t] = r]
  BY <1>1, <1>3, <1>6, <1>8 DEF Move, Emptied
<1> QED BY <1>9, <1>10, <1>11 DEF Results

\* ReleasableAutoLock::Release.
LEMMA EarlyReleaseResults ==
  ASSUME HelpersInv, NEW t \in Scoped, NEW i \in DOMAIN scopes[t], ReleaseEarly(t, i)
  PROVE  \E r : Results(t, r)
<1>1. PICK s : s = scopes[t]
  OBVIOUS
<1>2. t \in Threads /\ s \in Seq(ScopeType) /\ Alternates(s) /\ i \in 1..Len(s)
  BY <1>1, ScopedAssumption DEF HelpersInv, StacksInv
<1>3. PICK l : l = s[i].lock
  OBVIOUS
<1>4. l \in Locks /\ CoversClass(s[i].class)
  <2>1. s[i] \in ScopeType
    BY <1>2
  <2>2. s[i].class = "ReleasableAutoLock" /\ l # NoLock
    BY <1>1, <1>3 DEF ReleaseEarly
  <2> QED BY <1>3, <2>1, <2>2 DEF CoversClass, ScopeType
<1>5. LastOn(s, Len(s), l, i)
  <2>1. On(t, l) = {j \in 1..Len(s) : s[j].lock = l}
    BY <1>1, <1>2 DEF On
  <2>2. i \in On(t, l) /\ i = Innermost(t, l)
    BY <1>1, <1>2, <1>3, <2>1 DEF ReleaseEarly
  <2>3. \E j \in On(t, l) : \A k \in On(t, l) : k <= j
    <3>1. Len(s) \in Nat /\ On(t, l) \in SUBSET (1..Len(s)) /\ On(t, l) # {}
      BY <1>2, <2>1, <2>2
    <3> QED BY <3>1, LastPosition
  <2>4. \A k \in On(t, l) : k <= i
    BY <2>2, <2>3 DEF Innermost
  <2> QED BY <1>2, <1>3, <2>1, <2>4 DEF LastOn
<1>6. PICK r : r = Emptied(s, i)
  OBVIOUS
<1>7. /\ r \in Seq(ScopeType) /\ Alternates(r)
      /\ ~Covers(r, Len(r), l)
      /\ \A m \in Locks : m # l => /\ Covers(r, Len(r), m) <=> Covers(s, Len(s), m)
                                   /\ Tracks(r, Len(r), m) <=> Tracks(s, Len(s), m)
  <2>1. s[i].lock \in Locks => LastOn(s, Len(s), s[i].lock, i)
    BY <1>3, <1>5
  <2>2. /\ r \in Seq(ScopeType) /\ Alternates(r)
        /\ s[i].lock \in Locks => (Covers(r, Len(r), s[i].lock) <=> ~CoversClass(s[i].class))
        /\ \A m \in Locks : m # s[i].lock => /\ Covers(r, Len(r), m) <=> Covers(s, Len(s), m)
                                             /\ Tracks(r, Len(r), m) <=> Tracks(s, Len(s), m)
    BY <1>2, <1>6, <2>1, Emptying
  <2> QED BY <1>3, <1>4, <2>2
<1>8. ASSUME NEW m \in Locks, crash' = "none" PROVE Agrees(t, m, r)'
  <2>1. LockInv /\ Release(t, l)
    BY <1>1, <1>3 DEF HelpersInv, ReleaseEarly
  <2>2. crash = "none"
    BY <2>1 DEF Release, At
  <2>3. Agrees(t, m, s)
    BY <1>1, <2>2 DEF HelpersInv, StacksInv
  <2>4. m = l => ~Covers(r, Len(r), m)
    BY <1>7
  <2>5. m # l => /\ Covers(r, Len(r), m) <=> Covers(s, Len(s), m)
                 /\ Tracks(r, Len(r), m) <=> Tracks(s, Len(s), m)
    BY <1>7
  <2> QED BY <1>2, <1>4, <1>8, <2>1, <2>3, <2>4, <2>5, ReleaseAgrees
<1>9. scopes' = [scopes EXCEPT ![t] = r]
  BY <1>1, <1>6 DEF ReleaseEarly, Emptied
<1> QED BY <1>7, <1>8, <1>9 DEF Results

\* The innermost helper is destroyed.
LEMMA ClosingResults ==
  ASSUME HelpersInv, NEW t \in Scoped, Close(t)
  PROVE  \E r : Results(t, r)
<1>1. PICK s : s = scopes[t]
  OBVIOUS
<1>2. t \in Threads /\ s \in Seq(ScopeType) /\ Alternates(s) /\ s # <<>>
  BY <1>1, ScopedAssumption DEF HelpersInv, StacksInv, Close
<1>3. PICK e : e = s[Len(s)]
  OBVIOUS
<1>4. PICK q : q = Popped(s)
  OBVIOUS
<1>5. /\ q \in Seq(ScopeType) /\ Alternates(q) /\ e \in ScopeType
      /\ e.lock \in Locks => (Covers(q, Len(q), e.lock) <=> ~CoversClass(e.class))
      /\ \A m \in Locks : m # e.lock => /\ Covers(q, Len(q), m) <=> Covers(s, Len(s), m)
                                        /\ Tracks(q, Len(q), m) <=> Tracks(s, Len(s), m)
  BY <1>2, <1>3, <1>4, Popping
<1>6. Top(t) = e /\ Popped(scopes[t]) = q
  BY <1>1, <1>3, <1>4 DEF Top
<1>7. e.lock \in Locks \cup {NoLock}
  BY <1>5 DEF ScopeType
<1>8. LockInv
  BY DEF HelpersInv
<1>9. ASSUME crash = "none", NEW m \in Locks PROVE Agrees(t, m, s)
  BY <1>1, <1>9 DEF HelpersInv, StacksInv
<1>10. CASE e.lock = NoLock
  <2>1. /\ crash = "none" /\ UNCHANGED vars
        /\ scopes' = [scopes EXCEPT ![t] = q]
    BY <1>6, <1>10 DEF Close, At
  <2>2. ASSUME NEW m \in Locks PROVE Agrees(t, m, q)'
    <3>1. /\ Covers(q, Len(q), m) <=> Covers(s, Len(s), m)
          /\ Tracks(q, Len(q), m) <=> Tracks(s, Len(s), m)
      BY <1>5, <1>10, NoLockAssumption
    <3> QED BY <1>9, <2>1, <3>1, RestAgrees
  <2> QED BY <1>5, <2>1, <2>2 DEF Results
<1>11. CASE e.lock # NoLock /\ CoversClass(e.class)
  <2>1. Release(t, e.lock) /\ scopes' = [scopes EXCEPT ![t] = q]
    BY <1>6, <1>11 DEF Close
  <2>2. ASSUME NEW m \in Locks, crash' = "none" PROVE Agrees(t, m, q)'
    <3>1. crash = "none"
      BY <2>1 DEF Release, At
    <3>2. e.lock \in Locks
      BY <1>7, <1>11
    <3>3. m = e.lock => ~Covers(q, Len(q), m)
      BY <1>5, <1>11, <3>2
    <3>4. m # e.lock => /\ Covers(q, Len(q), m) <=> Covers(s, Len(s), m)
                        /\ Tracks(q, Len(q), m) <=> Tracks(s, Len(s), m)
      BY <1>5
    <3>5. Agrees(t, m, s)
      BY <1>9, <3>1
    <3> QED BY <1>2, <1>8, <2>1, <2>2, <3>2, <3>3, <3>4, <3>5, ReleaseAgrees
  <2> QED BY <1>5, <2>1, <2>2 DEF Results
<1>12. CASE e.lock # NoLock /\ ~CoversClass(e.class)
  <2>1. PICK r : r = Reacquired(q, e.lock)
    OBVIOUS
  <2>2. /\ Acquire(t, e.lock, "kDisabled")
        /\ scopes' = [scopes EXCEPT ![t] = r]
    BY <1>6, <1>12, <2>1 DEF Close
  <2>3. e.lock \in Locks
    BY <1>7, <1>12
  <2>4. /\ r \in Seq(ScopeType) /\ Alternates(r)
        /\ \A m \in Locks : Covers(r, Len(r), m) <=> Covers(q, Len(q), m)
        /\ ~Tracks(r, Len(r), e.lock)
        /\ \A m \in Locks : m # e.lock => Tracks(r, Len(r), m) <=> Tracks(q, Len(q), m)
    BY <1>5, <2>1, <2>3, Reacquiring
  <2>5. ASSUME NEW m \in Locks PROVE Agrees(t, m, r)'
    <3>1. crash = "none"
      BY <2>2 DEF Acquire, At
    <3>2. e.lock = m => Covers(r, Len(r), m) /\ (Tracks(r, Len(r), m) <=> "kDisabled" = "kEnabled")
      BY <1>5, <1>12, <2>3, <2>4
    <3>3. m # e.lock => /\ Covers(r, Len(r), m) <=> Covers(s, Len(s), m)
                        /\ Tracks(r, Len(r), m) <=> Tracks(s, Len(s), m)
      BY <1>5, <2>4
    <3>4. Agrees(t, m, s)
      BY <1>9, <3>1
    <3> QED BY <1>2, <1>8, <2>2, <2>3, <3>2, <3>3, <3>4, AcquireAgrees
  <2> QED BY <2>2, <2>4, <2>5 DEF Results
<1> QED BY <1>10, <1>11, <1>12

\* Whatever a thread does with its helpers, its stack fits Lock afterwards.
LEMMA HelperResults ==
  ASSUME HelpersInv, NEW t \in Scoped, OpenOrClose(t)
  PROVE  \E r : Results(t, r)
<1>1. ASSUME NEW class \in Classes, NEW l \in Locks, NEW tr \in {"kDisabled", "kEnabled"},
             OpenAcquiring(t, class, l, tr)
      PROVE  \E r : Results(t, r)
  <2>1. CoversClass(class)
    BY <1>1 DEF OpenAcquiring, CoversClass
  <2> QED BY <1>1, <2>1, OpeningResults DEF OpenAcquiring
<1>2. ASSUME NEW l \in Locks, NEW tr \in {"kDisabled", "kEnabled"}, OpenAutoTryLock(t, l, tr)
      PROVE  \E r : Results(t, r)
  <2>1. "AutoTryLock" \in Classes /\ CoversClass("AutoTryLock")
    BY DEF Classes, CoversClass
  <2>2. CASE Try(t, l, tr) /\ Push(t, Scope("AutoTryLock", l, tr))
    BY <1>2, <2>1, <2>2, OpeningResults DEF OpenAutoTryLock
  <2>3. CASE At(t, "idle") /\ Push(t, Scope("AutoTryLock", NoLock, "kDisabled")) /\ UNCHANGED vars
    BY <2>1, <2>3, NullResults
  <2> QED BY <1>2, <2>2, <2>3 DEF OpenAutoTryLock
<1>3. ASSUME OpenMaybeNull(t) PROVE \E r : Results(t, r)
  <2>1. "AutoLockMaybe" \in Classes
    BY DEF Classes
  <2> QED BY <1>3, <2>1, NullResults DEF OpenMaybeNull
<1> QED BY <1>1, <1>2, <1>3, UnlockingResults, MovingResults, EarlyReleaseResults,
           ClosingResults DEF OpenOrClose

\* Seen without the helpers, what is done with them is a call of Lock or nothing.
LEMMA HelpersCallLock ==
  ASSUME HelpersInv, NEW t \in Threads, OpenOrClose(t)
  PROVE  CallOf(t) \/ UNCHANGED vars
<1>1. (\E l \in Locks, tr \in {"kDisabled", "kEnabled"} :
         \/ \E class \in Classes : OpenAcquiring(t, class, l, tr)
         \/ OpenAutoTryLock(t, l, tr))
      => CallOf(t) \/ UNCHANGED vars
  BY DEF OpenAcquiring, OpenAutoTryLock, CallOf
<1>2. (\E l \in Locks : OpenAutoUnlock(t, l)) => CallOf(t)
  BY DEF OpenAutoUnlock, CallOf
<1>3. \A i \in DOMAIN scopes[t] : Move(t, i) => UNCHANGED vars
  BY DEF Move
<1>4. ASSUME NEW i \in DOMAIN scopes[t], ReleaseEarly(t, i) PROVE CallOf(t)
  <2>1. scopes[t][i] \in ScopeType
    BY DEF HelpersInv, StacksInv
  <2>2. scopes[t][i].lock \in Locks
    BY <1>4, <2>1 DEF ReleaseEarly, ScopeType
  <2> QED BY <1>4, <2>2 DEF ReleaseEarly, CallOf
<1>5. ASSUME Close(t) PROVE CallOf(t) \/ UNCHANGED vars
  <2>1. Top(t) \in ScopeType
    BY <1>5 DEF HelpersInv, StacksInv, Close, Top
  <2>2. Top(t).lock \in Locks \cup {NoLock}
    BY <2>1 DEF ScopeType
  <2>3. CASE Top(t).lock = NoLock
    BY <1>5, <2>3 DEF Close
  <2>4. CASE Top(t).lock \in Locks /\ CoversClass(Top(t).class)
    BY <1>5, <2>4, NoLockAssumption DEF Close, CallOf
  <2>5. CASE Top(t).lock \in Locks /\ ~CoversClass(Top(t).class)
    BY <1>5, <2>5, NoLockAssumption DEF Close, CallOf
  <2> QED BY <2>2, <2>3, <2>4, <2>5
<1> QED BY <1>1, <1>2, <1>3, <1>4, <1>5 DEF OpenOrClose, OpenMaybeNull

\* The invariant is inductive.
LEMMA HelpersStep ==
  ASSUME HelpersInv, LockInv', ScopeNext
  PROVE  HelpersInv'
<1> SUFFICES StacksInv'
  BY DEF HelpersInv
<1>1. ASSUME NEW t \in Scoped, NEW r, Results(t, r), CallOf(t) \/ UNCHANGED vars
      PROVE  StacksInv'
  <2>1. scopes' = [scopes EXCEPT ![t] = r] /\ r \in Seq(ScopeType) /\ Alternates(r)
    BY <1>1 DEF Results
  <2>2. scopes \in [Threads -> Seq(ScopeType)] /\ t \in Threads
    BY ScopedAssumption DEF HelpersInv, StacksInv
  <2>3. scopes'[t] = r /\ \A u \in Threads : u # t => scopes'[u] = scopes[u]
    BY <2>1, <2>2
  <2>4. scopes' \in [Threads -> Seq(ScopeType)]
    BY <2>1, <2>2
  <2>5. \A u \in Scoped : Alternates(scopes'[u])
    <3> TAKE u \in Scoped
    <3>1. u \in Threads /\ Alternates(scopes[u])
      BY ScopedAssumption DEF HelpersInv, StacksInv
    <3>2. CASE u = t
      BY <2>1, <2>3, <3>2
    <3>3. CASE u # t
      BY <2>3, <3>1, <3>3
    <3> QED BY <3>2, <3>3
  <2>6. ASSUME crash' = "none", NEW u \in Scoped, NEW l \in Locks
        PROVE  Agrees(u, l, scopes[u])' 
    <3>1. PICK q : q = scopes[u]
      OBVIOUS
    <3>2. CASE u = t
      <4>1. Agrees(t, l, r)'
        BY <1>1, <2>6 DEF Results
      <4> QED BY <2>3, <3>2, <4>1 DEF Agrees
    <3>3. CASE u # t
      <4>1. u \in Threads /\ scopes'[u] = q
        BY <2>3, <3>1, <3>3, ScopedAssumption
      <4>2. crash = "none"
        BY <1>1, <2>6 DEF CallOf, Acquire, Try, Release, At, vars
      <4>3. Agrees(u, l, q)
        BY <3>1, <4>2 DEF HelpersInv, StacksInv
      <4>4. Agrees(u, l, q)'
        <5>1. CASE CallOf(t)
          BY <2>2, <2>6, <3>3, <4>1, <4>3, <5>1, OthersAgree DEF HelpersInv
        <5>2. CASE UNCHANGED vars
          BY <4>3, <5>2, RestAgrees
        <5> QED BY <1>1, <5>1, <5>2
      <4> QED BY <4>1, <4>4 DEF Agrees
    <3> QED BY <3>2, <3>3
  <2> QED BY <2>4, <2>5, <2>6 DEF StacksInv
<1>2. ASSUME NEW t \in Threads, UNCHANGED scopes,
             \/ t \notin Scoped /\ CallOf(t)
             \/ Step(t)
      PROVE  StacksInv'
  <2>1. ASSUME crash' = "none", NEW u \in Scoped, NEW l \in Locks
        PROVE  Agrees(u, l, scopes[u])'
    <3>1. PICK q : q = scopes[u]
      OBVIOUS
    <3>2. crash = "none"
      BY <1>2 DEF CallOf, Acquire, Try, Release, At, Step, LockInternal,
         AddToLocksHeldOnCurrentThread, CheckUnheldAndMark,
         RemoveFromLocksHeldOnCurrentThread, Unlock
    <3>3. u \in Threads /\ Agrees(u, l, q) /\ LockInv
      BY <3>1, <3>2, ScopedAssumption DEF HelpersInv, StacksInv
    <3>4. Agrees(u, l, q)'
      <4>1. CASE u = t
        BY <1>2, <2>1, <3>3, <4>1, StepAgrees
      <4>2. CASE u # t
        BY <1>2, <2>1, <3>3, <4>2, OthersAgree
      <4> QED BY <4>1, <4>2
    <3> QED BY <1>2, <3>1, <3>4 DEF Agrees
  <2>2. scopes' = scopes
    BY <1>2
  <2> QED BY <2>1, <2>2 DEF HelpersInv, StacksInv
<1>3. ASSUME NEW t \in Scoped, OpenOrClose(t) PROVE StacksInv'
  <2>1. PICK r : Results(t, r)
    BY <1>3, HelperResults
  <2>2. t \in Threads
    BY ScopedAssumption
  <2>3. CallOf(t) \/ UNCHANGED vars
    BY <1>3, <2>2, HelpersCallLock
  <2> QED BY <1>1, <2>1, <2>3
<1>4. ASSUME NEW t \in Threads \ Scoped, Direct(t) PROVE StacksInv'
  <2>1. CallOf(t) /\ UNCHANGED scopes
    BY <1>4 DEF Direct, CallOf
  <2> QED BY <1>2, <2>1
<1>5. ASSUME NEW t \in Threads, StepInCall(t) PROVE StacksInv'
  BY <1>2, <1>5 DEF StepInCall
<1> QED BY <1>3, <1>4, <1>5 DEF ScopeNext

\* Seen without the helpers, every step is one of Lock.
LEMMA ScopeNextIsNext == HelpersInv /\ ScopeNext => [Next]_vars
<1> SUFFICES ASSUME HelpersInv, ScopeNext PROVE [Next]_vars
  OBVIOUS
<1>1. ASSUME NEW t \in Threads, CallOf(t) PROVE Next
  BY <1>1 DEF CallOf, Next
<1>2. ASSUME NEW t \in Threads, Step(t) PROVE Next
  BY <1>2 DEF Step, Next
<1>3. ASSUME NEW t \in Scoped, OpenOrClose(t) PROVE [Next]_vars
  <2>1. t \in Threads
    BY ScopedAssumption
  <2> QED BY <1>1, <1>3, <2>1, HelpersCallLock
<1>4. ASSUME NEW t \in Threads \ Scoped, Direct(t) PROVE Next
  BY <1>1, <1>4 DEF Direct, CallOf
<1>5. ASSUME NEW t \in Threads, StepInCall(t) PROVE Next
  BY <1>2, <1>5 DEF StepInCall
<1> QED BY <1>3, <1>4, <1>5 DEF ScopeNext

\* Lock keeps its own invariant in every step.
LEMMA LockInvStep == LockInv /\ [Next]_vars => LockInv'
BY TypeStep, OwnerStep, FlagStep DEF LockInv

\* The invariant holds in the initial states.
LEMMA HelpersStart == ScopeInit => HelpersInv
<1> SUFFICES ASSUME ScopeInit PROVE HelpersInv
  OBVIOUS
<1>1. LockInv
  <2>1. TypeOK
    BY DEF ScopeInit, Init, TypeOK, PcValues, Crashes
  <2> QED BY <2>1, NoThreadAssumption
      DEF ScopeInit, Init, LockInv, OwnerIsHolder, FlagMeansHeld, Handling
<1>2. scopes = [t \in Threads |-> <<>>]
  BY DEF ScopeInit
<1>3. scopes \in [Threads -> Seq(ScopeType)]
  BY <1>2
<1>4. ASSUME NEW t \in Threads
      PROVE  /\ scopes[t] = <<>> /\ Len(scopes[t]) = 0 /\ Alternates(scopes[t])
             /\ \A l \in Locks : /\ ~Covers(scopes[t], Len(scopes[t]), l)
                               /\ ~Tracks(scopes[t], Len(scopes[t]), l)
  <2>1. scopes[t] = <<>> /\ Len(scopes[t]) = 0
    BY <1>2
  <2> QED BY <2>1 DEF Alternates, Covers, Tracks
<1>5. ASSUME NEW t \in Scoped, NEW l \in Locks PROVE Agrees(t, l, scopes[t])
  <2>1. t \in Threads
    BY ScopedAssumption
  <2>2. pc[t] = "idle" /\ owning_thread_ref[l] # t
    BY <2>1, NoThreadAssumption DEF ScopeInit, Init
  <2> QED BY <1>4, <2>1, <2>2 DEF Agrees
<1> QED BY <1>1, <1>3, <1>4, <1>5, ScopedAssumption DEF HelpersInv, StacksInv

\* The invariant holds throughout.
LEMMA HelpersInvariance == ScopeSpec => []HelpersInv
<1>1. HelpersInv /\ [ScopeNext]_scopeVars => HelpersInv'
  <2> SUFFICES ASSUME HelpersInv, [ScopeNext]_scopeVars PROVE HelpersInv'
    OBVIOUS
  <2>1. CASE ScopeNext
    <3>1. LockInv'
      BY <2>1, ScopeNextIsNext, LockInvStep DEF HelpersInv
    <3> QED BY <2>1, <3>1, HelpersStep
  <2>2. CASE UNCHANGED scopeVars
    <3>1. UNCHANGED vars /\ scopes' = scopes
      BY <2>2 DEF scopeVars
    <3>2. LockInv'
      BY <3>1, LockInvStep DEF HelpersInv
    <3> QED BY <3>1, <3>2 DEF HelpersInv, StacksInv, Agrees, vars
  <2> QED BY <2>1, <2>2
<1> QED BY <1>1, HelpersStart, PTL DEF ScopeSpec

\* A thread that uses the helpers of lock.h holds, outside their constructors and
\* destructors, exactly what they cover, and the tracked locks listed for it are
\* exactly those acquired with tracking, however helpers are nested, moved and
\* released early and whatever other threads do to the same locks.
THEOREM HelpersHoldWhatTheyCover == ScopeSpec => []HelpersAreExact
<1>1. HelpersInv /\ TrackedListIsExact => HelpersAreExact
  <2> SUFFICES ASSUME HelpersInv, TrackedListIsExact, crash = "none",
                      NEW t \in Scoped, NEW l \in Locks, pc[t] = "idle"
               PROVE  /\ owning_thread_ref[l] = t <=> Covered(t, l)
                      /\ (\E i \in DOMAIN tracked_locks[t] : tracked_locks[t][i] = l) <=>
                           (Covered(t, l) /\ scopes[t][Innermost(t, l)].tracking = "kEnabled")
    BY DEF HelpersAreExact, HoldsWhatIsCovered, TrackedAsAcquired
  <2>1. t \in Threads /\ scopes[t] \in Seq(ScopeType) /\ Agrees(t, l, scopes[t])
    BY ScopedAssumption DEF HelpersInv, StacksInv
  <2>2. /\ owning_thread_ref[l] = t <=> Covers(scopes[t], Len(scopes[t]), l)
        /\ (l \in in_tracked /\ owning_thread_ref[l] = t) <=> Tracks(scopes[t], Len(scopes[t]), l)
    BY <2>1 DEF Agrees
  <2>3. native_handle[l] = t <=> owning_thread_ref[l] = t
    BY <2>1 DEF HelpersInv, LockInv, OwnerIsHolder, Handling
  <2>4. (\E i \in DOMAIN tracked_locks[t] : tracked_locks[t][i] = l)
          <=> (l \in in_tracked /\ native_handle[l] = t)
    BY <2>1 DEF TrackedListIsExact
  <2>5. /\ Covered(t, l) <=> Covers(scopes[t], Len(scopes[t]), l)
        /\ (Covered(t, l) /\ scopes[t][Innermost(t, l)].tracking = "kEnabled")
              <=> Tracks(scopes[t], Len(scopes[t]), l)
    BY <2>1, CoveredIsCovers
  <2> QED BY <2>2, <2>3, <2>4, <2>5
<1>2. ScopeInit => TrackedListIsExact
  <2>1. Init => FlagMeansHeld /\ TrackedListIsExact
    BY DEF Init, FlagMeansHeld, TrackedListIsExact
  <2> QED BY <2>1 DEF ScopeInit
<1>3. HelpersInv /\ TrackedListIsExact /\ [ScopeNext]_scopeVars => TrackedListIsExact'
  <2> SUFFICES ASSUME HelpersInv, TrackedListIsExact, [ScopeNext]_scopeVars
               PROVE  TrackedListIsExact'
    OBVIOUS
  <2>1. [Next]_vars
    BY ScopeNextIsNext DEF scopeVars
  <2> QED BY <2>1, ListStep DEF HelpersInv, LockInv
<1> QED BY <1>1, <1>2, <1>3, HelpersInvariance, PTL DEF ScopeSpec

\* The DCHECKs about the flag and the owner of a lock never fail: a check that
\* stops the program is about what a caller did.
THEOREM ChecksBlameCallers == ScopeSpec => []OnlyCallersFail
<1>1. LockInv /\ OnlyCallersFail /\ [Next]_vars => OnlyCallersFail'
  <2> SUFFICES ASSUME LockInv, OnlyCallersFail, [Next]_vars PROVE OnlyCallersFail'
    OBVIOUS
  <2> USE DEF OnlyCallersFail
  <2>1. ASSUME NEW t \in Threads, NEW l \in Locks, NEW tr \in {"kDisabled", "kEnabled"},
               Acquire(t, l, tr) \/ Try(t, l, tr)
        PROVE  OnlyCallersFail'
    BY <2>1 DEF Acquire, Try
  <2>2. ASSUME NEW t \in Threads, NEW l \in Locks, Release(t, l) PROVE OnlyCallersFail'
    BY <2>2 DEF Release
  <2>3. ASSUME NEW t \in Threads, LockInternal(t) PROVE OnlyCallersFail'
    BY <2>3 DEF LockInternal
  <2>4. ASSUME NEW t \in Threads, AddToLocksHeldOnCurrentThread(t) PROVE OnlyCallersFail'
    <3>1. lock[t] \notin in_tracked
      BY <2>4 DEF LockInv, FlagMeansHeld, AddToLocksHeldOnCurrentThread, At
    <3> QED BY <2>4, <3>1 DEF AddToLocksHeldOnCurrentThread
  <2>5. ASSUME NEW t \in Threads, CheckUnheldAndMark(t) PROVE OnlyCallersFail'
    <3>1. lock[t] \in Locks /\ Handling(t, lock[t])
      BY <2>5 DEF LockInv, TypeOK, Handling, CheckUnheldAndMark, At
    <3>2. owning_thread_ref[lock[t]] = NoThread
      BY <3>1 DEF LockInv, TypeOK, OwnerIsHolder
    <3> QED BY <2>5, <3>2 DEF CheckUnheldAndMark
  <2>6. ASSUME NEW t \in Threads, RemoveFromLocksHeldOnCurrentThread(t) \/ Unlock(t)
        PROVE  OnlyCallersFail'
    BY <2>6 DEF RemoveFromLocksHeldOnCurrentThread, Unlock
  <2>7. CASE UNCHANGED vars
    BY <2>7 DEF vars
  <2> QED BY <2>1, <2>2, <2>3, <2>4, <2>5, <2>6, <2>7 DEF Next
<1>2. HelpersInv /\ OnlyCallersFail /\ [ScopeNext]_scopeVars => OnlyCallersFail'
  <2> SUFFICES ASSUME HelpersInv, OnlyCallersFail, [ScopeNext]_scopeVars PROVE OnlyCallersFail'
    OBVIOUS
  <2>1. [Next]_vars
    BY ScopeNextIsNext DEF scopeVars
  <2> QED BY <1>1, <2>1 DEF HelpersInv
<1>3. ScopeInit => OnlyCallersFail
  BY DEF ScopeInit, Init, OnlyCallersFail
<1> QED BY <1>2, <1>3, HelpersInvariance, PTL DEF ScopeSpec
=============================================================================
