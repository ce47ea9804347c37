------------------------ MODULE ThreadCollisionWarner ------------------------
(***************************************************************************)
(* One base::ThreadCollisionWarner (the object a DFAKE_MUTEX declares) and *)
(* the threads that pass through the sections it watches.  It is a fake    *)
(* mutex: it never blocks, it only calls asserter_->warn() when it sees    *)
(* two threads in the section.  The question is whether its few relaxed    *)
(* atomic operations see every overlap and only overlaps.                  *)
(*                                                                         *)
(* A step of a thread is one atomic access: the compare-exchange of        *)
(* Enter/EnterSelf, its fetch_add, the fetch_sub of Leave, its store.      *)
(* The asserter is the unit tests' kind, which only records the warning:   *)
(* DCheckAsserter aborts in warn(), so its behaviours are the prefixes of  *)
(* these in which warned is empty.                                         *)
(***************************************************************************)
EXTENDS Integers, Sequences

CONSTANTS
  WarnerThreads,    \* the threads
  kInvalidThreadId, \* the value of valid_thread_id_ when nobody is inside
  Kinds,            \* the scope classes this warner is used with
  MaxDepth,         \* bound: scopes a thread has open at once
  MaxPins           \* bound: Check objects a thread constructs

ASSUME InvalidAssumption == kInvalidThreadId \notin WarnerThreads
ASSUME KindsAssumption == Kinds \subseteq {"Check", "ScopedCheck", "ScopedRecursiveCheck"}
ASSUME BoundsAssumption == MaxDepth \in Nat /\ MaxPins \in Nat

VARIABLES
  valid_thread_id,  \* the atomic valid_thread_id_
  counter,          \* the atomic counter_
  pc,               \* "run" outside the warner, "add" before the fetch_add of
                    \* an enter, "store" before the store of a Leave
  entering,         \* the kind of scope the thread is constructing
  depth,            \* ScopedCheck/ScopedRecursiveCheck objects now alive
  pins,             \* Check objects constructed so far (they never leave)
  warned            \* the threads that called asserter_->warn()

warnerVars == <<valid_thread_id, counter, pc, entering, depth, pins, warned>>

WarnerInit ==
  /\ valid_thread_id = kInvalidThreadId
  /\ counter = 0
  /\ pc = [t \in WarnerThreads |-> "run"]
  /\ entering = [t \in WarnerThreads |-> "none"]
  /\ depth = [t \in WarnerThreads |-> 0]
  /\ pins = [t \in WarnerThreads |-> 0]
  /\ warned = {}

\* The compare-exchange: it writes only over kInvalidThreadId.
Claim(t) ==
  valid_thread_id' = IF valid_thread_id = kInvalidThreadId THEN t ELSE valid_thread_id

\* Mutant of WarnsOnSelf: an id left by a collision is taken for one's own.
WarnsOnSelfMutant(t) == valid_thread_id # kInvalidThreadId /\ counter = 0

\* EnterSelf warns when another thread's id is there, and Enter when any is.
WarnsOnSelf(t) == valid_thread_id \notin {kInvalidThreadId, t}
WarnsOnEnter == valid_thread_id # kInvalidThreadId

EnterSelf(t, kind) ==
  /\ pc[t] = "run"
  /\ kind \in Kinds \cap {"Check", "ScopedRecursiveCheck"}
  /\ IF kind = "Check" THEN pins[t] < MaxPins ELSE depth[t] < MaxDepth
  /\ Claim(t)
  /\ warned' = IF WarnsOnSelf(t) THEN warned \cup {t} ELSE warned
  /\ pc' = [pc EXCEPT ![t] = "add"]
  /\ entering' = [entering EXCEPT ![t] = kind]
  /\ UNCHANGED <<counter, depth, pins>>

Enter(t) ==
  /\ pc[t] = "run"
  /\ "ScopedCheck" \in Kinds
  /\ depth[t] < MaxDepth
  /\ Claim(t)
  /\ warned' = IF WarnsOnEnter THEN warned \cup {t} ELSE warned
  /\ pc' = [pc EXCEPT ![t] = "add"]
  /\ entering' = [entering EXCEPT ![t] = "ScopedCheck"]
  /\ UNCHANGED <<counter, depth, pins>>

\* counter_.fetch_add(1), the end of both; a Check has no scope to leave.
Add(t) ==
  /\ pc[t] = "add"
  /\ counter' = counter + 1
  /\ IF entering[t] = "Check"
       THEN pins' = [pins EXCEPT ![t] = @ + 1] /\ UNCHANGED depth
       ELSE depth' = [depth EXCEPT ![t] = @ + 1] /\ UNCHANGED pins
  /\ pc' = [pc EXCEPT ![t] = "run"]
  /\ entering' = [entering EXCEPT ![t] = "none"]
  /\ UNCHANGED <<valid_thread_id, warned>>

\* fetch_sub returned 1: this thread was the last one out.
LastOutMutant(t) == counter = 1 /\ valid_thread_id = t  \* "only my own id"
LastOut(t) == counter = 1

\* The destructor of a scope that was entered.
MayLeave(t) == depth[t] > 0

\* ~ScopedCheck and ~ScopedRecursiveCheck call Leave: counter_.fetch_sub(1),
\* and only the thread that takes it to zero goes on to the store.
Leave(t) ==
  /\ pc[t] = "run"
  /\ MayLeave(t)
  /\ counter' = counter - 1
  /\ depth' = [depth EXCEPT ![t] = @ - 1]
  /\ pc' = [pc EXCEPT ![t] = IF LastOut(t) THEN "store" ELSE "run"]
  /\ UNCHANGED <<valid_thread_id, entering, pins, warned>>

\* Mutant of ClearedId: Leave forgets the store.
ClearedIdMutant == valid_thread_id
ClearedId == kInvalidThreadId

ClearId(t) ==
  /\ pc[t] = "store"
  /\ valid_thread_id' = ClearedId
  /\ pc' = [pc EXCEPT ![t] = "run"]
  /\ UNCHANGED <<counter, entering, depth, pins, warned>>

WarnerNext ==
  \E t \in WarnerThreads :
    \/ \E kind \in Kinds : EnterSelf(t, kind)
    \/ Enter(t)
    \/ Add(t)
    \/ Leave(t)
    \/ ClearId(t)

WarnerSpec == WarnerInit /\ [][WarnerNext]_warnerVars

-----------------------------------------------------------------------------
WarnerTypeOK ==
  /\ valid_thread_id \in WarnerThreads \cup {kInvalidThreadId}
  /\ counter \in Int
  /\ pc \in [WarnerThreads -> {"run", "add", "store"}]
  /\ entering \in [WarnerThreads -> Kinds \cup {"none"}]
  /\ depth \in [WarnerThreads -> Nat]
  /\ pins \in [WarnerThreads -> Nat]
  /\ warned \in SUBSET WarnerThreads

\* t has begun to enter and has not finished leaving, or it is the thread a
\* Check pinned the section to.
InSection(t) == pc[t] # "run" \/ depth[t] > 0 \/ pins[t] > 0

\* As long as the warner is silent, no two threads are in the section: there
\* is no interleaving of the compare-exchange, the fetch_add, the fetch_sub and
\* the store in which an overlap goes unseen (thread_collision_warner.cc).
NoOverlapUndetected ==
  warned = {} => \A t, u \in WarnerThreads : InSection(t) /\ InSection(u) => t = u

\* The first warning is never a false alarm: when it is given, another thread
\* is in the section, or the thread itself is and used Enter, which does not
\* allow recursion.  In particular a section left by everyone is forgotten.
FirstWarningIsReal ==
  [][warned = {} =>
       \A t \in warned' :
         \/ \E u \in WarnerThreads \ {t} : InSection(u)
         \/ entering'[t] = "ScopedCheck" /\ InSection(t)]_warnerVars

\* Collisions do not wedge the warner (the asserters of the unit tests go on
\* after a warning): whatever overlapped, once every scope is closed and no
\* Check has pinned the section, the counter is 0 and no id is left behind.
QuiescentIsClear ==
  (\A t \in WarnerThreads : ~InSection(t)) =>
    counter = 0 /\ valid_thread_id = kInvalidThreadId
=============================================================================
