----------------------------- MODULE RefCounted -----------------------------
(***************************************************************************)
(* RefCountedThreadSafe objects and the scoped_refptrs that keep them      *)
(* alive.  The count is one atomic int; AddRef and Release are a           *)
(* read-modify-write on it and checks before and after, and threads        *)
(* interleave between these.                                               *)
(*                                                                         *)
(* A cell is a scoped_refptr: the slots each thread has (local variables,  *)
(* members), and for each thread t the cell t, the temporary through which *)
(* every assignment goes (operator=(scoped_refptr r) { swap(r); }) and     *)
(* whose destructor releases the old value.  A thread assigns only its own *)
(* slots; a reference crosses threads by being moved (Hand).               *)
(***************************************************************************)
EXTENDS Integers, FiniteSets

CONSTANTS
  Threads,
  Slots,          \* the scoped_refptr variables
  SlotsOf,        \* the slots of each thread
  Objects,        \* the objects that can be made
  Null,
  IntMax,         \* std::numeric_limits<int>::max()
  StartFromOne,   \* objects of REQUIRE_ADOPTION_FOR_REFCOUNTED_TYPE classes
  DCheckOn,       \* DCHECK_IS_ON()
  Misuse          \* what the class or its users do against the contract

Cells == Slots \cup Threads

ASSUME CellsAssumption == Threads \cap Slots = {} /\ IsFiniteSet(Threads) /\ IsFiniteSet(Slots)
ASSUME SlotsOfAssumption == SlotsOf \in [Threads -> SUBSET Slots]
ASSUME NullAssumption == Null \notin Objects
ASSUME IntAssumption == IntMax \in Nat \ {0}
\* Between its fetch_add and its failing CHECK a thread may be held up; others
\* must not get the count from INT_MIN up to zero meanwhile.  AddRefWithCheck
\* lets none of them increment a negative count, so there the threads are the
\* bound; otherwise there are not that many scoped_refptrs.
ASSUME RoomAssumption ==
  \/ StartFromOne = Objects /\ Cardinality(Threads) <= IntMax + 1
  \/ Cardinality(Cells) <= 2 * IntMax + 1
ASSUME FlagsAssumption == StartFromOne \in SUBSET Objects /\ DCheckOn \in BOOLEAN
ASSUME MisuseAssumption == Misuse \subseteq {"resurrect", "wrap_new"}

VARIABLES
  ref_count,    \* the atomic count of each object
  cell,         \* ptr_ of each scoped_refptr
  life,         \* "none", "live", "dtor" (in its destructor), "deleted", or
                \* "twice" when it was deleted again
  needs_adopt,  \* objects with needs_adopt_ref_
  in_dtor,      \* objects with in_dtor_
  pc,           \* where each thread is
  dst,          \* the cell it is assigning
  pre,          \* what its fetch_add returned
  raw,          \* the object it is deleting, or a raw pointer it will wrap
  crash         \* "none", or the check that failed

vars == <<ref_count, cell, life, needs_adopt, in_dtor, pc, dst, pre, raw, crash>>

Refs(o) == {c \in Cells : cell[c] = o}

\* An int after one increment or decrement; one that does not wrap.
Wrap(n) ==
  IF n > IntMax THEN n - 2 * (IntMax + 1)
  ELSE IF n < -(IntMax + 1) THEN n + 2 * (IntMax + 1) ELSE n

Init ==
  /\ ref_count = [o \in Objects |-> 0]
  /\ cell = [c \in Cells |-> Null]
  /\ life = [o \in Objects |-> "none"]
  /\ needs_adopt = {}
  /\ in_dtor = {}
  /\ pc = [t \in Threads |-> "idle"]
  /\ dst = [t \in Threads |-> t]
  /\ pre = [t \in Threads |-> 0]
  /\ raw = [t \in Threads |-> Null]
  /\ crash = "none"

At(t, where) == crash = "none" /\ pc[t] = where

Goto(t, where) == pc' = [pc EXCEPT ![t] = where]

Fail(why) ==
  /\ crash' = why
  /\ UNCHANGED <<ref_count, cell, life, needs_adopt, in_dtor, pc, dst, pre, raw>>

-----------------------------------------------------------------------------
\* The DCHECKs of AddRef.
RefusesInDtor(o) == DCheckOn /\ o \in in_dtor
RefusesUnadopted(o) == DCheckOn /\ o \in needs_adopt

\* RefCountedThreadSafeBase::AddRef for the temporary of t: DCHECKs, then
\* Increment; the CHECKs on what it returned come after it.
AddRef(t, o, d) ==
  IF RefusesInDtor(o) THEN Fail("AddRef in_dtor")
  ELSE IF RefusesUnadopted(o) THEN Fail("AddRef needs_adopt")
  ELSE
    /\ ref_count' = [ref_count EXCEPT ![o] = Wrap(@ + 1)]
    /\ pre' = [pre EXCEPT ![t] = ref_count[o]]
    /\ cell' = [cell EXCEPT ![t] = o]
    /\ dst' = [dst EXCEPT ![t] = d]
    /\ Goto(t, "AddRefCheck")
    /\ UNCHANGED <<life, needs_adopt, in_dtor, raw, crash>>

\* The checks on the previous count: CHECK_NE(.., INT_MAX) and, in start-from-
\* one classes, CHECK_GT(.., 0).  The mutant of the second is off by one.
Overflows(n) == n = IntMax
NotAliveOffByOneMutant(n) == n <= 1
NotAlive(n) == n <= 0

AddRefCheck(t) ==
  /\ At(t, "AddRefCheck")
  /\ IF Overflows(pre[t]) THEN Fail("overflow")
     ELSE IF cell[t] \in StartFromOne /\ NotAlive(pre[t]) THEN Fail("AddRefWithCheck")
     ELSE /\ Goto(t, "Swap")
          /\ pre' = [pre EXCEPT ![t] = 0]
          /\ UNCHANGED <<ref_count, cell, life, needs_adopt, in_dtor, dst, raw, crash>>

\* d = s: the temporary is a copy of s.
AssignCopy(t, s, d) ==
  /\ At(t, "idle")
  /\ cell[s] # Null
  /\ AddRef(t, cell[s], d)

\* d = std::move(s): the temporary takes the pointer from s.  The mutant is a
\* move constructor that does not reset its source.
MovedFromMutant(o) == o
MovedFrom(o) == Null
AssignMove(t, s, d) ==
  /\ At(t, "idle")
  /\ cell' = [cell EXCEPT ![t] = cell[s], ![s] = MovedFrom(cell[s])]
  /\ dst' = [dst EXCEPT ![t] = d]
  /\ Goto(t, "Swap")
  /\ UNCHANGED <<ref_count, life, needs_adopt, in_dtor, pre, raw, crash>>

\* d.reset() and d = nullptr: scoped_refptr().swap(d).
Reset(t, d) ==
  /\ At(t, "idle")
  /\ cell[d] # Null
  /\ dst' = [dst EXCEPT ![t] = d]
  /\ Goto(t, "Swap")
  /\ UNCHANGED <<ref_count, cell, life, needs_adopt, in_dtor, pre, raw, crash>>

\* d = MakeRefCounted<T>(): the new object is not shared yet.  It starts from
\* one and AdoptRef takes it as it is (DCHECK HasOneRef, Adopted), or it starts
\* from zero and the scoped_refptr constructor counts it, as it does when such an
\* object is wrapped without MakeRefCounted.
MakeRefCounted(t, d, o) ==
  /\ At(t, "idle")
  /\ life[o] = "none"
  /\ life' = [life EXCEPT ![o] = "live"]
  /\ ref_count' = [ref_count EXCEPT ![o] = 1]
  /\ cell' = [cell EXCEPT ![t] = o]
  /\ dst' = [dst EXCEPT ![t] = d]
  /\ Goto(t, "Swap")
  /\ UNCHANGED <<needs_adopt, in_dtor, pre, raw, crash>>

\* scoped_refptr<T>(new T), where the object starts from one and has not been
\* adopted.
NewUnadopted(t, d, o) ==
  /\ "wrap_new" \in Misuse /\ o \in StartFromOne
  /\ At(t, "idle")
  /\ life[o] = "none"
  /\ life' = [life EXCEPT ![o] = "live"]
  /\ ref_count' = [ref_count EXCEPT ![o] = 1]
  /\ needs_adopt' = needs_adopt \cup {o}
  /\ raw' = [raw EXCEPT ![t] = o]
  /\ dst' = [dst EXCEPT ![t] = d]
  /\ Goto(t, "Wrap")
  /\ UNCHANGED <<cell, in_dtor, pre, crash>>

WrapNew(t) ==
  /\ At(t, "Wrap")
  /\ AddRef(t, raw[t], dst[t])

\* swap(r): d has the new value, the temporary the old one.
Swap(t) ==
  LET d == dst[t] IN
  /\ At(t, "Swap")
  /\ cell' = [cell EXCEPT ![t] = cell[d], ![d] = cell[t]]
  /\ Goto(t, IF cell[d] = Null THEN "idle" ELSE "Release")
  /\ dst' = [dst EXCEPT ![t] = t]
  /\ UNCHANGED <<ref_count, life, needs_adopt, in_dtor, pre, raw, crash>>

\* ~scoped_refptr of the temporary: Release, its DCHECKs first.
Release(t) ==
  LET o == cell[t] IN
  /\ At(t, "Release")
  /\ IF RefusesInDtor(o) THEN Fail("Release in_dtor")
     ELSE IF DCheckOn /\ ref_count[o] = 0 THEN Fail("Release zero")
     ELSE /\ Goto(t, "Decrement")
          /\ UNCHANGED <<ref_count, cell, life, needs_adopt, in_dtor, dst, pre, raw, crash>>

\* AtomicRefCount::Decrement returns false: fetch_sub returned 1.  Mutants:
\* fetch_sub taken for the new value, and off by one.
DropsToZeroNewValueMutant(n) == n = 0
DropsToZeroOffByOneMutant(n) == n = 2
DropsToZero(n) == n = 1

Decrement(t) ==
  LET o == cell[t] IN
  /\ At(t, "Decrement")
  /\ ref_count' = [ref_count EXCEPT ![o] = Wrap(@ - 1)]
  /\ cell' = [cell EXCEPT ![t] = Null]
  /\ IF DropsToZero(ref_count[o])
       THEN /\ in_dtor' = IF DCheckOn THEN in_dtor \cup {o} ELSE in_dtor
            /\ raw' = [raw EXCEPT ![t] = o]
            /\ Goto(t, "Destruct")
       ELSE /\ Goto(t, "idle")
            /\ UNCHANGED <<in_dtor, raw>>
  /\ UNCHANGED <<life, needs_adopt, dst, pre, crash>>

\* Traits::Destruct deletes the object: its destructor starts ...
Destruct(t) ==
  LET o == raw[t] IN
  /\ At(t, "Destruct")
  /\ life' = [life EXCEPT ![o] = IF @ = "live" THEN "dtor" ELSE "twice"]
  /\ Goto(t, "Dtor")
  /\ UNCHANGED <<ref_count, cell, needs_adopt, in_dtor, dst, pre, raw, crash>>

\* ... may wrap "this" in a local scoped_refptr, against the contract ...
Resurrect(t) ==
  /\ "resurrect" \in Misuse
  /\ At(t, "Dtor")
  /\ life[raw[t]] = "dtor"
  /\ AddRef(t, raw[t], t)

\* ... and ends.
Deleted(t) ==
  LET o == raw[t] IN
  /\ At(t, "Dtor")
  /\ life' = [life EXCEPT ![o] = IF @ = "dtor" THEN "deleted" ELSE @]
  /\ raw' = [raw EXCEPT ![t] = Null]
  /\ Goto(t, "idle")
  /\ UNCHANGED <<ref_count, cell, needs_adopt, in_dtor, dst, pre, crash>>

\* A reference moves to a variable of another thread (a task, a message).
Hand(t, s, d) ==
  /\ At(t, "idle")
  /\ cell[s] # Null
  /\ cell[d] = Null
  /\ cell' = [cell EXCEPT ![d] = cell[s], ![s] = MovedFrom(cell[s])]
  /\ UNCHANGED <<ref_count, life, needs_adopt, in_dtor, pc, dst, pre, raw, crash>>

Step(t) ==
  \/ AddRefCheck(t)
  \/ WrapNew(t)
  \/ Swap(t)
  \/ Release(t)
  \/ Decrement(t)
  \/ Destruct(t)
  \/ Resurrect(t)
  \/ Deleted(t)

Next ==
  \E t \in Threads :
    \/ \E s, d \in SlotsOf[t] : AssignCopy(t, s, d) \/ AssignMove(t, s, d)
    \/ \E d \in SlotsOf[t] : Reset(t, d)
    \/ \E d \in SlotsOf[t], o \in Objects :
         MakeRefCounted(t, d, o) \/ NewUnadopted(t, d, o)
    \/ \E s \in SlotsOf[t], u \in Threads \ {t} : \E d \in SlotsOf[u] :
         pc[u] = "idle" /\ Hand(t, s, d)
    \/ Step(t)

Spec == Init /\ [][Next]_vars

\* A thread in the middle of an operation goes on with it.
FairSpec == Spec /\ \A t \in Threads : WF_vars(Step(t))

-----------------------------------------------------------------------------
TypeOK ==
  /\ ref_count \in [Objects -> -(IntMax + 1)..IntMax]
  /\ cell \in [Cells -> Objects \cup {Null}]
  /\ life \in [Objects -> {"none", "live", "dtor", "deleted", "twice"}]
  /\ needs_adopt \in SUBSET Objects
  /\ in_dtor \in SUBSET Objects
  /\ pc \in [Threads -> {"idle", "AddRefCheck", "Wrap", "Swap", "Release",
                         "Decrement", "Destruct", "Dtor"}]
  /\ dst \in [Threads -> Cells]
  /\ pre \in [Threads -> -(IntMax + 1)..IntMax]
  /\ raw \in [Threads -> Objects \cup {Null}]
  /\ crash \in {"none", "overflow", "AddRefWithCheck", "AddRef in_dtor",
                "AddRef needs_adopt", "Release in_dtor", "Release zero"}

\* The count of an object is the number of scoped_refptrs that point to it, in
\* every interleaving of AddRef, swap and Release (modulo the width of an int:
\* a count that overflows has wrapped when the CHECK stops the program), unless
\* the object still waits to be adopted.
CountIsRefs ==
  crash = "none" =>
    \A o \in Objects \ needs_adopt :
      (ref_count[o] - Cardinality(Refs(o))) % (2 * (IntMax + 1)) = 0

\* No scoped_refptr ever points to an object that is being or has been
\* deleted: no use after free, no matter which thread drops the last reference,
\* nor, with DCHECKs, what destructors do with "this".
NeverDangles == \A c \in Cells : cell[c] # Null => life[cell[c]] = "live"

\* No object is deleted twice: of the threads that drop the last references at
\* once exactly one sees the count reach zero.
DeletedOnce == \A o \in Objects : life[o] # "twice"

\* No check fails but those for what users do against the contract, the one for
\* overflow, and that of AddRefWithCheck in a thread that saw the negative count
\* another has overflowed to and is about to be stopped for.
OnlyOverflowFails ==
  \/ crash \in {"none", "overflow"}
  \/ "resurrect" \in Misuse /\ crash = "AddRef in_dtor"
  \/ "wrap_new" \in Misuse /\ crash = "AddRef needs_adopt"
  \/ /\ crash = "AddRefWithCheck"
     /\ \E t \in Threads : pc[t] = "AddRefCheck" /\ pre[t] = IntMax

\* Nothing leaks: an object that no scoped_refptr points to gets deleted,
\* unless a failed check stops the program first.
UnreferencedIsDeleted ==
  \A o \in Objects :
    (life[o] = "live" /\ Refs(o) = {}) ~> (life[o] = "deleted" \/ crash # "none")
=============================================================================
