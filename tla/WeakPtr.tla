------------------------------ MODULE WeakPtr ------------------------------
(***************************************************************************)
(* An object with a WeakPtrFactory, and the WeakPtrs and SafeRefs to it    *)
(* that sequences copy, move and hand to each other.  The pointers share   *)
(* a reference-counted flag with the factory; invalidating the pointers    *)
(* sets the flag and gives the factory a new one.  A flag that nobody      *)
(* refers to is freed, and its memory may hold the next one.               *)
(*                                                                         *)
(* The header says that the first use of a pointer binds the flag to a     *)
(* sequence.  The sequence checker that would see to it is compiled out,   *)
(* so "bound" is here what the header means, and only the users that keep  *)
(* to the contract look at it.  DCHECKs are on.                            *)
(***************************************************************************)
EXTENDS Naturals, FiniteSets

CONSTANTS
  Sequences,
  WeakPtrs,       \* the WeakPtr variables
  SafeRefs,       \* the SafeRef variables
  Flags,          \* memory for flags
  Null,
  Misuse          \* {"other_sequence"} when users do not care where they are

Ptrs == WeakPtrs \cup SafeRefs

ASSUME PtrsAssumption == WeakPtrs \cap SafeRefs = {}
ASSUME NullAssumption == Null \notin Sequences \cup Ptrs \cup Flags
ASSUME MisuseAssumption == Misuse \subseteq {"other_sequence"}
\* Every pointer can have a flag of its own and the factory another.
ASSUME FlagsAssumption ==
  IsFiniteSet(Ptrs) /\ IsFiniteSet(Flags) /\ Cardinality(Flags) > Cardinality(Ptrs)

VARIABLES
  object,       \* "alive", or "gone" after its destructor
  home,         \* the sequence that has the object
  step,         \* where home is in an operation of the factory
  flag,         \* flag_ of the WeakReferenceOwner
  invalidated,  \* the flags that are set
  ref,          \* ref_.flag_ of each pointer
  holder,       \* the sequence that has each pointer
  using,        \* the pointer whose T* each sequence is about to use
  bound,        \* the sequence each flag is bound to
  quiet,        \* {"quiet"} since HasWeakPtrs() was false
  crash         \* "none", or the check that failed

vars == <<object, home, step, flag, invalidated, ref, holder, using, bound, quiet, crash>>

factory == <<object, home, step, flag>>

Init ==
  /\ object = "alive"
  /\ home \in Sequences
  /\ step = "idle"
  /\ flag \in Flags
  /\ invalidated = {}
  /\ ref = [p \in Ptrs |-> Null]
  /\ holder \in [Ptrs -> Sequences]
  /\ using = [q \in Sequences |-> Null]
  /\ bound = [f \in Flags |-> Null]
  /\ quiet = {}
  /\ crash = "none"

\* Sequence q can start something.
Free(q) ==
  /\ crash = "none"
  /\ using[q] = Null
  /\ q = home => step = "idle"

Fail(why) == crash' = why /\ UNCHANGED <<factory, invalidated, ref, holder, using, bound, quiet>>

\* WeakReference::IsValid.
IsValid(f) == f # Null /\ f \notin invalidated

\* RefCountedThreadSafe: a flag is freed when nothing refers to it.  The mutant
\* forgets the references of pointers.
UnusedMutant(f) == f # flag
Unused(f) == f # flag /\ \A p \in Ptrs : ref[p] # f

\* HasRefs: !flag_->HasOneRef().  The mutant is off by one.
HasRefsMutant == Cardinality({p \in Ptrs : ref[p] = flag}) > 1
HasRefs == \E p \in Ptrs : ref[p] = flag

\* Where the header lets q check or invalidate the pointers of f.
MayCheck(q, f) ==
  "other_sequence" \notin Misuse /\ f # Null => bound[f] \in {Null, q}

\* The checkers would be bound by that.
Bind(q, f) == bound' = IF f # Null /\ bound[f] = Null THEN [bound EXCEPT ![f] = q] ELSE bound

-----------------------------------------------------------------------------
\* GetWeakPtr and GetSafeRef.  Without pointers the flag is unbound.
GetRef(q, p) ==
  /\ q = home /\ Free(q) /\ object = "alive" /\ holder[p] = q
  /\ IF flag = Null THEN Fail("DCHECK(flag_)")
     ELSE /\ ref' = [ref EXCEPT ![p] = flag]
          /\ quiet' = {}
          /\ IF HasRefs THEN UNCHANGED bound ELSE bound' = [bound EXCEPT ![flag] = Null]
          /\ UNCHANGED <<factory, invalidated, holder, using, crash>>

\* p = r and p = std::move(r).  A SafeRef CHECKs what it has got, which is a
\* check of its sequence, too.
Assign(q, p, r, source) ==
  /\ Free(q) /\ holder[p] = q /\ holder[r] = q
  /\ p \in SafeRefs <=> r \in SafeRefs
  /\ IF p \in SafeRefs
       THEN /\ MayCheck(q, ref[r])
            /\ IF IsValid(ref[r]) THEN crash' = crash ELSE crash' = "CHECK(ref_.IsValid())"
            /\ Bind(q, ref[r])
       ELSE UNCHANGED <<bound, crash>>
  /\ ref' = [ref EXCEPT ![r] = source, ![p] = ref[r]]
  /\ UNCHANGED <<factory, invalidated, holder, using, quiet>>

Copy(q, p, r) == Assign(q, p, r, ref[r])
Move(q, p, r) == Assign(q, p, r, Null)

\* reset(), or the destructor of p.
Reset(q, p) ==
  /\ Free(q) /\ holder[p] = q
  /\ ref' = [ref EXCEPT ![p] = Null]
  /\ UNCHANGED <<factory, invalidated, holder, using, bound, quiet, crash>>

\* A pointer goes to another sequence, in a task.
Hand(q, p, u) ==
  /\ Free(q) /\ holder[p] = q
  /\ holder' = [holder EXCEPT ![p] = u]
  /\ UNCHANGED <<factory, invalidated, ref, using, bound, quiet, crash>>

\* operator-> and operator*: CHECK(ref_.IsValid()); the object is used until Used.
\* get() asks the same and returns null where they fail.
Use(q, p) ==
  /\ Free(q) /\ holder[p] = q /\ MayCheck(q, ref[p])
  /\ Bind(q, ref[p])
  /\ IF IsValid(ref[p]) THEN using' = [using EXCEPT ![q] = p] /\ UNCHANGED crash
     ELSE crash' = "CHECK(ref_.IsValid())" /\ UNCHANGED using
  /\ UNCHANGED <<factory, invalidated, ref, holder, quiet>>

\* The mutant returns ptr_ whenever it is not null.
GotMutant(q, p) == IF ref[p] # Null THEN p ELSE Null
Got(q, p) == IF IsValid(ref[p]) THEN p ELSE Null

Get(q, p) ==
  /\ p \in WeakPtrs
  /\ Free(q) /\ holder[p] = q /\ MayCheck(q, ref[p])
  /\ Bind(q, ref[p])
  /\ using' = [using EXCEPT ![q] = Got(q, p)]
  /\ UNCHANGED <<factory, invalidated, ref, holder, quiet, crash>>

\* It has used the object.
Used(q) ==
  /\ crash = "none"
  /\ using[q] # Null
  /\ using' = [using EXCEPT ![q] = Null]
  /\ UNCHANGED <<factory, invalidated, ref, holder, bound, quiet, crash>>

-----------------------------------------------------------------------------
\* HasWeakPtrs() is false; from then on it stays false until the next GetRef.
HasNoWeakPtrs(q) ==
  /\ q = home /\ Free(q) /\ object = "alive"
  /\ flag = Null \/ ~ HasRefs
  /\ quiet' = {"quiet"}
  /\ UNCHANGED <<factory, invalidated, ref, holder, using, bound, crash>>

\* Flag::Invalidate.  The header lets only the sequence do it that the flag is
\* bound to, unless there are no pointers.
Invalidate(q) ==
  /\ MayCheck(q, flag) \/ ~ HasRefs
  /\ invalidated' = invalidated \cup {flag}
  /\ Bind(q, flag)

\* InvalidateWeakPtrs, InvalidateWeakPtrsAndDoom: the flag is set ...
InvalidateWeakPtrs(q, doom) ==
  /\ q = home /\ Free(q) /\ object = "alive"
  /\ IF flag = Null THEN Fail("DCHECK(ptr_)")
     ELSE /\ Invalidate(q)
          /\ step' = doom
          /\ UNCHANGED <<object, home, flag, ref, holder, using, quiet, crash>>

\* ... and replaced: a new Flag is not set, whatever its memory held
\* before; or dropped.
Constructed(f) == invalidated \ {f}

NewFlag(f) ==
  /\ crash = "none" /\ step = "renew"
  /\ Unused(f)
  /\ flag' = f
  /\ invalidated' = Constructed(f)
  /\ bound' = [bound EXCEPT ![f] = Null]
  /\ step' = "idle"
  /\ UNCHANGED <<object, home, ref, holder, using, quiet, crash>>

Doom ==
  /\ crash = "none" /\ step = "doom"
  /\ flag' = Null
  /\ step' = "idle"
  /\ UNCHANGED <<object, home, invalidated, ref, holder, using, bound, quiet, crash>>

\* The object is destroyed, its factory first: ~WeakReferenceOwner sets the flag
\* if there is one.  Then the memory is gone.
Dtor(q) == IF flag = Null THEN UNCHANGED <<invalidated, bound>> ELSE Invalidate(q)

Destroy(q) ==
  /\ q = home /\ Free(q) /\ object = "alive"
  /\ Dtor(q)
  /\ flag' = Null
  /\ step' = "dtor"
  /\ UNCHANGED <<object, home, ref, holder, using, quiet, crash>>

Gone ==
  /\ crash = "none" /\ step = "dtor"
  /\ object' = "gone"
  /\ step' = "idle"
  /\ UNCHANGED <<home, flag, invalidated, ref, holder, using, bound, quiet, crash>>

\* The object goes to another sequence.
HandObject(q, u) ==
  /\ q = home /\ Free(q) /\ object = "alive"
  /\ home' = u
  /\ UNCHANGED <<object, step, flag, invalidated, ref, holder, using, bound, quiet, crash>>

Next ==
  \/ \E q \in Sequences :
       \/ \E p \in Ptrs : GetRef(q, p) \/ Reset(q, p) \/ Use(q, p) \/ Get(q, p)
       \/ \E p, r \in Ptrs : p # r /\ (Copy(q, p, r) \/ Move(q, p, r))
       \/ \E p \in Ptrs, u \in Sequences \ {q} : using[u] = Null /\ Hand(q, p, u)
       \/ Used(q)
       \/ HasNoWeakPtrs(q)
       \/ \E doom \in {"renew", "doom"} : InvalidateWeakPtrs(q, doom)
       \/ Destroy(q)
       \/ \E u \in Sequences \ {q} : using[u] = Null /\ HandObject(q, u)
  \/ \E f \in Flags : NewFlag(f)
  \/ Doom
  \/ Gone

Spec == Init /\ [][Next]_vars

-----------------------------------------------------------------------------
TypeOK ==
  /\ object \in {"alive", "gone"}
  /\ home \in Sequences
  /\ step \in {"idle", "renew", "doom", "dtor"}
  /\ flag \in Flags \cup {Null}
  /\ invalidated \in SUBSET Flags
  /\ ref \in [Ptrs -> Flags \cup {Null}]
  /\ holder \in [Ptrs -> Sequences]
  /\ using \in [Sequences -> Ptrs \cup {Null}]
  /\ bound \in [Flags -> Sequences \cup {Null}]
  /\ quiet \in SUBSET {"quiet"}
  /\ crash \in {"none", "DCHECK(flag_)", "DCHECK(ptr_)", "CHECK(ref_.IsValid())"}

\* Users that check and invalidate on one sequence, as the header asks, never
\* use the object after it is gone, wherever else it and its pointers travel.
UseIsSafe == \A q \in Sequences : using[q] # Null => object = "alive" /\ step # "dtor"

\* Once the object is gone every pointer to it says so, in every program.
DeadPointersAreInvalid == object = "gone" => \A p \in Ptrs : ~ IsValid(ref[p])

\* HasWeakPtrs() is a promise: after it was false no pointer is valid until the
\* factory gives one out, although other sequences still copy and drop others.
QuietMeansNone == quiet # {} => \A p \in Ptrs : ~ IsValid(ref[p])

\* What was invalidated never becomes valid again, not even when the memory of
\* its flag is used for another.
InvalidStaysInvalid ==
  [][\A p \in Ptrs :
       ref[p] # Null /\ ~ IsValid(ref[p]) /\ ref'[p] = ref[p] => ref'[p] \in invalidated']_vars

\* Between operations the flag of the factory is not set: what GetWeakPtr returns
\* is valid, and the CHECK of a new SafeRef holds.
NewPointersAreValid == object = "alive" /\ step = "idle" => flag \notin invalidated

=============================================================================
