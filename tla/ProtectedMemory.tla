--------------------------- MODULE ProtectedMemory ---------------------------
(***************************************************************************)
(* The protected memory section of one binary: ProtectedMemory variables   *)
(* that are read-only except while an AutoWritableMemory for one of them   *)
(* is in scope, on any thread.  What can be protected is a page, and what  *)
(* is protected again when the last writer goes is the whole section.      *)
(*                                                                         *)
(* Each AutoWritableMemory runs by itself here: writers nested on one      *)
(* thread are among its behaviours, since no constructor or destructor     *)
(* ends with the lock held.  A step is a run of statements that others can *)
(* see at once: an mprotect, or what is done to the counter under the lock.*)
(***************************************************************************)
EXTENDS Naturals, FiniteSets

CONSTANTS
  Writers,          \* the AutoWritableMemory objects
  Pages,            \* the pages of the section
  PageOf,           \* the page of each writer's ProtectedMemory variable
  CounterPage,      \* the page of WriterData::writers
  Initializer,      \* the AutoWritableMemoryInitializer
  Nobody,
  Platforms,        \* "win", where the linker makes the section read-only, and
                    \* "posix", where the initializer does
  MemoryMisuse      \* {"early_writer"}: writers before the initializer is done

ASSUME PagesAssumption == PageOf \in [Writers -> Pages] /\ CounterPage \in Pages
ASSUME WritersAssumption == IsFiniteSet(Writers)
ASSUME InitializerAssumption == Initializer \notin Writers /\ Nobody \notin Writers \cup {Initializer}
ASSUME PlatformsAssumption == Platforms \subseteq {"win", "posix"}
ASSUME MemoryMisuseAssumption == MemoryMisuse \subseteq {"early_writer"}

VARIABLES
  writers,      \* WriterData::writers
  writable,     \* the pages mapped PROT_READ | PROT_WRITE
  lock,         \* who has writers_lock()
  place,        \* where each writer is
  init,         \* where the static AutoWritableMemoryInitializer is
  memory_crash  \* "none", the CHECK that failed, or "SIGSEGV"

memoryVars == <<writers, writable, lock, place, init, memory_crash>>

MemoryInit ==
  /\ writers = 0
  /\ \/ "win" \in Platforms /\ writable = {} /\ init = "done"
     \/ "posix" \in Platforms /\ writable = Pages /\ init = "none"
  /\ lock = Nobody
  /\ place = [w \in Writers |-> "none"]
  /\ memory_crash = "none"

At(w, where) == memory_crash = "none" /\ place[w] = where
Goto(w, where) == place' = [place EXCEPT ![w] = where]

Lock(a) == lock = Nobody /\ lock' = a

FailCheck(why) == memory_crash' = why /\ UNCHANGED <<writers, writable, lock, place, init>>

-----------------------------------------------------------------------------
\* AutoWritableMemoryInitializer: nothing but a CHECK on Windows.
StartInitializer ==
  /\ memory_crash = "none" /\ init = "none"
  /\ Lock(Initializer)
  /\ init' = "reset"
  /\ UNCHANGED <<writers, writable, place, memory_crash>>

ResetWriters ==
  /\ memory_crash = "none" /\ init = "reset"
  /\ IF CounterPage \notin writable THEN FailCheck("SIGSEGV")
     ELSE writers' = 0 /\ init' = "protect" /\ UNCHANGED <<writable, lock, place, memory_crash>>

\* SetProtectedSectionReadOnly: every page of the section, or in the mutant the
\* one the section starts with.
ProtectedMutant == writable \ {CounterPage}
Protected == writable \ Pages

EndInitializer ==
  /\ memory_crash = "none" /\ init = "protect"
  /\ writable' = Protected
  /\ lock' = Nobody
  /\ init' = "done"
  /\ UNCHANGED <<writers, place, memory_crash>>

-----------------------------------------------------------------------------
\* The constructor takes the lock; by contract not before the initializer is
\* done.
Construct(w) ==
  /\ At(w, "none")
  /\ init = "done" \/ "early_writer" \in MemoryMisuse
  /\ Lock(w)
  /\ Goto(w, "first")
  /\ UNCHANGED <<writers, writable, init, memory_crash>>

\* The first writer checks that its variable and the counter are read-only and
\* makes the counter writable.  In the mutant every writer is the first.
IsFirstMutant == TRUE
IsFirst == writers = 0
IsExposed(w) == PageOf[w] \in writable \/ CounterPage \in writable

MakeCounterWritable(w) ==
  /\ At(w, "first")
  /\ IF ~ IsFirst THEN Goto(w, "count") /\ UNCHANGED <<writers, writable, lock, init, memory_crash>>
     ELSE IF IsExposed(w) THEN FailCheck("CheckObjectReadOnly")
     ELSE /\ writable' = writable \cup {CounterPage}
          /\ Goto(w, "count")
          /\ UNCHANGED <<writers, lock, init, memory_crash>>

\* ++writers, and the end of the lock's scope.
Count(w) ==
  /\ At(w, "count")
  /\ IF CounterPage \in writable
       THEN /\ writers' = writers + 1
            /\ lock' = Nobody
            /\ Goto(w, "unprotect")
            /\ UNCHANGED <<writable, init, memory_crash>>
       ELSE FailCheck("SIGSEGV")

\* SetObjectReadWrite(protected_memory_->data_), after the lock.
MakeWritable(w) ==
  /\ At(w, "unprotect")
  /\ writable' = writable \cup {PageOf[w]}
  /\ Goto(w, "scope")
  /\ UNCHANGED <<writers, lock, init, memory_crash>>

\* emplace, or an assignment through GetProtectedData; what is written does not
\* matter, whether it can be does.
Write(w) ==
  /\ At(w, "scope")
  /\ IF PageOf[w] \in writable THEN UNCHANGED memoryVars ELSE FailCheck("SIGSEGV")

Destruct(w) ==
  /\ At(w, "scope")
  /\ Lock(w)
  /\ Goto(w, "uncount")
  /\ UNCHANGED <<writers, writable, init, memory_crash>>

\* --writers; when it has become zero the section is to be protected.  In the
\* mutant it is when one is left.
IsLastMutant == writers <= 2
IsLast == writers = 1

Uncount(w) ==
  /\ At(w, "uncount")
  /\ IF writers = 0 THEN FailCheck("CHECK_GT(writers, 0)")
     ELSE IF CounterPage \notin writable THEN FailCheck("SIGSEGV")
     ELSE /\ writers' = writers - 1
          /\ IF IsLast THEN Goto(w, "protect") /\ UNCHANGED lock
             ELSE Goto(w, "none") /\ lock' = Nobody
          /\ UNCHANGED <<writable, init, memory_crash>>

Protect(w) ==
  /\ At(w, "protect")
  /\ writable' = Protected
  /\ Goto(w, "check")
  /\ UNCHANGED <<writers, lock, init, memory_crash>>

CheckReadOnly(w) ==
  /\ At(w, "check")
  /\ IF CounterPage \in writable THEN FailCheck("CheckObjectReadOnly")
     ELSE Goto(w, "none") /\ lock' = Nobody /\ UNCHANGED <<writers, writable, init, memory_crash>>

MemoryNext ==
  \/ StartInitializer
  \/ ResetWriters
  \/ EndInitializer
  \/ \E w \in Writers :
       \/ Construct(w)
       \/ MakeCounterWritable(w)
       \/ Count(w)
       \/ MakeWritable(w)
       \/ Write(w)
       \/ Destruct(w)
       \/ Uncount(w)
       \/ Protect(w)
       \/ CheckReadOnly(w)

MemorySpec == MemoryInit /\ [][MemoryNext]_memoryVars

-----------------------------------------------------------------------------
Places == {"none", "first", "count", "unprotect", "scope", "uncount", "protect", "check"}

MemoryTypeOK ==
  /\ writers \in Nat
  /\ writable \in SUBSET Pages
  /\ lock \in Writers \cup {Initializer, Nobody}
  /\ place \in [Writers -> Places]
  /\ init \in {"none", "reset", "protect", "done"}
  /\ memory_crash \in {"none", "CheckObjectReadOnly", "CHECK_GT(writers, 0)", "SIGSEGV"}

InScope(w) == place[w] \in {"scope", "uncount"}

\* As long as an AutoWritableMemory is in scope its variable is writable: no
\* destructor of another writer, on any thread, takes that away, although the
\* page is made writable outside the lock and protected with all the others.
InScopeIsWritable == \A w \in Writers : InScope(w) => PageOf[w] \in writable

\* The section is all read-only when no writer is in scope or about to be, and
\* has been since the initializer: no late SetObjectReadWrite leaves a page
\* behind that nobody protects again.
SealedAtRest ==
  init = "done" /\ (\A w \in Writers : place[w] \in {"none", "first", "check"}) => writable = {}

\* No CHECK fails, and nobody touches read-only memory, once the initializer is
\* done: only a writer that did not wait for it can be stopped.
OnlyEarlyWritersFail == memory_crash # "none" => init = "none"

\* A writer that comes before the initializer is stopped by CheckObjectReadOnly:
\* the initializer never protects memory under a writer, nor resets the count
\* of one.
EarlyWritersAreStopped ==
  init # "done" => \A w \in Writers : place[w] \in {"none", "first"}
=============================================================================
