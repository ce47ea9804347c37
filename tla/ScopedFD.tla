------------------------------- MODULE ScopedFD -------------------------------
(***************************************************************************)
(* base::ScopedFD, which is ScopedGeneric with ScopedFDCloseTraits, the    *)
(* table of owned descriptors of scoped_file_linux.cc and its hook into    *)
(* close().  A call is a list of steps, between which other threads run.   *)
(* Every ScopedFD is used by one thread at a time; a thread may also close *)
(* a descriptor that is not its own, and one may fork.                     *)
(***************************************************************************)
EXTENDS Integers, SequencesExt, FiniteSetsExt

CONSTANTS
  FdThreads, FdSlots,
  MaxFds,        \* descriptors that a process has
  MaxTrackedFds, \* kMaxTrackedFds
  Strays         \* how often a program closes what is not its own

ASSUME FdAssumption == MaxFds \in Nat /\ MaxTrackedFds \in Nat /\ Strays \in Nat

Invalid == -1
\* No thread or ScopedFD is named as a descriptor that is not valid.
ASSUME NamesAssumption == Invalid \notin FdThreads \cup FdSlots
Fds == 0..(MaxFds - 1)
CanTrack(fd) == fd >= 0 /\ fd < MaxTrackedFds

VARIABLES
  open,      \* the descriptors that are open, kept by the kernel
  owned,     \* g_is_fd_owned
  enforced,  \* g_is_ownership_enforced
  held,      \* data_.generic of every ScopedFD
  receiving, \* its receiving_
  raw,       \* the descriptor that a thread has from open() or release()
  value,     \* value_ of the Receiver of a ScopedFD
  steps,     \* what is left of the call that a thread is in
  strays,    \* ghost: strays left
  slipped,   \* ghost: a stray has passed the check of close()
  child,     \* the thread that runs in the forked process, or no thread yet
  crashed    \* ImmediateCrash or a failed CHECK

fdVars == <<open, owned, enforced, held, receiving, raw, value, steps, strays,
            slipped, child, crashed>>
fdTables == <<open, owned, enforced>>
fdGhosts == <<strays, slipped, child>>

-----------------------------------------------------------------------------
(* The steps of calls                                                      *)

\* slot: the ScopedFD that the call uses, so that nobody else does.
Step(name, s, fd) == <<[name |-> name, slot |-> s, fd |-> fd]>>
Tracks(name, s, fd) == IF fd = Invalid THEN <<>> ELSE Step(name, s, fd)
Close(s, fd) == Step("check", s, fd) \o Step("libc_close", s, fd)

\* The owner is removed from the table before the descriptor can be reused.
FreeIfNecessaryMutant(s, fd) ==
  IF fd = Invalid THEN <<>> ELSE Close(s, fd) \o Tracks("release", s, fd)
FreeIfNecessary(s, fd) ==
  IF fd = Invalid THEN <<>> ELSE Tracks("release", s, fd) \o Close(s, fd)
ResetTo(s, old, fd) ==
  FreeIfNecessary(s, old) \o Step("set", s, fd) \o Tracks("acquire", s, fd)

FdInit ==
  /\ open = {} /\ owned = [fd \in Fds |-> FALSE] /\ enforced = FALSE
  /\ held = [s \in FdSlots |-> Invalid] /\ receiving = [s \in FdSlots |-> FALSE]
  /\ raw = [t \in FdThreads |-> Invalid] /\ value = [s \in FdSlots |-> Invalid]
  /\ steps = [t \in FdThreads |-> <<>>]
  /\ strays = Strays /\ slipped = FALSE /\ child = Invalid /\ crashed = FALSE

\* Nobody else is in a call that uses the ScopedFD.
Idle(s) == \A t \in FdThreads : \A i \in DOMAIN steps[t] : steps[t][i].slot # s
MayCall(t) == steps[t] = <<>> /\ child = Invalid

\* open(): the lowest descriptor that is not in use.
OpenFd(t) ==
  /\ MayCall(t) /\ raw[t] = Invalid /\ open # Fds
  /\ LET fd == Min(Fds \ open)
     IN open' = open \cup {fd} /\ raw' = [raw EXCEPT ![t] = fd]
  /\ UNCHANGED <<owned, enforced, held, receiving, value, steps, fdGhosts, crashed>>

\* The constructor, reset(value); the destructor and reset() when value is not valid.
ResetFd(t, s) ==
  /\ MayCall(t) /\ Idle(s) /\ ~receiving[s]
  /\ \E fd \in {raw[t], Invalid} :
       /\ fd # Invalid => held[s] # fd
       /\ steps' = [steps EXCEPT ![t] = ResetTo(s, held[s], fd)]
       /\ raw' = [raw EXCEPT ![t] = IF fd = Invalid THEN @ ELSE Invalid]
  /\ UNCHANGED <<fdTables, held, receiving, value, fdGhosts, crashed>>

\* release(): the thread has the descriptor now.
ReleaseFd(t, s) ==
  /\ MayCall(t) /\ Idle(s) /\ raw[t] = Invalid
  /\ held' = [held EXCEPT ![s] = Invalid]
  /\ raw' = [raw EXCEPT ![t] = held[s]]
  /\ steps' = [steps EXCEPT ![t] = Tracks("release", s, held[s])]
  /\ UNCHANGED <<fdTables, receiving, value, fdGhosts, crashed>>

\* The move constructor and operator=: reset(rvalue.release()).
MoveFd(t, from, to) ==
  /\ MayCall(t) /\ Idle(from) /\ Idle(to) /\ ~receiving[to]
  /\ held' = [held EXCEPT ![from] = Invalid]
  /\ steps' = [steps EXCEPT ![t] =
       Tracks("release", from, held[from]) \o ResetTo(to, held'[to], held[from])]
  /\ UNCHANGED <<fdTables, receiving, raw, value, fdGhosts, crashed>>

\* A Receiver is made, gets a descriptor by get(), and is destroyed.
Receive(t, s) ==
  /\ MayCall(t) /\ Idle(s) /\ ~receiving[s]
  /\ receiving' = [receiving EXCEPT ![s] = TRUE] /\ value' = [value EXCEPT ![s] = Invalid]
  /\ UNCHANGED <<fdTables, held, raw, steps, fdGhosts, crashed>>
Get(t, s) ==
  /\ MayCall(t) /\ receiving[s] /\ value[s] = Invalid /\ raw[t] # Invalid /\ Idle(s)
  /\ value' = [value EXCEPT ![s] = raw[t]] /\ raw' = [raw EXCEPT ![t] = Invalid]
  /\ UNCHANGED <<fdTables, held, receiving, steps, fdGhosts, crashed>>
Received(t, s) ==
  /\ MayCall(t) /\ receiving[s] /\ Idle(s) /\ (value[s] # Invalid => value[s] # held[s])
  /\ steps' = [steps EXCEPT ![t] = ResetTo(s, held[s], value[s])]
  /\ receiving' = [receiving EXCEPT ![s] = FALSE] /\ value' = [value EXCEPT ![s] = Invalid]
  /\ UNCHANGED <<fdTables, held, raw, fdGhosts, crashed>>

\* close() of the thread's own descriptor, and of one that it has no right to.
CloseRaw(t) ==
  /\ MayCall(t) /\ raw[t] # Invalid
  /\ steps' = [steps EXCEPT ![t] = Close(Invalid, raw[t])] /\ raw' = [raw EXCEPT ![t] = Invalid]
  /\ UNCHANGED <<fdTables, held, receiving, value, fdGhosts, crashed>>
CloseStray(t, fd) ==
  /\ MayCall(t) /\ strays > 0
  /\ steps' = [steps EXCEPT ![t] = 
       Step("check_stray", Invalid, fd) \o Step("stray_close", Invalid, fd)]
  /\ strays' = strays - 1
  /\ UNCHANGED <<fdTables, held, receiving, raw, value, slipped, child, crashed>>

EnableFDOwnershipEnforcement ==
  /\ child = Invalid /\ enforced' = TRUE
  /\ UNCHANGED <<open, owned, held, receiving, raw, value, steps, fdGhosts, crashed>>

-----------------------------------------------------------------------------
(* One step                                                                *)

\* UpdateAndCheckFdOwnership: an exchange, and then the check.
Update(fd, now) ==
  /\ owned' = IF CanTrack(fd) THEN [owned EXCEPT ![fd] = now] ELSE owned
  /\ crashed' = (CanTrack(fd) /\ owned[fd] = now /\ enforced)
  /\ UNCHANGED <<open, held, slipped>>
IsFDOwned(fd) == CanTrack(fd) /\ owned[fd]

Do(step) ==
  LET fd == step.fd
  IN \/ step.name = "acquire" /\ Update(fd, TRUE)
     \/ step.name = "release" /\ Update(fd, FALSE)
     \/ /\ step.name \in {"check", "check_stray"}
        /\ crashed' = (IsFDOwned(fd) /\ enforced)
        /\ slipped' = (slipped \/ (step.name = "check_stray" /\ ~crashed'))
        /\ UNCHANGED <<open, owned, held>>
     \* PCHECK of ScopedFDCloseTraits::Free: EBADF.
     \/ /\ step.name \in {"libc_close", "stray_close"}
        /\ open' = open \ {fd}
        /\ crashed' = (step.name = "libc_close" /\ fd \notin open)
        /\ UNCHANGED <<owned, held, slipped>>
     \/ /\ step.name = "set"
        /\ held' = [held EXCEPT ![step.slot] = fd]
        /\ UNCHANGED <<open, owned, slipped, crashed>>
RunStep(t) ==
  /\ steps[t] # <<>> /\ child \in {Invalid, t}
  /\ Do(Head(steps[t])) /\ steps' = [steps EXCEPT ![t] = Tail(@)]
  /\ UNCHANGED <<enforced, receiving, raw, value, strays, child>>

\* In the child of a fork() there is one thread, wherever the others were: it
\* calls ResetFDOwnership and then closes descriptors that are open.
ResetFDOwnership == [fd \in Fds |-> FALSE]
Fork(t) ==
  /\ MayCall(t) /\ child' = t /\ owned' = ResetFDOwnership
  /\ UNCHANGED <<open, enforced, held, receiving, raw, value, steps, strays, slipped, crashed>>
CloseInChild(t, fd) ==
  /\ child = t /\ steps[t] = <<>> /\ fd \in open
  /\ steps' = [steps EXCEPT ![t] = Close(Invalid, fd)]
  /\ UNCHANGED <<fdTables, held, receiving, raw, value, fdGhosts, crashed>>

FdCall(t) ==
  \/ OpenFd(t) \/ CloseRaw(t) \/ Fork(t)
  \/ \E s \in FdSlots : ResetFd(t, s) \/ ReleaseFd(t, s) \/ Receive(t, s) \/ Get(t, s) \/ Received(t, s)
  \/ \E from, to \in FdSlots : MoveFd(t, from, to)
  \/ \E fd \in Fds : CloseStray(t, fd) \/ CloseInChild(t, fd)
FdNext ==
  /\ ~crashed
  /\ \/ \E t \in FdThreads : FdCall(t) \/ RunStep(t)
     \/ EnableFDOwnershipEnforcement
FdSpec == FdInit /\ [][FdNext]_fdVars

-----------------------------------------------------------------------------
\* Descriptors that a ScopedFD holds and that no thread is about to close.
AtRest == {s \in FdSlots : held[s] # Invalid /\ Idle(s)}

\* As long as no stray close() got past the check of the hook, a descriptor that
\* a ScopedFD holds is open, is in the table, and no other ScopedFD or thread
\* has it: a number that is reused while another thread is in reset() or close()
\* has one owner at a time.
HeldIsOpen ==
  ~slipped /\ ~crashed /\ child = Invalid =>
    \A s \in AtRest :
      /\ held[s] \in open
      /\ CanTrack(held[s]) => owned[held[s]]
      /\ \A s2 \in FdSlots \ {s} : held[s2] = held[s] => ~Idle(s2)
      /\ \A t \in FdThreads : raw[t] # held[s]

\* Nothing crashes, in the child of a fork either, unless a descriptor is closed
\* that its closer does not own.
OnlyStraysCrash == crashed => strays < Strays

\* A descriptor that is owned is open, and the tracking of owners stops only
\* programs that close what they do not own.
OwnedDescriptorsAreSafe == HeldIsOpen /\ OnlyStraysCrash
=============================================================================
