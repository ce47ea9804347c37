----------------------------- MODULE Threads_proofs -----------------------------
(***************************************************************************)
(* Four components that several threads share, each by itself.             *)
(***************************************************************************)
EXTENDS ThreadCollisionWarner, ThreadIdCache, ProtectedMemory, WeakPtr, FiniteSetTheorems, TLAPS

-----------------------------------------------------------------------------
(***************************************************************************)
(* ThreadCollisionWarner                                                   *)
(* For any number of threads and any mix of scope classes: the silent      *)
(* warner has at most one thread in the section, and its first warning is  *)
(* for a real overlap.  Neither is inductive by itself.  OwnerInside adds  *)
(* the reason: while there is no warning, valid_thread_id names the one    *)
(* thread in the section and the counter counts that thread's entries.     *)
(***************************************************************************)
Owns(u) ==
  /\ InSection(u)
  /\ counter = depth[u] + pins[u]
  /\ pc[u] = "store" => counter = 0
  /\ \A t \in WarnerThreads \ {u} : ~InSection(t)

NobodyInside ==
  /\ counter = 0
  /\ \A t \in WarnerThreads : ~InSection(t)

OwnerInside ==
  warned = {} =>
    IF valid_thread_id = kInvalidThreadId THEN NobodyInside ELSE Owns(valid_thread_id)

\* Every variable keeps its type (WarnerTypeOK).
THEOREM WarnerTypeCorrect == WarnerSpec => []WarnerTypeOK
<1>1. WarnerInit => WarnerTypeOK
  BY DEF WarnerInit, WarnerTypeOK
<1>2. WarnerTypeOK /\ [WarnerNext]_warnerVars => WarnerTypeOK'
  <2> SUFFICES ASSUME WarnerTypeOK, [WarnerNext]_warnerVars PROVE WarnerTypeOK'
    OBVIOUS
  <2> USE DEF WarnerTypeOK
  <2>1. ASSUME NEW t \in WarnerThreads, NEW kind \in Kinds, EnterSelf(t, kind) PROVE WarnerTypeOK'
    BY <2>1 DEF EnterSelf, Claim, WarnsOnSelf
  <2>2. ASSUME NEW t \in WarnerThreads, Enter(t) PROVE WarnerTypeOK'
    BY <2>2 DEF Enter, Claim, WarnsOnEnter
  <2>3. ASSUME NEW t \in WarnerThreads, Add(t) PROVE WarnerTypeOK'
    BY <2>3 DEF Add
  <2>4. ASSUME NEW t \in WarnerThreads, Leave(t) PROVE WarnerTypeOK'
    BY <2>4 DEF Leave, MayLeave, LastOut
  <2>5. ASSUME NEW t \in WarnerThreads, ClearId(t) PROVE WarnerTypeOK'
    BY <2>5 DEF ClearId, ClearedId
  <2>6. CASE UNCHANGED warnerVars
    BY <2>6 DEF warnerVars
  <2>7. QED
    BY <2>1, <2>2, <2>3, <2>4, <2>5, <2>6 DEF WarnerNext
<1>3. QED
  BY <1>1, <1>2, PTL DEF WarnerSpec

\* The compare-exchange of an enter keeps OwnerInside: a free section gets
\* its owner, the owner stays, and anybody else warns.
LEMMA ClaimKeepsOwner ==
  ASSUME WarnerTypeOK, OwnerInside, NEW t \in WarnerThreads,
         pc[t] = "run",
         pc' = [pc EXCEPT ![t] = "add"],
         Claim(t),
         valid_thread_id \notin {kInvalidThreadId, t} => warned' # {},
         warned = {} \/ warned' # {},
         UNCHANGED <<counter, depth, pins>>
  PROVE  OwnerInside'
<1> SUFFICES ASSUME warned' = {}
             PROVE  valid_thread_id' = t /\ Owns(t)'
  BY InvalidAssumption DEF OwnerInside
<1>1. valid_thread_id \in {kInvalidThreadId, t} /\ warned = {}
  OBVIOUS
<1>2. valid_thread_id' = t
  BY <1>1 DEF Claim
<1>3. InSection(t)'
  BY DEF InSection, WarnerTypeOK
<1>4. counter = depth[t] + pins[t] /\ \A u \in WarnerThreads \ {t} : ~InSection(u)
  BY <1>1, InvalidAssumption DEF OwnerInside, Owns, NobodyInside, InSection, WarnerTypeOK
<1>5. \A u \in WarnerThreads \ {t} : ~InSection(u)'
  BY <1>4 DEF InSection, WarnerTypeOK
<1>6. pc'[t] = "add"
  BY DEF WarnerTypeOK
<1>7. QED
  BY <1>2, <1>3, <1>4, <1>5, <1>6 DEF Owns

\* What the first warning rests on: until it, the id names who is inside.
LEMMA OwnerInvariant == WarnerSpec => []OwnerInside
<1>1. WarnerInit => OwnerInside
  BY DEF WarnerInit, OwnerInside, NobodyInside, InSection
<1>2. WarnerTypeOK /\ OwnerInside /\ [WarnerNext]_warnerVars => OwnerInside'
  <2> SUFFICES ASSUME WarnerTypeOK, OwnerInside, [WarnerNext]_warnerVars PROVE OwnerInside'
    OBVIOUS
  <2>1. ASSUME NEW t \in WarnerThreads, NEW kind \in Kinds, EnterSelf(t, kind)
        PROVE  OwnerInside'
    BY <2>1, ClaimKeepsOwner DEF EnterSelf, WarnsOnSelf
  <2>2. ASSUME NEW t \in WarnerThreads, Enter(t) PROVE OwnerInside'
    BY <2>2, ClaimKeepsOwner DEF Enter, WarnsOnEnter
  <2>3. ASSUME NEW t \in WarnerThreads, Add(t) PROVE OwnerInside'
    BY <2>3, InvalidAssumption
    DEF Add, OwnerInside, Owns, NobodyInside, InSection, WarnerTypeOK
  <2>4. ASSUME NEW t \in WarnerThreads, Leave(t) PROVE OwnerInside'
    BY <2>4, InvalidAssumption
    DEF Leave, MayLeave, LastOut, OwnerInside, Owns, NobodyInside, InSection, WarnerTypeOK
  <2>5. ASSUME NEW t \in WarnerThreads, ClearId(t) PROVE OwnerInside'
    BY <2>5, InvalidAssumption
    DEF ClearId, ClearedId, OwnerInside, Owns, NobodyInside, InSection, WarnerTypeOK
  <2>6. CASE UNCHANGED warnerVars
    BY <2>6 DEF warnerVars, OwnerInside, Owns, NobodyInside, InSection
  <2>7. QED
    BY <2>1, <2>2, <2>3, <2>4, <2>5, <2>6 DEF WarnerNext
<1>3. QED
  BY <1>1, <1>2, WarnerTypeCorrect, PTL DEF WarnerSpec

\* While the warner is silent no two threads are in the section: it misses no
\* overlap, whatever the interleaving of its atomic accesses.
THEOREM SilenceMeansExclusion == WarnerSpec => []NoOverlapUndetected
<1>1. WarnerTypeOK /\ OwnerInside => NoOverlapUndetected
  BY DEF WarnerTypeOK, OwnerInside, Owns, NobodyInside, NoOverlapUndetected
<1>2. QED
  BY <1>1, WarnerTypeCorrect, OwnerInvariant, PTL

\* The first warning is given to a thread that does overlap another one, or
\* that recurses through Enter.
THEOREM NoFalseAlarm == WarnerSpec => FirstWarningIsReal
<1> DEFINE A == warned = {} =>
                  \A t \in warned' :
                    \/ \E u \in WarnerThreads \ {t} : InSection(u)
                    \/ entering'[t] = "ScopedCheck" /\ InSection(t)
<1>1. WarnerTypeOK /\ OwnerInside /\ [WarnerNext]_warnerVars => A
  <2> SUFFICES ASSUME WarnerTypeOK, OwnerInside, [WarnerNext]_warnerVars, warned = {}, NEW t \in warned'
               PROVE  \/ \E u \in WarnerThreads \ {t} : InSection(u)
                      \/ entering'[t] = "ScopedCheck" /\ InSection(t)
    OBVIOUS
  <2>1. ASSUME NEW s \in WarnerThreads, NEW kind \in Kinds, EnterSelf(s, kind)
        PROVE  \E u \in WarnerThreads \ {t} : InSection(u)
    BY <2>1 DEF EnterSelf, WarnsOnSelf, OwnerInside, Owns, WarnerTypeOK
  <2>2. ASSUME NEW s \in WarnerThreads, Enter(s)
        PROVE  \/ \E u \in WarnerThreads \ {t} : InSection(u)
               \/ entering'[t] = "ScopedCheck" /\ InSection(t)
    BY <2>2 DEF Enter, WarnsOnEnter, OwnerInside, Owns, WarnerTypeOK
  <2>3. QED
    BY <2>1, <2>2 DEF WarnerNext, Add, Leave, ClearId, warnerVars
<1>2. QED
  BY <1>1, WarnerTypeCorrect, OwnerInvariant, PTL DEF WarnerSpec, FirstWarningIsReal

\* The entries that the counter counts: scopes that are open, and pins.
Entries ==
  {<<t, "scope", k>> : t \in WarnerThreads, k \in Nat}
  \cup {<<t, "pin", k>> : t \in WarnerThreads, k \in Nat}
Open ==
  {e \in Entries : e[3] \in 1 .. (IF e[2] = "scope" THEN depth[e[1]] ELSE pins[e[1]])}

\* Whether warned or not: the counter counts the entries, and an id is there only
\* while somebody has entered, is entering, or is about to clear it.
EntriesCounted == IsFiniteSet(Open) /\ counter = Cardinality(Open)
IdIsOfSomebody ==
  \/ valid_thread_id = kInvalidThreadId
  \/ counter > 0
  \/ \E t \in WarnerThreads : pc[t] \in {"add", "store"}

\* One entry more, or one less.
LEMMA OpenOne ==
  ASSUME WarnerTypeOK, EntriesCounted, NEW e
  PROVE  /\ e \notin Open /\ Open' = Open \cup {e} =>
              IsFiniteSet(Open') /\ Cardinality(Open') = counter + 1
         /\ e \in Open /\ Open' = Open \ {e} =>
              IsFiniteSet(Open') /\ Cardinality(Open') = counter - 1
         /\ counter \in Nat /\ (counter = 0 <=> Open = {})
BY FS_AddElement, FS_RemoveElement, FS_CardinalityType, FS_EmptySet DEF EntriesCounted

\* The counter is exact after a fetch_add.
LEMMA AddCounts ==
  ASSUME WarnerTypeOK, EntriesCounted, NEW t \in WarnerThreads, Add(t)
  PROVE  EntriesCounted'
<1> DEFINE what == IF entering[t] = "Check" THEN "pin" ELSE "scope"
           k == IF entering[t] = "Check" THEN pins[t] ELSE depth[t]
<1>1. PICK e : e = <<t, what, k + 1>>
  OBVIOUS
<1>2. k \in Nat /\ e \in Entries
  BY <1>1 DEF WarnerTypeOK, Entries
<1>3. e \notin Open
  BY <1>1, <1>2 DEF Open
<1>4. Open' = Open \cup {e}
  <2>1. ASSUME NEW f \in Entries PROVE f \in Open' <=> f \in Open \/ f = e
    BY <1>1, <1>2 DEF Open, Entries, Add, WarnerTypeOK
  <2> QED BY <1>2, <2>1 DEF Open
<1> QED BY <1>3, <1>4, OpenOne DEF Add, EntriesCounted

\* And after a fetch_sub.
LEMMA LeaveCounts ==
  ASSUME WarnerTypeOK, EntriesCounted, NEW t \in WarnerThreads, Leave(t)
  PROVE  EntriesCounted' /\ counter > 0
<1>1. PICK e : e = <<t, "scope", depth[t]>>
  OBVIOUS
<1>2. depth[t] \in Nat /\ depth[t] > 0 /\ e \in Entries
  BY <1>1 DEF WarnerTypeOK, Entries, Leave, MayLeave
<1>3. e \in Open
  BY <1>1, <1>2 DEF Open
<1>4. Open' = Open \ {e}
  <2>1. ASSUME NEW f \in Entries PROVE f \in Open' <=> f \in Open /\ f # e
    BY <1>1, <1>2 DEF Open, Entries, Leave, WarnerTypeOK
  <2> QED BY <1>2, <2>1 DEF Open
<1> QED BY <1>3, <1>4, OpenOne DEF Leave, EntriesCounted

\* With or without warnings, the id is never left behind.
LEMMA ClearedInvariant == WarnerSpec => [](EntriesCounted /\ IdIsOfSomebody)
<1>1. WarnerInit => EntriesCounted /\ IdIsOfSomebody
  <2> SUFFICES ASSUME WarnerInit PROVE EntriesCounted /\ IdIsOfSomebody
    OBVIOUS
  <2>1. Open = {}
    BY DEF WarnerInit, Open, Entries
  <2> QED BY <2>1, FS_EmptySet DEF WarnerInit, EntriesCounted, IdIsOfSomebody
<1>2. WarnerTypeOK /\ EntriesCounted /\ IdIsOfSomebody /\ [WarnerNext]_warnerVars
      => (EntriesCounted /\ IdIsOfSomebody)'
  <2> SUFFICES ASSUME WarnerTypeOK, EntriesCounted, IdIsOfSomebody, [WarnerNext]_warnerVars
               PROVE  EntriesCounted' /\ IdIsOfSomebody'
    OBVIOUS
  <2>1. UNCHANGED <<counter, depth, pins>> => EntriesCounted'
    BY DEF EntriesCounted, Open, Entries
  <2>2. counter \in Nat
    BY OpenOne
  <2>3. ASSUME NEW t \in WarnerThreads, NEW kind \in Kinds, EnterSelf(t, kind)
        PROVE  EntriesCounted' /\ IdIsOfSomebody'
    BY <2>1, <2>3 DEF EnterSelf, WarnerTypeOK, IdIsOfSomebody
  <2>4. ASSUME NEW t \in WarnerThreads, Enter(t) PROVE EntriesCounted' /\ IdIsOfSomebody'
    BY <2>1, <2>4 DEF Enter, WarnerTypeOK, IdIsOfSomebody
  <2>5. ASSUME NEW t \in WarnerThreads, Add(t) PROVE EntriesCounted' /\ IdIsOfSomebody'
    <3>1. counter' > 0
      BY <2>2, <2>5 DEF Add
    <3> QED BY <2>5, <3>1, AddCounts DEF IdIsOfSomebody
  <2>6. ASSUME NEW t \in WarnerThreads, Leave(t) PROVE EntriesCounted' /\ IdIsOfSomebody'
    <3>1. EntriesCounted' /\ counter > 0
      BY <2>6, LeaveCounts
    <3> QED BY <2>2, <2>6, <3>1 DEF Leave, LastOut, IdIsOfSomebody, WarnerTypeOK
  <2>7. ASSUME NEW t \in WarnerThreads, ClearId(t) PROVE EntriesCounted' /\ IdIsOfSomebody'
    BY <2>1, <2>7 DEF ClearId, ClearedId, IdIsOfSomebody
  <2>8. CASE UNCHANGED warnerVars
    BY <2>1, <2>8 DEF warnerVars, IdIsOfSomebody
  <2> QED BY <2>3, <2>4, <2>5, <2>6, <2>7, <2>8 DEF WarnerNext
<1> QED BY <1>1, <1>2, WarnerTypeCorrect, PTL DEF WarnerSpec

\* Collisions do not wedge the warner: when nobody is in the section any more, the
\* counter is 0 and there is no id.
THEOREM QuietWarnerIsClear == WarnerSpec => []QuiescentIsClear
<1>1. WarnerTypeOK /\ EntriesCounted /\ IdIsOfSomebody => QuiescentIsClear
  <2> SUFFICES ASSUME WarnerTypeOK, EntriesCounted, IdIsOfSomebody,
                      \A t \in WarnerThreads : ~InSection(t)
               PROVE  counter = 0 /\ valid_thread_id = kInvalidThreadId
    BY DEF QuiescentIsClear
  <2>1. \A t \in WarnerThreads : pc[t] = "run" /\ depth[t] = 0 /\ pins[t] = 0
    <3> SUFFICES ASSUME NEW t \in WarnerThreads PROVE pc[t] = "run" /\ depth[t] = 0 /\ pins[t] = 0
      OBVIOUS
    <3>1. depth[t] \in Nat /\ pins[t] \in Nat
      BY DEF WarnerTypeOK
    <3>2. pc[t] = "run" /\ ~(depth[t] > 0) /\ ~(pins[t] > 0)
      BY DEF InSection
    <3> QED BY <3>1, <3>2
  <2>2. Open = {}
    BY <2>1 DEF Open, Entries
  <2>3. counter = 0
    BY <2>2, OpenOne
  <2> QED BY <2>1, <2>3 DEF IdIsOfSomebody
<1> QED BY <1>1, WarnerTypeCorrect, ClearedInvariant, PTL

-----------------------------------------------------------------------------
(***************************************************************************)
(* GetCurrentThreadId                                                      *)
(* The answers of GetCurrentThreadId are right for any number of threads   *)
(* and of forks, as long as only main threads fork; and with DCHECKs in    *)
(* any program.  The invariant says where a stale id can be while that     *)
(* holds: in the main thread, while the cache is marked invalid.           *)
(***************************************************************************)
KernelIds ==
  /\ \A t, u \in alive : tid[t] = tid[u] => t = u
  /\ \A t \in Threads : t \notin alive => tid[t] = NoTid

Cached ==
  ~ strayed =>
    /\ \A t \in alive : tid[t] = pid => t \in is_main
    /\ \A t \in alive : thread_id[t] # NoTid /\ thread_id[t] # tid[t] =>
         tid[t] = pid /\ ~ cache_valid
    /\ \A t \in alive : thread_id[t] # NoTid => init_at_fork
    /\ cache_valid => init_at_fork

IdIInv == IdTypeOK /\ KernelIds /\ Cached /\ AnswersAreCurrent /\ OnlyStraysAreFatal

\* The kernel's ids and the types need no contract.
LEMMA IdKernelCorrect == IdSpec => [](IdTypeOK /\ KernelIds)
<1>1. IdInit => IdTypeOK /\ KernelIds
  BY NoTidAssumption, IdBuildsAssumption DEF IdInit, IdTypeOK, KernelIds
<1>2. IdTypeOK /\ KernelIds /\ [IdNext]_idVars => (IdTypeOK /\ KernelIds)'
  <2> SUFFICES ASSUME IdTypeOK, KernelIds, [IdNext]_idVars
               PROVE  (IdTypeOK /\ KernelIds)'
    OBVIOUS
  <2> USE NoTidAssumption DEF IdTypeOK, KernelIds
  <2>1. ASSUME NEW t \in Threads, GetCurrentThreadId(t)
        PROVE  (IdTypeOK /\ KernelIds)'
    <3>1. CASE MustAsk(t) /\ Ask(t)
      BY <2>1, <3>1 DEF GetCurrentThreadId, Ask
    <3>2. CASE ~ MustAsk(t) /\ UseCached(t)
      BY <2>1, <3>2 DEF GetCurrentThreadId, UseCached
    <3> QED BY <2>1, <3>1, <3>2 DEF GetCurrentThreadId
  <2>2. ASSUME NEW t \in Threads, EndThread(t)
        PROVE  (IdTypeOK /\ KernelIds)'
    BY <2>2 DEF EndThread
  <2>3. ASSUME NEW t \in Threads, NEW n \in Tids, StartThread(t, n)
        PROVE  (IdTypeOK /\ KernelIds)'
    BY <2>3 DEF StartThread
  <2>4. ASSUME NEW t \in Threads, NEW n \in Tids, Fork(t, n) \/ RawClone(t, n)
        PROVE  (IdTypeOK /\ KernelIds)'
    <3>1. Child(t, n)
      BY <2>4 DEF Fork, RawClone
    <3>2. cache_valid' \in BOOLEAN
      BY <2>4 DEF Fork, RawClone, InvalidateTidCache
    <3>3. strayed' \in BOOLEAN
      BY <2>4 DEF Fork, RawClone
    <3> QED BY <3>1, <3>2, <3>3 DEF Child
  <2>5. CASE UNCHANGED idVars
    BY <2>5 DEF idVars
  <2> QED BY <2>1, <2>2, <2>3, <2>4, <2>5 DEF IdNext
<1> QED BY <1>1, <1>2, PTL DEF IdSpec

\* Type correctness.
THEOREM IdTypeCorrect == IdSpec => []IdTypeOK
BY IdKernelCorrect, PTL

Claims == Cached /\ AnswersAreCurrent /\ OnlyStraysAreFatal

\* A call, whichever way it goes, answers rightly and leaves no new stale id.
LEMMA CallIInv ==
  ASSUME IdIInv, NEW t \in Threads, GetCurrentThreadId(t)
  PROVE  Claims'
<1> USE NoTidAssumption
    DEF IdIInv, IdTypeOK, KernelIds, Cached, AnswersAreCurrent, OnlyStraysAreFatal, Claims
<1>1. CASE MustAsk(t) /\ Ask(t)
  BY <1>1 DEF GetCurrentThreadId, Ask
<1>2. CASE ~ MustAsk(t) /\ UseCached(t)
  <2>1. CASE IsFatal(t)
    BY <1>2, <2>1 DEF GetCurrentThreadId, UseCached, MustAsk, IsFatal
  <2>2. CASE ~ IsFatal(t)
    BY <1>2, <2>2 DEF GetCurrentThreadId, UseCached, MustAsk, IsFatal
  <2> QED BY <2>1, <2>2
<1> QED BY <1>1, <1>2 DEF GetCurrentThreadId

\* A fork from the main thread: the child's thread is main in its own eyes, so the
\* handler's flag is one it looks at.
LEMMA ForkIInv ==
  ASSUME IdIInv, NEW t \in Threads, NEW n \in Tids, Fork(t, n)
  PROVE  Claims'
<1> USE NoTidAssumption DEF IdIInv, IdTypeOK, KernelIds, Fork, Child
<1>1. Cached'
  BY DEF Cached, InvalidateTidCache
<1>2. AnswersAreCurrent' /\ OnlyStraysAreFatal'
  BY DEF AnswersAreCurrent, OnlyStraysAreFatal
<1> QED BY <1>1, <1>2 DEF Claims

\* IdIInv is inductive in every program.
LEMMA IdInductive == IdSpec => []IdIInv
<1>1. IdInit => IdIInv
  BY NoTidAssumption, IdBuildsAssumption
     DEF IdInit, IdIInv, IdTypeOK, KernelIds, Cached, AnswersAreCurrent, OnlyStraysAreFatal
<1>2. IdIInv /\ (IdTypeOK /\ KernelIds)' /\ [IdNext]_idVars => IdIInv'
  <2> SUFFICES ASSUME IdIInv, (IdTypeOK /\ KernelIds)', [IdNext]_idVars
               PROVE  Claims'
    BY DEF IdIInv, Claims
  <2> USE DEF IdIInv, IdTypeOK, KernelIds, Cached, AnswersAreCurrent, OnlyStraysAreFatal, Claims
  <2>1. ASSUME NEW t \in Threads, GetCurrentThreadId(t)
        PROVE  Claims'
    BY <2>1, CallIInv
  <2>2. ASSUME NEW t \in Threads, EndThread(t)
        PROVE  Claims'
    BY <2>2 DEF EndThread
  <2>3. ASSUME NEW t \in Threads, NEW n \in Tids, StartThread(t, n)
        PROVE  Claims'
    BY <2>3 DEF StartThread
  <2>4. ASSUME NEW t \in Threads, NEW n \in Tids, Fork(t, n)
        PROVE  Claims'
    BY <2>4, ForkIInv
  <2>5. ASSUME NEW t \in Threads, NEW n \in Tids, RawClone(t, n)
        PROVE  Claims'
    BY <2>5, NoTidAssumption DEF RawClone, Child
  <2>6. CASE UNCHANGED idVars
    BY <2>6 DEF idVars
  <2> QED BY <2>1, <2>2, <2>3, <2>4, <2>5, <2>6 DEF IdNext
<1> QED BY <1>1, <1>2, IdKernelCorrect, PTL DEF IdSpec

\* No thread is ever given an id that is not its own: without DCHECKs as long as
\* only main threads fork, and through fork(); with DCHECKs in any program.
THEOREM AnswersCorrect == IdSpec => []AnswersAreCurrent
<1>1. IdIInv => AnswersAreCurrent
  BY DEF IdIInv
<1> QED BY <1>1, IdInductive, PTL

\* Nor do two threads ever go by the same id.
THEOREM IdsDistinct == IdSpec => []IdsAreDistinct
<1>1. IdIInv => IdsAreDistinct
  BY NoTidAssumption DEF IdIInv, IdTypeOK, KernelIds, AnswersAreCurrent, IdsAreDistinct
<1> QED BY <1>1, IdInductive, PTL

\* Nor does the DCHECK of the cached id ever fail as long as only main threads fork.
THEOREM NeverFatal == IdSpec => []OnlyStraysAreFatal
<1>1. IdIInv => OnlyStraysAreFatal
  BY DEF IdIInv
<1> QED BY <1>1, IdInductive, PTL

-----------------------------------------------------------------------------
(***************************************************************************)
(* ProtectedMemory                                                         *)
(* The section is writable under its writers and sealed without them, for  *)
(* any number of writers and pages.  The counter alone does not say so:    *)
(* the invariant ties it to the writers that have counted themselves, and  *)
(* says of each place in a constructor or destructor who has the lock and  *)
(* what is writable there.                                                 *)
(***************************************************************************)
\* The writers that have counted themselves and not uncounted themselves yet.
Counted == {w \in Writers : place[w] \in {"unprotect", "scope", "uncount"}}

Inside(w) == place[w] \in {"first", "count", "uncount", "protect", "check"}

\* The lock is taken by whoever is inside, and by no one else.
Exclusive ==
  /\ \A w \in Writers : Inside(w) <=> lock = w
  /\ init \in {"reset", "protect"} <=> lock = Initializer

CounterIsExact == writers = Cardinality(Counted)

\* Before the initializer is done.
Early ==
  init # "done" =>
    /\ writable = Pages
    /\ \A w \in Writers : place[w] \in {"none", "first"}

\* After it is: what is writable where.
Mapped ==
  /\ \A w \in Writers : InScope(w) => PageOf[w] \in writable
  /\ Counted # {} => CounterPage \in writable
  /\ \A w \in Writers :
       /\ place[w] = "count" => CounterPage \in writable
       /\ place[w] \in {"protect", "check"} => Counted = {}
       /\ place[w] = "check" => writable = {}
  /\ init = "done" /\ Counted = {} /\ (\A w \in Writers : place[w] \notin {"count", "protect"})
       => writable = {}

MemoryIInv == MemoryTypeOK /\ Exclusive /\ CounterIsExact /\ Early /\ Mapped

-----------------------------------------------------------------------------
\* Counting one more, or one less.
LEMMA CountedFinite ==
  ASSUME MemoryTypeOK
  PROVE  /\ IsFiniteSet(Counted)
         /\ Cardinality(Counted) \in Nat
         /\ Cardinality(Counted) = 0 <=> Counted = {}
<1>1. IsFiniteSet(Counted)
  BY WritersAssumption, FS_Subset DEF Counted
<1> QED BY <1>1, FS_CardinalityType, FS_EmptySet

\* A step of one writer from a place where it is not counted to one where it is.
LEMMA CountOne ==
  ASSUME MemoryTypeOK, NEW w \in Writers, w \notin Counted, Counted' = Counted \cup {w}
  PROVE  Cardinality(Counted') = Cardinality(Counted) + 1
<1>1. IsFiniteSet(Counted)
  BY CountedFinite
<1> QED BY <1>1, FS_AddElement

\* And back.
LEMMA UncountOne ==
  ASSUME MemoryTypeOK, NEW w \in Writers, w \in Counted, Counted' = Counted \ {w}
  PROVE  Cardinality(Counted') = Cardinality(Counted) - 1
<1>1. IsFiniteSet(Counted)
  BY CountedFinite
<1> QED BY <1>1, FS_RemoveElement

\* A failed check changes nothing but memory_crash.
LEMMA FailIInv ==
  ASSUME MemoryIInv, NEW why \in {"CheckObjectReadOnly", "CHECK_GT(writers, 0)", "SIGSEGV"}, FailCheck(why)
  PROVE  MemoryIInv'
BY DEF FailCheck, MemoryIInv, MemoryTypeOK, Exclusive, CounterIsExact, Early, Mapped, Counted, Inside, InScope

\* Steps that count nobody keep the counter exact.
LEMMA SameCount ==
  ASSUME MemoryIInv, Counted' = Counted, writers' = writers
  PROVE  CounterIsExact'
BY DEF MemoryIInv, CounterIsExact

\* The initializer.
LEMMA InitializerIInv ==
  ASSUME MemoryIInv, StartInitializer \/ ResetWriters \/ EndInitializer
  PROVE  MemoryIInv'
<1> USE InitializerAssumption, PagesAssumption
    DEF MemoryTypeOK, Exclusive, Early, Mapped, Inside, InScope
<1>1. CASE StartInitializer
  <2>1. Counted' = Counted
    BY <1>1 DEF StartInitializer, Counted
  <2> QED BY <1>1, <2>1, SameCount DEF StartInitializer, Lock, MemoryIInv
<1>2. CASE ResetWriters
  <2>1. Counted = {}
    BY <1>2 DEF ResetWriters, MemoryIInv, Counted
  <2>2. writers = 0
    BY <2>1, CountedFinite DEF MemoryIInv, CounterIsExact
  <2>3. CASE FailCheck("SIGSEGV")
    BY <2>3, FailIInv
  <2>4. CASE writers' = 0 /\ init' = "protect" /\ UNCHANGED <<writable, lock, place, memory_crash>>
    <3>1. Counted' = Counted
      BY <2>4 DEF Counted
    <3> QED BY <1>2, <2>2, <2>4, <3>1, SameCount DEF ResetWriters, MemoryIInv
  <2> QED BY <1>2, <2>3, <2>4 DEF ResetWriters
<1>3. CASE EndInitializer
  <2>1. Counted' = Counted /\ Counted = {}
    BY <1>3 DEF EndInitializer, MemoryIInv, Counted
  <2>2. writable' = {}
    BY <1>3 DEF EndInitializer, Protected, MemoryIInv
  <2>3. \A w \in Writers : place[w] = "none"
    BY <1>3 DEF EndInitializer, MemoryIInv
  <2> QED BY <1>3, <2>1, <2>2, <2>3, SameCount DEF EndInitializer, MemoryIInv
<1> QED BY <1>1, <1>2, <1>3

\* The constructor up to the counting.
LEMMA EnterIInv ==
  ASSUME MemoryIInv, NEW w \in Writers, Construct(w) \/ MakeCounterWritable(w)
  PROVE  MemoryIInv'
<1> USE InitializerAssumption, PagesAssumption
    DEF MemoryTypeOK, Places, Exclusive, Early, Mapped, Inside, InScope, At, Goto
<1>1. CASE Construct(w)
  <2>1. Counted' = Counted
    BY <1>1 DEF Construct, Counted, MemoryIInv
  <2> QED BY <1>1, <2>1, SameCount DEF Construct, Lock, MemoryIInv
<1>2. CASE MakeCounterWritable(w)
  <2>1. CASE FailCheck("CheckObjectReadOnly")
    BY <2>1, FailIInv
  <2>2. CASE ~ FailCheck("CheckObjectReadOnly")
    <3>1. Counted' = Counted
      BY <1>2, <2>2 DEF MakeCounterWritable, Counted, MemoryIInv
    <3>2. init = "done"
      BY <1>2, <2>2, CountedFinite DEF MakeCounterWritable, MemoryIInv, IsFirst, IsExposed, CounterIsExact, Counted
    <3>3. IsFirst <=> Counted = {}
      BY CountedFinite DEF IsFirst, MemoryIInv, CounterIsExact
    <3>4. /\ UNCHANGED <<writers, lock, init, memory_crash>>
          /\ place[w] = "first" /\ place' = [place EXCEPT ![w] = "count"]
          /\ writable' = writable \cup {CounterPage}
      BY <1>2, <2>2, <3>3 DEF MakeCounterWritable, MemoryIInv
    <3>5. lock = w /\ \A v \in Writers : Inside(v) => v = w
      BY <3>4 DEF MemoryIInv
    <3>6. MemoryTypeOK' /\ Early'
      BY <3>2, <3>4 DEF MemoryIInv
    <3>7. Exclusive'
      BY <3>4, <3>5 DEF MemoryIInv
    <3>8. Mapped'
      BY <3>1, <3>2, <3>4, <3>5 DEF MemoryIInv
    <3> QED BY <3>1, <3>4, <3>6, <3>7, <3>8, SameCount DEF MemoryIInv
  <2> QED BY <2>1, <2>2
<1> QED BY <1>1, <1>2

\* The rest of the constructor, and the scope.
LEMMA OpenIInv ==
  ASSUME MemoryIInv, NEW w \in Writers, Count(w) \/ MakeWritable(w) \/ Write(w)
  PROVE  MemoryIInv'
<1> USE InitializerAssumption, PagesAssumption
    DEF MemoryTypeOK, Places, Exclusive, Early, Mapped, Inside, InScope, At, Goto
<1>1. CASE Count(w)
  <2>1. CASE FailCheck("SIGSEGV")
    BY <2>1, FailIInv
  <2>2. CASE ~ FailCheck("SIGSEGV")
    <3>1. w \notin Counted /\ Counted' = Counted \cup {w}
      BY <1>1, <2>2 DEF Count, Counted, MemoryIInv
    <3>2. CounterIsExact'
      BY <1>1, <2>2, <3>1, CountOne DEF Count, MemoryIInv, CounterIsExact
    <3>3. /\ UNCHANGED <<writable, init, memory_crash>>
          /\ writers' \in Nat /\ lock' = Nobody
          /\ place[w] = "count" /\ place' = [place EXCEPT ![w] = "unprotect"]
          /\ CounterPage \in writable
      BY <1>1, <2>2 DEF Count, MemoryIInv
    <3>4. init = "done"
      BY <3>3 DEF MemoryIInv
    <3>5. lock = w /\ \A v \in Writers : Inside(v) => v = w
      BY <3>3 DEF MemoryIInv
    <3>6. MemoryTypeOK' /\ Early'
      BY <3>3, <3>4 DEF MemoryIInv
    <3>7. Exclusive'
      BY <3>3, <3>5 DEF MemoryIInv
    <3>8. Mapped'
      BY <3>1, <3>3, <3>5 DEF MemoryIInv
    <3> QED BY <3>2, <3>6, <3>7, <3>8 DEF MemoryIInv
  <2> QED BY <2>1, <2>2
<1>2. CASE MakeWritable(w)
  <2>1. Counted' = Counted /\ w \in Counted
    BY <1>2 DEF MakeWritable, Counted, MemoryIInv
  <2> QED BY <1>2, <2>1, SameCount DEF MakeWritable, MemoryIInv
<1>3. CASE Write(w)
  <2>1. CASE UNCHANGED memoryVars
    BY <2>1 DEF memoryVars, MemoryIInv, CounterIsExact, Counted
  <2>2. CASE FailCheck("SIGSEGV")
    BY <2>2, FailIInv
  <2> QED BY <1>3, <2>1, <2>2 DEF Write
<1> QED BY <1>1, <1>2, <1>3

\* The destructor.
LEMMA CloseIInv ==
  ASSUME MemoryIInv, NEW w \in Writers, Destruct(w) \/ Uncount(w) \/ Protect(w) \/ CheckReadOnly(w)
  PROVE  MemoryIInv'
<1> USE InitializerAssumption, PagesAssumption
    DEF MemoryTypeOK, Places, Exclusive, Early, Mapped, Inside, InScope, At, Goto
<1>1. CASE Destruct(w)
  <2>1. Counted' = Counted
    BY <1>1 DEF Destruct, Counted, MemoryIInv
  <2> QED BY <1>1, <2>1, SameCount DEF Destruct, Lock, MemoryIInv
<1>2. CASE Uncount(w)
  <2>1. w \in Counted
    BY <1>2 DEF Uncount, Counted
  <2>2. writers \in Nat \ {0} /\ CounterPage \in writable
    BY <2>1, CountedFinite DEF MemoryIInv, CounterIsExact
  <2>3. Counted' = Counted \ {w}
    BY <1>2, <2>2 DEF Uncount, Counted, MemoryIInv
  <2>4. CounterIsExact'
    BY <1>2, <2>1, <2>2, <2>3, UncountOne DEF Uncount, MemoryIInv, CounterIsExact
  <2>5. IsLast <=> Counted' = {}
    <3>1. Cardinality(Counted') = 0 <=> Counted' = {}
      <4>1. IsFiniteSet(Counted')
        BY <2>3, CountedFinite, FS_Subset DEF MemoryIInv
      <4> QED BY <4>1, FS_EmptySet
    <3>2. Cardinality(Counted') = writers - 1
      BY <2>1, <2>3, UncountOne DEF MemoryIInv, CounterIsExact
    <3> QED BY <3>1, <3>2, <2>2 DEF IsLast
  <2> QED BY <1>2, <2>2, <2>3, <2>4, <2>5 DEF Uncount, MemoryIInv
<1>3. CASE Protect(w)
  <2>1. Counted' = Counted /\ Counted = {}
    BY <1>3 DEF Protect, Counted, MemoryIInv
  <2>2. writable' = {}
    BY <1>3 DEF Protect, Protected, MemoryIInv
  <2> QED BY <1>3, <2>1, <2>2, SameCount DEF Protect, MemoryIInv, Counted
<1>4. CASE CheckReadOnly(w)
  <2>1. Counted = {} /\ writable = {}
    BY <1>4 DEF CheckReadOnly, MemoryIInv
  <2>2. Counted' = Counted
    BY <1>4, <2>1 DEF CheckReadOnly, Counted, MemoryIInv
  <2> QED BY <1>4, <2>1, <2>2, SameCount DEF CheckReadOnly, MemoryIInv
<1> QED BY <1>1, <1>2, <1>3, <1>4

\* The initial states of both platforms.
LEMMA InitMemoryIInv == MemoryInit => MemoryIInv
<1> SUFFICES ASSUME MemoryInit PROVE MemoryIInv
  OBVIOUS
<1>1. Counted = {}
  BY DEF MemoryInit, Counted
<1> QED BY <1>1, FS_EmptySet, InitializerAssumption, PlatformsAssumption
        DEF MemoryInit, MemoryIInv, MemoryTypeOK, Exclusive, CounterIsExact, Early, Mapped, Inside, InScope, Places

\* MemoryIInv is inductive, whatever callers do.
LEMMA MemoryInductive == MemorySpec => []MemoryIInv
<1>1. MemoryIInv /\ [MemoryNext]_memoryVars => MemoryIInv'
  <2> SUFFICES ASSUME MemoryIInv, [MemoryNext]_memoryVars PROVE MemoryIInv'
    OBVIOUS
  <2>1. CASE UNCHANGED memoryVars
    BY <2>1 DEF memoryVars, MemoryIInv, MemoryTypeOK, Exclusive, CounterIsExact, Early, Mapped, Counted, Inside, InScope
  <2> QED BY <2>1, InitializerIInv, EnterIInv, OpenIInv, CloseIInv DEF MemoryNext
<1> QED BY <1>1, InitMemoryIInv, PTL DEF MemorySpec

\* Type correctness.
THEOREM MemoryTypeCorrect == MemorySpec => []MemoryTypeOK
<1>1. MemoryIInv => MemoryTypeOK
  BY DEF MemoryIInv
<1> QED BY <1>1, MemoryInductive, PTL

\* No interleaving of constructors and destructors leaves a writer in scope with
\* its variable read-only.
THEOREM WritersCanWrite == MemorySpec => []InScopeIsWritable
<1>1. MemoryIInv => InScopeIsWritable
  BY DEF MemoryIInv, Mapped, InScopeIsWritable
<1> QED BY <1>1, MemoryInductive, PTL

\* Nor the section writable without a writer.
THEOREM SectionIsSealed == MemorySpec => []SealedAtRest
<1>1. MemoryIInv => SealedAtRest
  <2> SUFFICES ASSUME MemoryIInv, init = "done",
                      \A w \in Writers : place[w] \in {"none", "first", "check"}
               PROVE  writable = {}
    BY DEF SealedAtRest
  <2>1. Counted = {}
    BY DEF Counted
  <2> QED BY <2>1 DEF MemoryIInv, Mapped
<1> QED BY <1>1, MemoryInductive, PTL

\* A writer that does not wait for the initializer gets nowhere.
THEOREM EarlyWritersStopped == MemorySpec => []EarlyWritersAreStopped
<1>1. MemoryIInv => EarlyWritersAreStopped
  BY DEF MemoryIInv, Early, EarlyWritersAreStopped
<1> QED BY <1>1, MemoryInductive, PTL

\* Once the initializer is done no CHECK fails and no write faults.
THEOREM ChecksHold == MemorySpec => []OnlyEarlyWritersFail
<1> DEFINE Inv == OnlyEarlyWritersFail
<1>1. MemoryInit => Inv
  BY DEF MemoryInit, OnlyEarlyWritersFail
<1>2. MemoryIInv /\ Inv /\ [MemoryNext]_memoryVars => Inv'
  <2> SUFFICES ASSUME MemoryIInv, Inv, [MemoryNext]_memoryVars PROVE Inv'
    OBVIOUS
  <2> USE DEF OnlyEarlyWritersFail, At, Goto, FailCheck
  <2>1. CASE StartInitializer
    BY <2>1 DEF StartInitializer
  <2>2. CASE ResetWriters
    BY <2>2, PagesAssumption DEF ResetWriters, MemoryIInv, Early
  <2>3. CASE EndInitializer
    BY <2>3 DEF EndInitializer
  <2>4. ASSUME NEW w \in Writers, Construct(w)
        PROVE  Inv'
    BY <2>4 DEF Construct
  <2>5. ASSUME NEW w \in Writers, MakeCounterWritable(w)
        PROVE  Inv'
    <3>1. lock = w /\ \A v \in Writers : Inside(v) => v = w
      BY <2>5 DEF MakeCounterWritable, MemoryIInv, Exclusive, Inside
    <3>2. init \in {"none", "done"}
      BY <3>1, InitializerAssumption DEF MemoryIInv, Exclusive, MemoryTypeOK
    <3>3. CASE init = "none"
      BY <2>5, <3>3 DEF MakeCounterWritable
    <3>4. CASE init = "done"
      <4>1. IsFirst => writable = {}
        BY <2>5, <3>1, <3>4, CountedFinite
           DEF MakeCounterWritable, IsFirst, MemoryIInv, CounterIsExact, Mapped, Inside
      <4> QED BY <2>5, <3>4, <4>1, PagesAssumption DEF MakeCounterWritable, IsExposed
    <3> QED BY <3>2, <3>3, <3>4
  <2>6. ASSUME NEW w \in Writers, Count(w)
        PROVE  Inv'
    <3>1. CounterPage \in writable /\ init = "done"
      BY <2>6 DEF Count, MemoryIInv, Mapped, Early
    <3> QED BY <2>6, <3>1 DEF Count
  <2>7. ASSUME NEW w \in Writers, MakeWritable(w)
        PROVE  Inv'
    BY <2>7 DEF MakeWritable
  <2>8. ASSUME NEW w \in Writers, Write(w)
        PROVE  Inv'
    <3>1. PageOf[w] \in writable
      BY <2>8 DEF Write, MemoryIInv, Mapped, InScope
    <3> QED BY <2>8, <3>1 DEF Write, memoryVars
  <2>9. ASSUME NEW w \in Writers, Destruct(w)
        PROVE  Inv'
    BY <2>9 DEF Destruct
  <2>10. ASSUME NEW w \in Writers, Uncount(w)
         PROVE  Inv'
    <3>1. w \in Counted
      BY <2>10 DEF Uncount, Counted
    <3>2. writers # 0 /\ CounterPage \in writable /\ init = "done"
      BY <3>1, <2>10, CountedFinite DEF MemoryIInv, CounterIsExact, Mapped, Early, Counted, Uncount
    <3> QED BY <2>10, <3>2 DEF Uncount
  <2>11. ASSUME NEW w \in Writers, Protect(w) \/ CheckReadOnly(w)
         PROVE  Inv'
    <3>1. place[w] = "check" => CounterPage \notin writable
      BY DEF MemoryIInv, Mapped
    <3>2. init = "done"
      BY <2>11 DEF Protect, CheckReadOnly, MemoryIInv, Early
    <3> QED BY <2>11, <3>1, <3>2 DEF Protect, CheckReadOnly
  <2>12. CASE UNCHANGED memoryVars
    BY <2>12 DEF memoryVars
  <2> QED BY <2>1, <2>2, <2>3, <2>4, <2>5, <2>6, <2>7, <2>8, <2>9, <2>10, <2>11, <2>12 DEF MemoryNext
<1> QED BY <1>1, <1>2, MemoryInductive, PTL DEF MemorySpec

-----------------------------------------------------------------------------
(***************************************************************************)
(* WeakPtr                                                                 *)
(* For every set of sequences, pointers and flags: what WeakPtrs promise   *)
(* about their validity in every program, and about the life of the object *)
(* in programs that keep to the rule of one bound sequence.                *)
(***************************************************************************)
PtrContract == Misuse = {}

\* A valid pointer has the flag the factory has now; the object is alive and no
\* operation of the factory is under way.
ValidIsCurrent ==
  \A p \in Ptrs : IsValid(ref[p]) => ref[p] = flag /\ object = "alive" /\ step = "idle"

PtrIInv == TypeOK /\ ValidIsCurrent /\ NewPointersAreValid /\ QuietMeansNone

\* Initially the factory has a fresh flag and no pointer has it.
LEMMA PtrInitIInv ==
  ASSUME Init
  PROVE  PtrIInv
BY NullAssumption DEF Init, PtrIInv, TypeOK, ValidIsCurrent, NewPointersAreValid, QuietMeansNone, IsValid

\* A failed DCHECK changes nothing but crash.
LEMMA PtrFailIInv ==
  ASSUME PtrIInv, NEW why \in {"DCHECK(flag_)", "DCHECK(ptr_)"}, Fail(why)
  PROVE  PtrIInv'
BY DEF Fail, factory, PtrIInv, TypeOK, ValidIsCurrent, NewPointersAreValid, QuietMeansNone, IsValid

\* Steps that give no pointer a flag it could be valid with but one that some
\* pointer has already, and leave the factory and its flags alone.
LEMMA PassOnIInv ==
  ASSUME PtrIInv, UNCHANGED <<factory, invalidated>>, quiet' \in {quiet, {}}, TypeOK',
         \A p \in Ptrs : ref'[p] = Null \/ \E r \in Ptrs : ref'[p] = ref[r]
  PROVE  PtrIInv'
<1>1. ValidIsCurrent'
  BY DEF PtrIInv, ValidIsCurrent, IsValid, factory
<1>2. NewPointersAreValid'
  BY DEF PtrIInv, NewPointersAreValid, factory
<1>3. QuietMeansNone'
  BY DEF PtrIInv, QuietMeansNone, IsValid
<1> QED
  BY <1>1, <1>2, <1>3 DEF PtrIInv

\* Binding keeps the type of bound.
LEMMA BindType ==
  ASSUME TypeOK, NEW q \in Sequences, NEW f \in Flags \cup {Null}, Bind(q, f)
  PROVE  bound' \in [Flags -> Sequences \cup {Null}]
BY DEF TypeOK, Bind

\* GetWeakPtr and GetSafeRef give out the current flag.
LEMMA GetRefIInv ==
  ASSUME PtrIInv, NEW q \in Sequences, NEW p \in Ptrs, GetRef(q, p)
  PROVE  PtrIInv'
<1>1. CASE flag = Null
  BY <1>1, PtrFailIInv DEF GetRef
<1>2. CASE flag # Null
  <2>1. /\ object = "alive" /\ step = "idle" /\ flag \in Flags
        /\ ref' = [ref EXCEPT ![p] = flag] /\ quiet' = {}
        /\ bound' \in {bound, [bound EXCEPT ![flag] = Null]}
        /\ UNCHANGED <<factory, invalidated, holder, using, crash>>
    BY <1>2 DEF GetRef, Free, PtrIInv, TypeOK
  <2>2. TypeOK'
    BY <2>1 DEF PtrIInv, TypeOK, factory
  <2>3. ValidIsCurrent' /\ NewPointersAreValid' /\ QuietMeansNone'
    BY <2>1 DEF PtrIInv, TypeOK, ValidIsCurrent, NewPointersAreValid, QuietMeansNone, IsValid, factory
  <2> QED
    BY <2>2, <2>3 DEF PtrIInv
<1> QED
  BY <1>1, <1>2

\* Copies and moves, of WeakPtr and SafeRef, give out a flag that is out already.
LEMMA AssignIInv ==
  ASSUME PtrIInv, NEW q \in Sequences, NEW p \in Ptrs, NEW r \in Ptrs,
         NEW source \in {Null, ref[r]}, Assign(q, p, r, source)
  PROVE  PtrIInv'
<1>1. bound' \in [Flags -> Sequences \cup {Null}]
  <2>1. ref[r] \in Flags \cup {Null}
    BY DEF PtrIInv, TypeOK
  <2> QED
    BY <2>1, BindType DEF Assign, PtrIInv, TypeOK
<1>2. /\ crash' \in {crash, "CHECK(ref_.IsValid())"}
      /\ ref' = [ref EXCEPT ![r] = source, ![p] = ref[r]]
      /\ UNCHANGED <<factory, invalidated, holder, using, quiet>>
  BY DEF Assign
<1>3. TypeOK'
  BY <1>1, <1>2 DEF PtrIInv, TypeOK, factory
<1>4. \A x \in Ptrs : ref'[x] = Null \/ \E y \in Ptrs : ref'[x] = ref[y]
  BY <1>2 DEF PtrIInv, TypeOK
<1> QED
  BY <1>2, <1>3, <1>4, PassOnIInv

\* WeakPtr::reset drops a flag.
LEMMA ResetIInv ==
  ASSUME PtrIInv, NEW q \in Sequences, NEW p \in Ptrs, Reset(q, p)
  PROVE  PtrIInv'
<1>1. TypeOK'
  BY DEF Reset, PtrIInv, TypeOK, factory
<1>2. \A x \in Ptrs : ref'[x] = Null \/ \E y \in Ptrs : ref'[x] = ref[y]
  BY DEF Reset, PtrIInv, TypeOK
<1> QED
  BY <1>1, <1>2, PassOnIInv DEF Reset

\* Steps that change no pointer and no flag.
LEMMA SamePointersIInv ==
  ASSUME PtrIInv, NEW q \in Sequences,
         \/ \E p \in Ptrs, u \in Sequences : Hand(q, p, u)
         \/ \E p \in Ptrs : Use(q, p)
         \/ \E p \in Ptrs : Get(q, p)
         \/ Used(q)
  PROVE  PtrIInv'
<1>1. UNCHANGED <<factory, invalidated, quiet, ref>>
  BY DEF Hand, Use, Get, Used
<1>2. TypeOK'
  <2>1. CASE \E p \in Ptrs, u \in Sequences : Hand(q, p, u)
    BY <2>1 DEF Hand, PtrIInv, TypeOK, factory
  <2>2. CASE \E p \in Ptrs : Use(q, p)
    <3>1. PICK p \in Ptrs : Use(q, p)
      BY <2>2
    <3>2. bound' \in [Flags -> Sequences \cup {Null}]
      BY <3>1, BindType DEF Use, PtrIInv, TypeOK
    <3>3. using' \in [Sequences -> Ptrs \cup {Null}] /\ crash' \in {crash, "CHECK(ref_.IsValid())"}
      BY <3>1 DEF Use, PtrIInv, TypeOK
    <3> QED
      BY <3>1, <3>2, <3>3 DEF Use, PtrIInv, TypeOK, factory
  <2>3. CASE \E p \in Ptrs : Get(q, p)
    <3>1. PICK p \in Ptrs : Get(q, p)
      BY <2>3
    <3>2. bound' \in [Flags -> Sequences \cup {Null}]
      BY <3>1, BindType DEF Get, PtrIInv, TypeOK
    <3>3. using' \in [Sequences -> Ptrs \cup {Null}]
      BY <3>1 DEF Get, Got, PtrIInv, TypeOK
    <3> QED
      BY <3>1, <3>2, <3>3 DEF Get, PtrIInv, TypeOK, factory
  <2>4. CASE Used(q)
    BY <2>4 DEF Used, PtrIInv, TypeOK, factory
  <2> QED
    BY <2>1, <2>2, <2>3, <2>4
<1> QED
  BY <1>1, <1>2, PassOnIInv

\* HasWeakPtrs() answering false: no pointer is valid then.
LEMMA HasNoWeakPtrsIInv ==
  ASSUME PtrIInv, NEW q \in Sequences, HasNoWeakPtrs(q)
  PROVE  PtrIInv'
<1>1. \A p \in Ptrs : ~ IsValid(ref[p])
  BY DEF HasNoWeakPtrs, HasRefs, PtrIInv, ValidIsCurrent, IsValid
<1> QED
  BY <1>1 DEF HasNoWeakPtrs, PtrIInv, TypeOK, ValidIsCurrent, NewPointersAreValid, QuietMeansNone,
     IsValid, factory

\* Once its flag is set no pointer is valid, until the factory has a flag that
\* no pointer refers to.
LEMMA InvalidateIInv ==
  ASSUME PtrIInv, NEW q \in Sequences, NEW doom \in {"renew", "doom"}, InvalidateWeakPtrs(q, doom)
  PROVE  PtrIInv'
<1>1. CASE flag = Null
  BY <1>1, PtrFailIInv DEF InvalidateWeakPtrs
<1>2. CASE flag # Null
  <2>1. /\ invalidated' = invalidated \cup {flag} /\ step' = doom /\ flag \in Flags
        /\ bound' \in [Flags -> Sequences \cup {Null}]
        /\ UNCHANGED <<object, home, flag, ref, holder, using, quiet, crash>>
    BY <1>2, BindType DEF InvalidateWeakPtrs, Invalidate, PtrIInv, TypeOK
  <2>2. \A p \in Ptrs : ~ IsValid(ref[p])'
    BY <2>1 DEF PtrIInv, ValidIsCurrent, IsValid
  <2>3. TypeOK'
    BY <2>1 DEF PtrIInv, TypeOK
  <2> QED
    BY <2>1, <2>2, <2>3 DEF PtrIInv, ValidIsCurrent, NewPointersAreValid, QuietMeansNone
<1> QED
  BY <1>1, <1>2

\* The second half of InvalidateWeakPtrs: no pointer has the new flag.
LEMMA NewFlagIInv ==
  ASSUME PtrIInv, NEW f \in Flags, NewFlag(f)
  PROVE  PtrIInv'
<1>1. /\ step = "renew" /\ flag' = f /\ invalidated' = invalidated \ {f}
      /\ \A p \in Ptrs : ref[p] # f
      /\ bound' = [bound EXCEPT ![f] = Null] /\ step' = "idle"
      /\ UNCHANGED <<object, home, ref, holder, using, quiet, crash>>
  BY DEF NewFlag, Constructed, Unused
<1>2. \A p \in Ptrs : ~ IsValid(ref[p])'
  BY <1>1 DEF PtrIInv, ValidIsCurrent, IsValid
<1>3. TypeOK'
  BY <1>1 DEF PtrIInv, TypeOK
<1> QED
  BY <1>1, <1>2, <1>3 DEF PtrIInv, ValidIsCurrent, NewPointersAreValid, QuietMeansNone

\* The second half of InvalidateWeakPtrsAndDoom: no flag, no valid pointer.
LEMMA DoomIInv ==
  ASSUME PtrIInv, Doom
  PROVE  PtrIInv'
<1>1. \A p \in Ptrs : ~ IsValid(ref[p])'
  BY DEF Doom, PtrIInv, ValidIsCurrent, IsValid
<1>2. TypeOK' /\ NewPointersAreValid'
  BY NullAssumption DEF Doom, PtrIInv, TypeOK, NewPointersAreValid
<1> QED
  BY <1>1, <1>2 DEF PtrIInv, ValidIsCurrent, QuietMeansNone

\* The destructor of the factory invalidates the flag it has.
LEMMA DestroyIInv ==
  ASSUME PtrIInv, NEW q \in Sequences, Destroy(q)
  PROVE  PtrIInv'
<1>1. /\ flag' = Null /\ step' = "dtor"
      /\ UNCHANGED <<object, home, ref, holder, using, quiet, crash>>
  BY DEF Destroy
<1>2. /\ invalidated' \in SUBSET Flags /\ invalidated \subseteq invalidated'
      /\ flag # Null => flag \in invalidated'
      /\ bound' \in [Flags -> Sequences \cup {Null}]
  <2>1. CASE flag = Null
    BY <2>1 DEF Destroy, Dtor, PtrIInv, TypeOK
  <2>2. CASE flag # Null
    BY <2>2, BindType DEF Destroy, Dtor, Invalidate, PtrIInv, TypeOK
  <2> QED
    BY <2>1, <2>2
<1>3. \A p \in Ptrs : ~ IsValid(ref[p])'
  BY <1>1, <1>2 DEF PtrIInv, ValidIsCurrent, IsValid
<1>4. TypeOK'
  BY <1>1, <1>2 DEF PtrIInv, TypeOK
<1> QED
  BY <1>1, <1>3, <1>4 DEF PtrIInv, ValidIsCurrent, NewPointersAreValid, QuietMeansNone

\* The end of the object.
LEMMA GoneIInv ==
  ASSUME PtrIInv, Gone
  PROVE  PtrIInv'
<1>1. \A p \in Ptrs : ~ IsValid(ref[p])'
  BY DEF Gone, PtrIInv, ValidIsCurrent, IsValid
<1>2. TypeOK' /\ NewPointersAreValid'
  BY DEF Gone, PtrIInv, TypeOK, NewPointersAreValid
<1> QED
  BY <1>1, <1>2 DEF PtrIInv, ValidIsCurrent, QuietMeansNone

\* The object going to another sequence changes no flag.
LEMMA HandObjectIInv ==
  ASSUME PtrIInv, NEW q \in Sequences, NEW u \in Sequences, HandObject(q, u)
  PROVE  PtrIInv'
BY DEF HandObject, PtrIInv, TypeOK, ValidIsCurrent, NewPointersAreValid, QuietMeansNone, IsValid

-----------------------------------------------------------------------------
\* Every step keeps the invariant.
LEMMA PtrNextIInv ==
  ASSUME PtrIInv, [Next]_vars
  PROVE  PtrIInv'
<1>1. CASE UNCHANGED vars
  BY <1>1 DEF vars, PtrIInv, TypeOK, ValidIsCurrent, NewPointersAreValid, QuietMeansNone, IsValid
<1>2. ASSUME NEW q \in Sequences, NEW p \in Ptrs,
             GetRef(q, p) \/ Reset(q, p) \/ Use(q, p) \/ Get(q, p)
      PROVE  PtrIInv'
  BY <1>2, GetRefIInv, ResetIInv, SamePointersIInv
<1>3. ASSUME NEW q \in Sequences, NEW p \in Ptrs, NEW r \in Ptrs, Copy(q, p, r) \/ Move(q, p, r)
      PROVE  PtrIInv'
  BY <1>3, AssignIInv DEF Copy, Move
<1>4. ASSUME NEW q \in Sequences,
             \/ \E p \in Ptrs, u \in Sequences \ {q} : using[u] = Null /\ Hand(q, p, u)
             \/ Used(q)
      PROVE  PtrIInv'
  BY <1>4, SamePointersIInv
<1>5. ASSUME NEW q \in Sequences, HasNoWeakPtrs(q)
      PROVE  PtrIInv'
  BY <1>5, HasNoWeakPtrsIInv
<1>6. ASSUME NEW q \in Sequences, NEW doom \in {"renew", "doom"}, InvalidateWeakPtrs(q, doom)
      PROVE  PtrIInv'
  BY <1>6, InvalidateIInv
<1>7. ASSUME NEW q \in Sequences, Destroy(q)
      PROVE  PtrIInv'
  BY <1>7, DestroyIInv
<1>8. ASSUME NEW q \in Sequences, NEW u \in Sequences, HandObject(q, u)
      PROVE  PtrIInv'
  BY <1>8, HandObjectIInv
<1>9. ASSUME NEW f \in Flags, NewFlag(f)
      PROVE  PtrIInv'
  BY <1>9, NewFlagIInv
<1>10. CASE Doom \/ Gone
  BY <1>10, DoomIInv, GoneIInv
<1> QED
  BY <1>1, <1>2, <1>3, <1>4, <1>5, <1>6, <1>7, <1>8, <1>9, <1>10 DEF Next

\* The invariant holds throughout every program.
LEMMA PtrAlwaysIInv == Spec => []PtrIInv
<1>1. Init => PtrIInv
  BY PtrInitIInv
<1>2. PtrIInv /\ [Next]_vars => PtrIInv'
  BY PtrNextIInv
<1> QED
  BY <1>1, <1>2, PTL DEF Spec

\* The states of the program are well formed.
THEOREM PtrTypeCorrect == Spec => []TypeOK
<1>1. PtrIInv => TypeOK
  BY DEF PtrIInv
<1> QED
  BY <1>1, PtrAlwaysIInv, PTL

\* In every program no pointer is valid once the object is gone, what
\* GetWeakPtr gives out is valid, and HasWeakPtrs can be trusted.
THEOREM DeadInvalid == Spec => []DeadPointersAreInvalid
<1>1. PtrIInv => DeadPointersAreInvalid
  BY DEF PtrIInv, ValidIsCurrent, DeadPointersAreInvalid
<1> QED
  BY <1>1, PtrAlwaysIInv, PTL

\* Between operations the factory has a flag that is not set.
THEOREM NewValid == Spec => []NewPointersAreValid
<1>1. PtrIInv => NewPointersAreValid
  BY DEF PtrIInv
<1> QED
  BY <1>1, PtrAlwaysIInv, PTL

\* After HasWeakPtrs() was false no pointer is valid until the next is made.
THEOREM QuietCorrect == Spec => []QuietMeansNone
<1>1. PtrIInv => QuietMeansNone
  BY DEF PtrIInv
<1> QED
  BY <1>1, PtrAlwaysIInv, PTL

\* Only a new Flag clears the memory of an old one, and only when no pointer
\* refers to it any more.
THEOREM InvalidForever == Spec => InvalidStaysInvalid
<1>1. TypeOK /\ [Next]_vars =>
        [\A p \in Ptrs :
           ref[p] # Null /\ ~ IsValid(ref[p]) /\ ref'[p] = ref[p] => ref'[p] \in invalidated']_vars
  <2> SUFFICES ASSUME TypeOK, Next, NEW p \in Ptrs, ref[p] \in invalidated, ref'[p] = ref[p]
               PROVE  ref'[p] \in invalidated'
    BY DEF IsValid
  <2>1. CASE \E f \in Flags : NewFlag(f)
    BY <2>1 DEF NewFlag, Constructed, Unused
  <2>2. CASE ~ \E f \in Flags : NewFlag(f)
    <3>1. invalidated \subseteq invalidated'
      BY <2>2 DEF Next, GetRef, Fail, Reset, Use, Get, Copy, Move, Assign, Hand, Used, HasNoWeakPtrs,
         InvalidateWeakPtrs, Invalidate, Destroy, Dtor, HandObject, Doom, Gone
    <3> QED
      BY <3>1
  <2> QED
    BY <2>1, <2>2
<1> QED
  BY <1>1, PtrTypeCorrect, PTL DEF Spec, InvalidStaysInvalid

-----------------------------------------------------------------------------
\* What makes use of the object safe: a sequence about to use it has the pointer,
\* the pointer is valid, and its flag is bound to that sequence; so no other
\* may invalidate it.
UserIsBound ==
  \A q \in Sequences : using[q] # Null =>
    /\ holder[using[q]] = q
    /\ IsValid(ref[using[q]])
    /\ bound[ref[using[q]]] = q

UInv == PtrIInv /\ UserIsBound

\* Other steps than those that start or end a use: what matters of the users is
\* left alone.
LEMMA SameUsers ==
  ASSUME PtrIInv, UserIsBound, using' = using,
         \A q \in Sequences : using[q] # Null =>
           /\ holder'[using[q]] = holder[using[q]]
           /\ ref'[using[q]] = ref[using[q]]
           /\ IsValid(ref[using[q]]) => IsValid(ref[using[q]])'
           /\ bound'[ref[using[q]]] = bound[ref[using[q]]]
  PROVE  UserIsBound'
BY DEF UserIsBound

\* A pointer that a busy sequence uses is not in the hands of a free one.
LEMMA NotInUse ==
  ASSUME UserIsBound, NEW q \in Sequences, Free(q), NEW p \in Ptrs, holder[p] = q,
         NEW u \in Sequences
  PROVE  using[u] # p
BY NullAssumption DEF UserIsBound, Free

\* The sequence whose flag it is may not invalidate while another uses.
LEMMA NoUsers ==
  ASSUME PtrContract, PtrIInv, UserIsBound, NEW q \in Sequences, Free(q),
         flag # Null => MayCheck(q, flag) \/ ~ HasRefs, NEW u \in Sequences
  PROVE  using[u] = Null
<1> SUFFICES ASSUME using[u] # Null
             PROVE  FALSE
  OBVIOUS
<1>1. using[u] \in Ptrs /\ ref[using[u]] = flag /\ flag # Null /\ bound[flag] = u
  BY DEF PtrIInv, TypeOK, UserIsBound, ValidIsCurrent, IsValid
<1>2. HasRefs
  BY <1>1 DEF HasRefs
<1>3. u # q /\ u # Null
  BY NullAssumption DEF Free
<1> QED
  BY <1>1, <1>2, <1>3 DEF MayCheck, PtrContract

\* A flag that is bound stays bound to the same sequence.
LEMMA BindKeeps ==
  ASSUME TypeOK, NEW q \in Sequences, NEW f \in Flags \cup {Null}, Bind(q, f),
         NEW g \in Flags, bound[g] # Null
  PROVE  bound'[g] = bound[g]
BY DEF TypeOK, Bind

\* Whoever uses the object has a valid pointer, with the flag the factory has.
LEMMA UserFlags ==
  ASSUME PtrIInv, UserIsBound, NEW u \in Sequences, using[u] # Null
  PROVE  /\ using[u] \in Ptrs /\ ref[using[u]] \in Flags
         /\ bound[ref[using[u]]] # Null
         /\ ref[using[u]] = flag /\ step = "idle" /\ object = "alive"
BY NullAssumption DEF PtrIInv, TypeOK, UserIsBound, ValidIsCurrent, IsValid

\* Initially nobody uses the object.
LEMMA InitUInv ==
  ASSUME Init
  PROVE  UInv
BY PtrInitIInv DEF UInv, UserIsBound, Init

\* In programs that keep to the contract a user of the object is on the sequence
\* its flag is bound to, so no operation of the factory runs beside it.
LEMMA NextUInv ==
  ASSUME PtrContract, UInv, [Next]_vars
  PROVE  UInv'
<1> USE DEF UInv
<1>0. PtrIInv'
  BY PtrNextIInv
<1>t. TypeOK
  BY DEF PtrIInv
<1>1. CASE UNCHANGED vars
  BY <1>1, <1>0, SameUsers DEF vars, IsValid
<1>2. ASSUME NEW q \in Sequences, NEW p \in Ptrs, GetRef(q, p)
      PROVE  UserIsBound'
  <2>1. Free(q) /\ holder[p] = q
    BY <1>2 DEF GetRef
  <2>2. \A u \in Sequences : using[u] # p
    BY <2>1, NotInUse
  <2>3. CASE flag = Null
    BY <1>2, <2>3, SameUsers DEF GetRef, Fail, factory, IsValid
  <2>4. CASE flag # Null
    <3>1. /\ ref' = [ref EXCEPT ![p] = flag] /\ UNCHANGED <<invalidated, holder, using>>
          /\ HasRefs => bound' = bound
      BY <1>2, <2>4 DEF GetRef
    <3>2. \A u \in Sequences : using[u] # Null =>
            using[u] \in Ptrs /\ ref'[using[u]] = ref[using[u]] /\ bound' = bound
      BY <3>1, <2>2, <1>t, UserFlags DEF TypeOK, HasRefs
    <3> QED
      BY <3>1, <3>2, SameUsers DEF IsValid
  <2> QED
    BY <2>3, <2>4
<1>3. ASSUME NEW q \in Sequences, NEW p \in Ptrs, NEW r \in Ptrs, NEW source,
             Assign(q, p, r, source)
      PROVE  UserIsBound'
  <2>1. Free(q) /\ holder[p] = q /\ holder[r] = q
    BY <1>3 DEF Assign
  <2>2. \A u \in Sequences : using[u] # p /\ using[u] # r
    BY <2>1, NotInUse
  <2>3. /\ ref' = [ref EXCEPT ![r] = source, ![p] = ref[r]]
        /\ UNCHANGED <<invalidated, holder, using>>
        /\ bound' = bound \/ Bind(q, ref[r])
    BY <1>3 DEF Assign
  <2>4. \A u \in Sequences : using[u] # Null =>
          bound'[ref[using[u]]] = bound[ref[using[u]]]
    <3>1. ref[r] \in Flags \cup {Null}
      BY <1>t DEF TypeOK
    <3> QED
      BY <3>1, <2>3, <1>t, UserFlags, BindKeeps
  <2>5. \A u \in Sequences : using[u] # Null => ref'[using[u]] = ref[using[u]]
    BY <2>2, <2>3, <1>t, UserFlags DEF TypeOK
  <2>6. UNCHANGED <<invalidated, holder, using>>
    BY <2>3
  <2> QED
    BY <2>4, <2>5, <2>6, SameUsers DEF IsValid
<1>4. ASSUME NEW q \in Sequences, NEW p \in Ptrs,
             Reset(q, p) \/ \E u \in Sequences : Hand(q, p, u)
      PROVE  UserIsBound'
  <2>1. Free(q) /\ holder[p] = q
    BY <1>4 DEF Reset, Hand
  <2>2. \A u \in Sequences : using[u] # p
    BY <2>1, NotInUse
  <2>3. UNCHANGED <<invalidated, using, bound>>
    BY <1>4 DEF Reset, Hand
  <2>4. \A u \in Sequences : using[u] # Null =>
          ref'[using[u]] = ref[using[u]] /\ holder'[using[u]] = holder[using[u]]
    BY <1>4, <2>2, <1>t, UserFlags DEF TypeOK, Reset, Hand
  <2> QED
    BY <2>3, <2>4, SameUsers DEF IsValid
<1>5. ASSUME NEW q \in Sequences, NEW p \in Ptrs, Use(q, p) \/ Get(q, p)
      PROVE  UserIsBound'
  <2>1. /\ Free(q) /\ holder[p] = q /\ MayCheck(q, ref[p]) /\ Bind(q, ref[p])
        /\ using'[q] # Null => using'[q] = p /\ IsValid(ref[p])
        /\ \A u \in Sequences \ {q} : using'[u] = using[u]
        /\ UNCHANGED <<invalidated, ref, holder>>
    BY <1>5, <1>t DEF Use, Get, Got, Free, TypeOK
  <2>2. SUFFICES ASSUME NEW u \in Sequences, using'[u] # Null
                 PROVE  /\ holder'[using'[u]] = u
                        /\ IsValid(ref[using'[u]])
                        /\ bound'[ref[using'[u]]] = u
    BY <2>1 DEF UserIsBound, IsValid
  <2>3. CASE u = q
    <3>1. using'[q] = p /\ IsValid(ref[p])
      BY <2>1, <2>2, <2>3
    <3>2. bound'[ref[p]] = q
      BY <2>1, <3>1, <1>t DEF Bind, MayCheck, PtrContract, IsValid, TypeOK
    <3> QED
      BY <2>1, <2>3, <3>1, <3>2
  <2>4. CASE u # q
    <3>1. using'[u] = using[u]
      BY <2>1, <2>4
    <3>2. ref[p] \in Flags \cup {Null}
      BY <1>t DEF TypeOK
    <3>3. bound'[ref[using[u]]] = bound[ref[using[u]]]
      BY <2>1, <2>2, <3>1, <3>2, <1>t, UserFlags, BindKeeps
    <3> QED
      BY <2>1, <2>2, <3>1, <3>3 DEF UserIsBound
  <2> QED
    BY <2>3, <2>4
<1>6. ASSUME NEW q \in Sequences, Used(q)
      PROVE  UserIsBound'
  BY <1>6, <1>t DEF Used, UserIsBound, TypeOK, IsValid
<1>7. ASSUME NEW q \in Sequences,
             \/ HasNoWeakPtrs(q)
             \/ \E u \in Sequences : HandObject(q, u)
      PROVE  UserIsBound'
  <2>1. UNCHANGED <<invalidated, ref, holder, using, bound>>
    BY <1>7 DEF HasNoWeakPtrs, HandObject
  <2> QED
    BY <2>1, SameUsers DEF IsValid
<1>8. ASSUME NEW q \in Sequences,
             Destroy(q) \/ \E doom \in {"renew", "doom"} : InvalidateWeakPtrs(q, doom)
      PROVE  UserIsBound'
  <2>1. Free(q) /\ using' = using /\ (flag # Null => MayCheck(q, flag) \/ ~ HasRefs)
    BY <1>8 DEF Destroy, Dtor, InvalidateWeakPtrs, Invalidate, Fail
  <2>2. \A u \in Sequences : using[u] = Null
    BY <2>1, NoUsers
  <2> QED
    BY <2>1, <2>2 DEF UserIsBound
<1>9. ASSUME \/ \E f \in Flags : NewFlag(f)
             \/ Doom
             \/ Gone
      PROVE  UserIsBound'
  <2>1. step # "idle" /\ using' = using
    BY <1>9 DEF NewFlag, Doom, Gone
  <2>2. \A u \in Sequences : using[u] = Null
    BY <2>1, UserFlags
  <2> QED
    BY <2>1, <2>2 DEF UserIsBound
<1> QED
  BY <1>0, <1>1, <1>2, <1>3, <1>4, <1>5, <1>6, <1>7, <1>8, <1>9 DEF Next, Copy, Move

\* Programs that check and invalidate a pointer only where the header says it is
\* bound never use the object during or after its destruction.
THEOREM SafeWhereBound ==
  ASSUME PtrContract
  PROVE  Spec => []UseIsSafe
<1>1. Init => UInv
  BY InitUInv
<1>2. UInv /\ [Next]_vars => UInv'
  BY NextUInv
<1>3. UInv => UseIsSafe
  BY UserFlags DEF UInv, UseIsSafe
<1> QED
  BY <1>1, <1>2, <1>3, PTL DEF Spec
=================================================================================
