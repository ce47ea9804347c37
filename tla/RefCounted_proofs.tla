------------------------- MODULE RefCounted_proofs -------------------------
(***************************************************************************)
(* For every set of threads, variables and objects, and every width of the *)
(* count: while users keep to the contract and there are fewer             *)
(* scoped_refptrs than values an int has, counts are exact, nothing        *)
(* dangles, nothing is deleted twice, and the only CHECK that fails is the *)
(* one for overflow.                                                       *)
(***************************************************************************)
EXTENDS RefCounted, FiniteSetTheorems, TLAPS

Contract == Misuse = {} /\ Cardinality(Cells) <= 2 * IntMax + 1

\* The cells of f that point to o.
Pointing(f, o) == {c \in Cells : f[c] = o}

\* The number of references an object has as the two's complement int that
\* holds it.
AsInt(n) == IF n <= IntMax THEN n ELSE n - 2 * (IntMax + 1)

-----------------------------------------------------------------------------
\* The set of scoped_refptrs is finite, and so are those pointing anywhere.
LEMMA PointingFinite ==
  ASSUME NEW f, NEW o
  PROVE  /\ IsFiniteSet(Pointing(f, o))
         /\ Cardinality(Pointing(f, o)) \in Nat
         /\ Cardinality(Pointing(f, o)) <= Cardinality(Cells)
         /\ Cardinality(Cells) \in Nat
<1>1. IsFiniteSet(Cells)
  BY CellsAssumption, FS_Union DEF Cells
<1>2. Pointing(f, o) \subseteq Cells
  BY DEF Pointing
<1> QED
  BY <1>1, <1>2, FS_Subset, FS_CardinalityType

\* An empty cell that starts to point to o adds one reference to o, and none to
\* other objects.
LEMMA Gain ==
  ASSUME NEW f, NEW g, NEW c \in Cells, NEW o \in Objects, f[c] = Null,
         \A x \in Cells : g[x] = IF x = c THEN o ELSE f[x]
  PROVE  /\ Cardinality(Pointing(g, o)) = Cardinality(Pointing(f, o)) + 1
         /\ \A p \in Objects \ {o} : Pointing(g, p) = Pointing(f, p)
<1>1. c \notin Pointing(f, o)
  BY NullAssumption DEF Pointing
<1>2. Pointing(g, o) = Pointing(f, o) \cup {c}
  BY DEF Pointing
<1>3. \A p \in Objects \ {o} : Pointing(g, p) = Pointing(f, p)
  BY NullAssumption DEF Pointing
<1>4. IsFiniteSet(Pointing(f, o))
  BY PointingFinite
<1>5. Cardinality(Pointing(f, o) \cup {c}) = Cardinality(Pointing(f, o)) + 1
  BY <1>1, <1>4, FS_AddElement
<1> QED
  BY <1>2, <1>3, <1>5

\* A cell that stops to point to o takes one reference from o, and none from
\* other objects.
LEMMA Drop ==
  ASSUME NEW f, NEW g, NEW c \in Cells, NEW o \in Objects, f[c] = o,
         \A x \in Cells : g[x] = IF x = c THEN Null ELSE f[x]
  PROVE  /\ Cardinality(Pointing(g, o)) = Cardinality(Pointing(f, o)) - 1
         /\ \A p \in Objects \ {o} : Pointing(g, p) = Pointing(f, p)
<1>1. c \in Pointing(f, o)
  BY DEF Pointing
<1>2. Pointing(g, o) = Pointing(f, o) \ {c}
  BY NullAssumption DEF Pointing
<1>3. \A p \in Objects \ {o} : Pointing(g, p) = Pointing(f, p)
  BY NullAssumption DEF Pointing
<1> QED
  BY <1>1, <1>2, <1>3, PointingFinite, FS_RemoveElement

\* f with what is in a and b exchanged is g.
Swapped(f, g, a, b) ==
  g[a] = f[b] /\ g[b] = f[a] /\ \A x \in Cells \ {a, b} : g[x] = f[x]

\* Swapping two cells leaves the number of references to every object alone,
\* and an object without references without them.
LEMMA Exchange ==
  ASSUME NEW f, NEW g, NEW p, NEW a \in Cells, NEW b \in Cells, Swapped(f, g, a, b)
  PROVE  Cardinality(Pointing(g, p)) = Cardinality(Pointing(f, p))
<1> DEFINE R == Pointing(f, p)
<1>0. /\ g[a] = f[b] /\ g[b] = f[a]
      /\ \A c \in Cells \ {a, b} : g[c] = f[c]
  BY DEF Swapped
<1>1. CASE f[a] = f[b]
  BY <1>0, <1>1 DEF Pointing
<1>2. CASE f[a] # f[b] /\ f[a] = p
  <2>1. a \in R /\ b \notin R /\ Pointing(g, p) = (R \ {a}) \cup {b}
    BY <1>0, <1>2 DEF Pointing
  <2>2. IsFiniteSet(R) /\ Cardinality(R) \in Nat
    BY PointingFinite
  <2>3. IsFiniteSet(R \ {a}) /\ Cardinality(R \ {a}) = Cardinality(R) - 1
    BY <2>1, <2>2, FS_RemoveElement
  <2>4. Cardinality((R \ {a}) \cup {b}) = Cardinality(R \ {a}) + 1
    BY <2>1, <2>3, FS_AddElement
  <2>5. Cardinality((R \ {a}) \cup {b}) = Cardinality(R)
    BY <2>2, <2>3, <2>4
  <2> QED
    BY <2>1, <2>5
<1>3. CASE f[a] # f[b] /\ f[b] = p
  <2>1. b \in R /\ a \notin R /\ Pointing(g, p) = (R \ {b}) \cup {a}
    BY <1>0, <1>3 DEF Pointing
  <2>2. IsFiniteSet(R) /\ Cardinality(R) \in Nat
    BY PointingFinite
  <2>3. IsFiniteSet(R \ {b}) /\ Cardinality(R \ {b}) = Cardinality(R) - 1
    BY <2>1, <2>2, FS_RemoveElement
  <2>4. Cardinality((R \ {b}) \cup {a}) = Cardinality(R \ {b}) + 1
    BY <2>1, <2>3, FS_AddElement
  <2>5. Cardinality((R \ {b}) \cup {a}) = Cardinality(R)
    BY <2>2, <2>3, <2>4
  <2> QED
    BY <2>1, <2>5
<1>4. CASE f[a] # p /\ f[b] # p
  BY <1>0, <1>4 DEF Pointing
<1> QED
  BY <1>1, <1>2, <1>3, <1>4

\* No cell points to an object exactly when it has no references.
LEMMA NoneIsZero ==
  ASSUME NEW f, NEW o
  PROVE  Cardinality(Pointing(f, o)) = 0 <=> \A c \in Cells : f[c] # o
<1>1. Cardinality(Pointing(f, o)) = 0 <=> Pointing(f, o) = {}
  BY PointingFinite, FS_EmptySet
<1> QED
  BY <1>1 DEF Pointing

-----------------------------------------------------------------------------
\* The inductive invariant.  A temporary is empty between operations and has
\* the object while its count is being changed; an object is deleted by the one
\* thread that dropped its last reference, and by then nothing points to it.
\* The count says how many references there are as long as at most one value of
\* the int is left unused; one below zero is explained by a thread that has
\* overflowed it and has yet to fail its CHECK.
Deleting(t) == pc[t] \in {"Destruct", "Dtor"}

Unreferenced(o) == \A c \in Cells : cell[c] # o

Counted == \A o \in Objects : ref_count[o] = AsInt(Cardinality(Pointing(cell, o)))

Temporaries ==
  \A t \in Threads :
    /\ dst[t] \in {t} \cup Slots
    /\ pc[t] # "Wrap"
    /\ pc[t] = "idle" \/ Deleting(t) => cell[t] = Null
    /\ pc[t] \in {"AddRefCheck", "Release", "Decrement"} => cell[t] \in Objects

Deletions ==
  /\ \A t \in Threads : Deleting(t) =>
       /\ raw[t] \in Objects
       /\ life[raw[t]] = IF pc[t] = "Destruct" THEN "live" ELSE "dtor"
       /\ Unreferenced(raw[t])
  /\ \A t, u \in Threads : Deleting(t) /\ Deleting(u) /\ raw[t] = raw[u] => t = u
  /\ \A o \in in_dtor : Unreferenced(o) /\ life[o] # "none"

Overflowing == \E u \in Threads : pc[u] = "AddRefCheck" /\ pre[u] = IntMax

OverflowsExplained ==
  /\ \A o \in Objects : Cardinality(Pointing(cell, o)) > IntMax => Overflowing
  /\ \A t \in Threads : pc[t] = "AddRefCheck" /\ pre[t] <= 0 => Overflowing

IInv ==
  /\ TypeOK
  /\ needs_adopt = {}
  /\ Counted
  /\ Temporaries
  /\ NeverDangles
  /\ Deletions
  /\ DeletedOnce
  /\ OverflowsExplained
  /\ OnlyOverflowFails

\* Every count fits: there are at most 2 * IntMax + 1 references.
LEMMA AtMostRoom ==
  ASSUME Contract, NEW f, NEW o
  PROVE  Cardinality(Pointing(f, o)) \in 0..(2 * IntMax + 1)
BY PointingFinite, IntAssumption DEF Contract

\* Before anything happens there are no references.
LEMMA InitIInv ==
  ASSUME Contract, Init
  PROVE  IInv
<1>1. TypeOK
  BY IntAssumption, NullAssumption DEF Init, TypeOK, Cells
<1>2. \A o \in Objects : Cardinality(Pointing(cell, o)) = 0
  BY NoneIsZero, NullAssumption DEF Init
<1>3. Counted /\ OverflowsExplained
  BY <1>2, IntAssumption DEF Init, Counted, AsInt, OverflowsExplained
<1>4. NeverDangles /\ Deletions /\ DeletedOnce /\ Temporaries
  BY DEF Init, NeverDangles, Deletions, DeletedOnce, Temporaries, Deleting, Cells
<1> QED
  BY <1>1, <1>3, <1>4 DEF IInv, Init, OnlyOverflowFails

\* A thread that has overflowed a count stays where it is until its CHECK stops
\* the program.
LEMMA OverflowingStays ==
  ASSUME Overflowing, TypeOK, NEW t \in Threads,
         \A u \in Threads \ {t} : pc'[u] = pc[u] /\ pre'[u] = pre[u],
         ~ (pc[t] = "AddRefCheck" /\ pre[t] = IntMax)
  PROVE  Overflowing'
BY DEF Overflowing

\* A failed check changes nothing but crash.
LEMMA FailIInv ==
  ASSUME IInv, NEW why \in {"overflow", "AddRefWithCheck"}, Fail(why),
         why = "AddRefWithCheck" => Overflowing
  PROVE  IInv'
<1>1. TypeOK'
  BY DEF IInv, TypeOK, Fail
<1>2. OnlyOverflowFails'
  BY DEF Fail, OnlyOverflowFails, Overflowing
<1> QED
  BY <1>1, <1>2 DEF IInv, Fail, Counted, Temporaries, NeverDangles, Deletions, DeletedOnce, OverflowsExplained,
     Overflowing, Deleting, Unreferenced, Pointing

-----------------------------------------------------------------------------
\* d = s counts one reference more; the DCHECKs do not fail.
LEMMA AssignCopyIInv ==
  ASSUME Contract, IInv, NEW t \in Threads, NEW s \in SlotsOf[t], NEW d \in SlotsOf[t],
         AssignCopy(t, s, d)
  PROVE  IInv'
<1> DEFINE o == cell[s]
           n == Cardinality(Pointing(cell, o))
<1>1. s \in Cells /\ t \in Cells /\ d \in Cells
  BY SlotsOfAssumption DEF Cells
<1>2. o \in Objects /\ cell[t] = Null /\ pc[t] = "idle" /\ DOMAIN cell = Cells /\ crash = "none"
  BY <1>1 DEF IInv, TypeOK, Temporaries, AssignCopy, At
<1>3. life[o] = "live"
  BY <1>1, <1>2, NullAssumption DEF IInv, NeverDangles
<1>4. ~ RefusesInDtor(o) /\ ~ RefusesUnadopted(o)
  BY <1>1 DEF RefusesInDtor, RefusesUnadopted, IInv, Deletions, Unreferenced
<1>5. /\ ref_count' = [ref_count EXCEPT ![o] = Wrap(@ + 1)]
      /\ pre' = [pre EXCEPT ![t] = ref_count[o]]
      /\ cell' = [cell EXCEPT ![t] = o]
      /\ dst' = [dst EXCEPT ![t] = d]
      /\ pc' = [pc EXCEPT ![t] = "AddRefCheck"]
      /\ UNCHANGED <<life, needs_adopt, in_dtor, raw, crash>>
  BY <1>4 DEF AssignCopy, AddRef, Goto
<1>6. /\ Cardinality(Pointing(cell', o)) = n + 1
      /\ \A p \in Objects \ {o} : Pointing(cell', p) = Pointing(cell, p)
  <2> HIDE DEF o
  <2>1. \A x \in Cells : cell'[x] = IF x = t THEN o ELSE cell[x]
    BY <1>1, <1>2, <1>5
  <2>2. /\ Cardinality(Pointing(cell', o)) = Cardinality(Pointing(cell, o)) + 1
        /\ \A p \in Objects \ {o} : Pointing(cell', p) = Pointing(cell, p)
    BY <2>1, <1>1, <1>2, Gain
  <2> QED
    BY <2>2
<1>7. n \in Nat /\ n >= 1 /\ n + 1 \in 0..(2 * IntMax + 1)
  <2>1. n # 0
    BY <1>1, NoneIsZero
  <2>2. n \in Nat /\ n + 1 \in 0..(2 * IntMax + 1)
    BY <1>6, AtMostRoom, PointingFinite
  <2> QED
    BY <2>1, <2>2
<1>8. ref_count[o] = AsInt(n)
  BY <1>2 DEF IInv, Counted
<1> HIDE DEF n
<1>9. ref_count'[o] = AsInt(n + 1)
  <2>1. ref_count'[o] = Wrap(AsInt(n) + 1)
    BY <1>2, <1>5, <1>8 DEF IInv, TypeOK
  <2> QED
    BY <2>1, <1>7, IntAssumption DEF Wrap, AsInt
<1> HIDE DEF o
<1>10. Counted'
  BY <1>2, <1>5, <1>6, <1>9 DEF IInv, TypeOK, Counted, n
<1>11. TypeOK' /\ needs_adopt' = {}
  <2>1. AsInt(n + 1) \in -(IntMax + 1)..IntMax
    BY <1>7, IntAssumption DEF AsInt
  <2>2. ref_count' \in [Objects -> -(IntMax + 1)..IntMax]
    BY <2>1, <1>2, <1>5, <1>9 DEF IInv, TypeOK
  <2> QED
    BY <2>2, <1>1, <1>2, <1>5 DEF IInv, TypeOK
<1>12. Temporaries'
  <2>1. d \in Slots
    BY SlotsOfAssumption
  <2>2. \A u \in Threads : dst'[u] \in {u} \cup Slots
    BY <2>1, <1>5 DEF IInv, TypeOK, Temporaries
  <2> QED
    BY <2>2, <1>1, <1>2, <1>5, CellsAssumption DEF IInv, TypeOK, Temporaries, Deleting
<1>13. NeverDangles' /\ DeletedOnce' /\ OnlyOverflowFails'
  BY <1>1, <1>2, <1>3, <1>5 DEF IInv, TypeOK, NeverDangles, DeletedOnce, OnlyOverflowFails
<1>14. Deletions'
  <2>1. \A u \in Threads : Deleting(u)' => Deleting(u) /\ u # t
    BY <1>2, <1>5 DEF IInv, TypeOK, Deleting
  <2>2. \A p : Unreferenced(p) /\ p # o => Unreferenced(p)'
    BY <1>5 DEF Unreferenced
  <2>3. ~ Unreferenced(o)
    BY <1>1 DEF Unreferenced, o
  <2> QED
    BY <2>1, <2>2, <2>3, <1>2, <1>5 DEF IInv, TypeOK, Deletions, Deleting
<1>15. OverflowsExplained'
  <2>1. Overflowing => Overflowing'
    BY <1>2, <1>5, OverflowingStays DEF IInv, TypeOK
  <2>2. n + 1 > IntMax => Overflowing'
    <3>1. CASE n = IntMax
      <4>1. ref_count[o] = IntMax
        BY <3>1, <1>8, IntAssumption DEF AsInt
      <4> QED
        BY <4>1, <1>2, <1>5 DEF IInv, TypeOK, Overflowing
    <3>2. CASE n > IntMax
      BY <3>2, <2>1, <1>2 DEF IInv, OverflowsExplained, n
    <3> QED
      BY <3>1, <3>2, <1>7, IntAssumption
  <2>3. AsInt(n) <= 0 => n > IntMax
    BY <1>7, IntAssumption DEF AsInt
  <2>4. pre'[t] <= 0 => Overflowing'
    BY <2>2, <2>3, <1>2, <1>5, <1>7, <1>8, IntAssumption DEF IInv, TypeOK
  <2>5. \A p \in Objects : Cardinality(Pointing(cell', p)) > IntMax => Overflowing'
    <3> TAKE p \in Objects
    <3>1. CASE p = o
      BY <3>1, <2>2, <1>6
    <3>2. CASE p # o
      BY <3>2, <2>1, <1>6 DEF IInv, OverflowsExplained
    <3> QED
      BY <3>1, <3>2
  <2>6. \A u \in Threads : pc'[u] = "AddRefCheck" /\ pre'[u] <= 0 => Overflowing'
    <3> TAKE u \in Threads
    <3>1. CASE u = t
      BY <3>1, <2>4
    <3>2. CASE u # t
      BY <3>2, <2>1, <1>5 DEF IInv, TypeOK, OverflowsExplained
    <3> QED
      BY <3>1, <3>2
  <2> QED
    BY <2>5, <2>6 DEF OverflowsExplained
<1> QED
  BY <1>10, <1>11, <1>12, <1>13, <1>14, <1>15 DEF IInv

-----------------------------------------------------------------------------
\* What a step keeps that moves references about and creates or drops none.
LEMMA SameCounts ==
  ASSUME IInv, ref_count' = ref_count, Overflowing => Overflowing',
         \A p : Cardinality(Pointing(cell', p)) = Cardinality(Pointing(cell, p)),
         \A u \in Threads : pc'[u] = "AddRefCheck" => pc[u] = "AddRefCheck" /\ pre'[u] = pre[u]
  PROVE  /\ Counted'
         /\ OverflowsExplained'
         /\ \A p : Unreferenced(p) <=> Unreferenced(p)'
<1>1. Counted' /\ OverflowsExplained'
  BY DEF IInv, Counted, OverflowsExplained
<1>2. ASSUME NEW p PROVE Unreferenced(p) <=> Unreferenced(p)'
  <2>1. Cardinality(Pointing(cell, p)) = 0 <=> \A c \in Cells : cell[c] # p
    BY NoneIsZero
  <2>2. Cardinality(Pointing(cell', p)) = 0 <=> \A c \in Cells : cell'[c] # p
    BY NoneIsZero
  <2> QED
    BY <2>1, <2>2 DEF Unreferenced
<1> QED
  BY <1>1, <1>2

\* The checks after an increment: they fail only because of an overflow.
LEMMA AddRefCheckIInv ==
  ASSUME Contract, IInv, NEW t \in Threads, AddRefCheck(t)
  PROVE  IInv'
<1>1. CASE Overflows(pre[t])
  BY <1>1, FailIInv DEF AddRefCheck
<1>2. CASE ~ Overflows(pre[t]) /\ cell[t] \in StartFromOne /\ NotAlive(pre[t])
  <2>1. Overflowing
    BY <1>2 DEF AddRefCheck, At, NotAlive, IInv, OverflowsExplained
  <2> QED
    BY <1>2, <2>1, FailIInv DEF AddRefCheck
<1>3. CASE ~ Overflows(pre[t]) /\ ~ (cell[t] \in StartFromOne /\ NotAlive(pre[t]))
  <2>1. /\ pc' = [pc EXCEPT ![t] = "Swap"] /\ pre' = [pre EXCEPT ![t] = 0]
        /\ UNCHANGED <<ref_count, cell, life, needs_adopt, in_dtor, dst, raw, crash>>
        /\ crash = "none" /\ pc[t] = "AddRefCheck"
    BY <1>3 DEF AddRefCheck, Goto, At
  <2>2. Overflowing => Overflowing'
    BY <1>3, <2>1, OverflowingStays DEF Overflows, IInv, TypeOK
  <2>3. Counted' /\ OverflowsExplained' /\ \A p : Unreferenced(p) <=> Unreferenced(p)'
    BY <2>1, <2>2, SameCounts DEF IInv, TypeOK
  <2>4. TypeOK' /\ Temporaries' /\ NeverDangles' /\ DeletedOnce' /\ OnlyOverflowFails'
    BY <2>1, IntAssumption DEF IInv, TypeOK, Temporaries, Deleting, NeverDangles, DeletedOnce,
       OnlyOverflowFails
  <2>5. Deletions'
    BY <2>1, <2>3 DEF IInv, TypeOK, Deletions, Deleting
  <2> QED
    BY <2>1, <2>3, <2>4, <2>5 DEF IInv
<1> QED
  BY <1>1, <1>2, <1>3

\* Steps that exchange two cells of the same or of two threads.
Exchanges(t, a, b) ==
  /\ pc[t] \in {"idle", "Swap"} /\ crash = "none"
  /\ pc' \in [Threads -> {"idle", "AddRefCheck", "Wrap", "Swap", "Release",
                          "Decrement", "Destruct", "Dtor"}]
  /\ \A u \in Threads \ {t} : pc'[u] = pc[u] /\ u # a /\ u # b
  /\ \/ pc'[t] = "idle" /\ cell'[t] = Null
     \/ pc'[t] = "Release" /\ cell'[t] \in Objects
     \/ pc'[t] = "Swap"
  /\ cell' = [cell EXCEPT ![a] = cell[b], ![b] = cell[a]]
  /\ dst' \in [Threads -> Cells] /\ \A u \in Threads : dst'[u] \in {u} \cup Slots
  /\ UNCHANGED <<ref_count, life, needs_adopt, in_dtor, pre, raw, crash>>

\* Exchanging two cells of one thread keeps the invariant.
LEMMA ExchangeIInv ==
  ASSUME IInv, NEW t \in Threads, NEW a \in Cells, NEW b \in Cells, Exchanges(t, a, b)
  PROVE  IInv'
<1>1. Swapped(cell, cell', a, b)
  BY DEF IInv, TypeOK, Exchanges, Swapped
<1>2. \A p : Cardinality(Pointing(cell', p)) = Cardinality(Pointing(cell, p))
  BY <1>1, Exchange
<1>3. Overflowing => Overflowing'
  BY OverflowingStays DEF Exchanges, IInv
<1>4. Counted' /\ OverflowsExplained' /\ \A p : Unreferenced(p) <=> Unreferenced(p)'
  BY <1>2, <1>3, SameCounts DEF Exchanges
<1>5. TypeOK' /\ needs_adopt' = {}
  BY DEF Exchanges, IInv, TypeOK
<1>6. NeverDangles' /\ DeletedOnce' /\ OnlyOverflowFails'
  <2>1. \A c \in Cells : \E x \in Cells : cell'[c] = cell[x]
    BY <1>1 DEF Swapped
  <2>2. NeverDangles'
    <3>1. life' = life /\ NeverDangles
      BY DEF Exchanges, IInv
    <3> QED
      BY <3>1, <2>1 DEF NeverDangles
  <2> QED
    BY <2>2 DEF Exchanges, IInv, DeletedOnce, OnlyOverflowFails
<1>7. Temporaries'
  <2> SUFFICES ASSUME NEW u \in Threads
               PROVE  /\ dst'[u] \in {u} \cup Slots
                      /\ pc'[u] # "Wrap"
                      /\ pc'[u] = "idle" \/ Deleting(u)' => cell'[u] = Null
                      /\ pc'[u] \in {"AddRefCheck", "Release", "Decrement"} => cell'[u] \in Objects
    BY DEF Temporaries
  <2>1. CASE u = t
    BY <2>1 DEF Exchanges, Deleting
  <2>2. CASE u # t
    <3>1. cell'[u] = cell[u] /\ pc'[u] = pc[u]
      BY <2>2, <1>1 DEF Exchanges, Cells, Swapped
    <3> QED
      BY <3>1 DEF Exchanges, IInv, Temporaries, Deleting
  <2> QED
    BY <2>1, <2>2
<1>8. Deletions'
  <2>1. \A u \in Threads : Deleting(u)' => Deleting(u) /\ pc'[u] = pc[u]
    BY DEF Exchanges, Deleting
  <2> QED
    BY <2>1, <1>4 DEF Exchanges, IInv, Deletions
<1> QED
  BY <1>4, <1>5, <1>6, <1>7, <1>8 DEF IInv

\* Moving from a variable, assigning with the temporary, handing over.
LEMMA AssignMoveIInv ==
  ASSUME IInv, NEW t \in Threads, NEW s \in SlotsOf[t], NEW d \in SlotsOf[t],
         AssignMove(t, s, d)
  PROVE  IInv'
<1>1. s \in Cells /\ t \in Cells /\ d \in Cells /\ s \notin Threads
  BY SlotsOfAssumption, CellsAssumption DEF Cells
<1>2. cell[t] = Null /\ pc[t] = "idle" /\ crash = "none"
  BY DEF AssignMove, At, IInv, Temporaries
<1>3. cell' = [cell EXCEPT ![t] = cell[s], ![s] = cell[t]]
  BY <1>2 DEF AssignMove, MovedFrom
<1>4. dst' \in [Threads -> Cells] /\ \A u \in Threads : dst'[u] \in {u} \cup Slots
  BY <1>1, SlotsOfAssumption DEF AssignMove, IInv, TypeOK, Temporaries
<1>5. Exchanges(t, t, s)
  BY <1>1, <1>2, <1>3, <1>4 DEF Exchanges, AssignMove, Goto, IInv, TypeOK
<1> QED
  BY <1>1, <1>5, ExchangeIInv

\* swap(), the second half of an assignment, is an exchange.
LEMMA SwapIInv ==
  ASSUME IInv, NEW t \in Threads, Swap(t)
  PROVE  IInv'
<1> DEFINE d == dst[t]
<1>1. d \in Cells /\ t \in Cells
  BY DEF IInv, TypeOK, Cells
<1>2. cell'[t] = cell[d] /\ cell[d] \in Objects \cup {Null}
  BY <1>1 DEF Swap, IInv, TypeOK
<1>3. \A u \in Threads \ {t} : u # d
  BY CellsAssumption DEF IInv, Temporaries
<1>4. dst' \in [Threads -> Cells] /\ \A u \in Threads : dst'[u] \in {u} \cup Slots
  BY <1>1 DEF Swap, IInv, TypeOK, Temporaries
<1>5. Exchanges(t, t, d)
  BY <1>1, <1>2, <1>3, <1>4 DEF Exchanges, Swap, Goto, At, IInv, TypeOK
<1> QED
  BY <1>1, <1>5, ExchangeIInv

\* Moving a pointer to another thread is an exchange with an empty cell.
LEMMA HandIInv ==
  ASSUME IInv, NEW t \in Threads, NEW u \in Threads, NEW s \in SlotsOf[t], NEW d \in SlotsOf[u],
         Hand(t, s, d)
  PROVE  IInv'
<1>1. s \in Cells /\ d \in Cells /\ s \notin Threads /\ d \notin Threads
  BY SlotsOfAssumption, CellsAssumption DEF Cells
<1>2. cell' = [cell EXCEPT ![d] = cell[s], ![s] = cell[d]]
  BY DEF Hand, MovedFrom
<1>3. cell'[t] = Null
  BY <1>1, <1>2 DEF Hand, At, IInv, TypeOK, Temporaries, Cells
<1>4. Exchanges(t, d, s)
  BY <1>1, <1>2, <1>3 DEF Exchanges, Hand, At, IInv, TypeOK, Temporaries
<1> QED
  BY <1>1, <1>4, ExchangeIInv

-----------------------------------------------------------------------------
\* The start of reset() and of a Release only moves the thread on: the DCHECKs
\* of Release hold.
LEMMA ResetIInv ==
  ASSUME IInv, NEW t \in Threads, NEW d \in SlotsOf[t], Reset(t, d)
  PROVE  IInv'
<1>1. d \in Slots /\ d \in Cells
  BY SlotsOfAssumption DEF Cells
<1>2. Overflowing => Overflowing'
  BY OverflowingStays DEF Reset, At, Goto, IInv, TypeOK
<1>3. Counted' /\ OverflowsExplained' /\ \A p : Unreferenced(p) <=> Unreferenced(p)'
  BY <1>2, SameCounts DEF Reset, At, Goto, IInv, TypeOK
<1>4. TypeOK' /\ needs_adopt' = {} /\ Temporaries'
  BY <1>1 DEF Reset, At, Goto, IInv, TypeOK, Temporaries, Deleting
<1>5. NeverDangles' /\ DeletedOnce' /\ OnlyOverflowFails'
  BY DEF Reset, At, IInv, NeverDangles, DeletedOnce, OnlyOverflowFails
<1>6. Deletions'
  BY <1>3 DEF Reset, At, Goto, IInv, TypeOK, Deletions, Deleting
<1> QED
  BY <1>3, <1>4, <1>5, <1>6 DEF IInv

\* The decrement: whoever takes the count to zero is the only one to delete.
LEMMA ReleaseIInv ==
  ASSUME Contract, IInv, NEW t \in Threads, Release(t)
  PROVE  IInv'
<1> DEFINE o == cell[t]
<1>1. t \in Cells /\ o \in Objects /\ pc[t] = "Release" /\ crash = "none"
  BY DEF Release, At, IInv, Temporaries, Cells
<1>2. ~ RefusesInDtor(o)
  BY <1>1 DEF RefusesInDtor, IInv, Deletions, Unreferenced
<1>3. ref_count[o] # 0
  <2>1. Cardinality(Pointing(cell, o)) # 0
    BY <1>1, NoneIsZero
  <2>2. Cardinality(Pointing(cell, o)) \in 0..(2 * IntMax + 1)
    BY AtMostRoom
  <2>3. ref_count[o] = AsInt(Cardinality(Pointing(cell, o)))
    BY <1>1 DEF IInv, Counted
  <2> QED
    BY <2>1, <2>2, <2>3, IntAssumption DEF AsInt
<1>4. /\ pc' = [pc EXCEPT ![t] = "Decrement"]
      /\ UNCHANGED <<ref_count, cell, life, needs_adopt, in_dtor, dst, pre, raw, crash>>
  BY <1>2, <1>3 DEF Release, Goto
<1>5. Overflowing => Overflowing'
  BY <1>1, <1>4, OverflowingStays DEF IInv, TypeOK
<1>6. Counted' /\ OverflowsExplained' /\ \A p : Unreferenced(p) <=> Unreferenced(p)'
  BY <1>4, <1>5, SameCounts DEF IInv, TypeOK
<1>7. TypeOK' /\ needs_adopt' = {} /\ Temporaries'
  BY <1>1, <1>4 DEF IInv, TypeOK, Temporaries, Deleting
<1>8. NeverDangles' /\ DeletedOnce' /\ OnlyOverflowFails'
  BY <1>1, <1>4 DEF IInv, NeverDangles, DeletedOnce, OnlyOverflowFails
<1>9. Deletions'
  BY <1>4, <1>6 DEF IInv, TypeOK, Deletions, Deleting
<1> QED
  BY <1>6, <1>7, <1>8, <1>9 DEF IInv

\* A new object has the one reference that its count says.
LEMMA MakeRefCountedIInv ==
  ASSUME Contract, IInv, NEW t \in Threads, NEW d \in SlotsOf[t], NEW o \in Objects,
         MakeRefCounted(t, d, o)
  PROVE  IInv'
<1>1. t \in Cells /\ d \in Slots /\ d \in Cells
  BY SlotsOfAssumption DEF Cells
<1>2. /\ pc[t] = "idle" /\ cell[t] = Null /\ life[o] = "none" /\ crash = "none"
      /\ ref_count' = [ref_count EXCEPT ![o] = 1]
      /\ cell' = [cell EXCEPT ![t] = o]
      /\ life' = [life EXCEPT ![o] = "live"]
      /\ dst' = [dst EXCEPT ![t] = d]
      /\ pc' = [pc EXCEPT ![t] = "Swap"]
      /\ UNCHANGED <<needs_adopt, in_dtor, pre, raw, crash>>
  BY DEF MakeRefCounted, At, Goto, IInv, Temporaries
<1>3. Unreferenced(o)
  BY <1>2, NullAssumption DEF IInv, NeverDangles, Unreferenced
<1>4. Cardinality(Pointing(cell, o)) = 0
  BY <1>3, NoneIsZero DEF Unreferenced
<1>5. \A x \in Cells : cell'[x] = IF x = t THEN o ELSE cell[x]
  BY <1>1, <1>2 DEF IInv, TypeOK
<1>6. /\ Cardinality(Pointing(cell', o)) = 1
      /\ \A p \in Objects \ {o} : Pointing(cell', p) = Pointing(cell, p)
  <2>1. /\ Cardinality(Pointing(cell', o)) = Cardinality(Pointing(cell, o)) + 1
        /\ \A p \in Objects \ {o} : Pointing(cell', p) = Pointing(cell, p)
    <3>1. cell[t] = Null
      BY <1>2
    <3> QED
      BY <3>1, <1>1, <1>5, Gain
  <2> QED
    BY <2>1, <1>4
<1>7. TypeOK' /\ needs_adopt' = {} /\ Temporaries'
  <2>1. TypeOK' /\ needs_adopt' = {}
    BY <1>1, <1>2, IntAssumption DEF IInv, TypeOK
  <2>2. Temporaries'
    BY <1>1, <1>2, CellsAssumption DEF IInv, TypeOK, Temporaries, Deleting
  <2> QED
    BY <2>1, <2>2
<1>8. Counted'
  <2>1. AsInt(1) = 1
    BY IntAssumption DEF AsInt
  <2> QED
    BY <2>1, <1>2, <1>6 DEF IInv, TypeOK, Counted
<1>9. NeverDangles' /\ DeletedOnce' /\ OnlyOverflowFails'
  BY <1>2, <1>5 DEF IInv, TypeOK, NeverDangles, DeletedOnce, OnlyOverflowFails
<1>10. Deletions'
  <2>1. \A u \in Threads : Deleting(u)' => Deleting(u) /\ u # t /\ pc'[u] = pc[u]
    BY <1>2 DEF IInv, TypeOK, Deleting
  <2>2. \A p : Unreferenced(p) /\ p # o => Unreferenced(p)'
    BY <1>5 DEF Unreferenced
  <2>3. \A u \in Threads : Deleting(u) => raw[u] # o
    BY <1>2 DEF IInv, Deletions
  <2>4. o \notin in_dtor
    BY <1>2 DEF IInv, Deletions
  <2> QED
    BY <2>1, <2>2, <2>3, <2>4, <1>2 DEF IInv, TypeOK, Deletions
<1>11. OverflowsExplained'
  <2>1. Overflowing => Overflowing'
    BY <1>2, OverflowingStays DEF IInv, TypeOK
  <2>2. \A p \in Objects : Cardinality(Pointing(cell', p)) > IntMax => Overflowing'
    <3> TAKE p \in Objects
    <3>1. CASE p = o
      BY <3>1, <1>6, IntAssumption
    <3>2. CASE p # o
      BY <3>2, <2>1, <1>6 DEF IInv, OverflowsExplained
    <3> QED
      BY <3>1, <3>2
  <2> QED
    BY <2>1, <2>2, <1>2 DEF IInv, TypeOK, OverflowsExplained
<1> QED
  BY <1>7, <1>8, <1>9, <1>10, <1>11 DEF IInv

\* The last reference to go hands its object to this thread for deletion.
LEMMA DecrementIInv ==
  ASSUME Contract, IInv, NEW t \in Threads, Decrement(t)
  PROVE  IInv'
<1> DEFINE o == cell[t]
           n == Cardinality(Pointing(cell, o))
<1>1. t \in Cells /\ o \in Objects /\ pc[t] = "Decrement" /\ crash = "none"
  BY DEF Decrement, At, IInv, Temporaries, Cells
<1>2. /\ ref_count' = [ref_count EXCEPT ![o] = Wrap(@ - 1)]
      /\ cell' = [cell EXCEPT ![t] = Null]
      /\ UNCHANGED <<life, needs_adopt, dst, pre, crash>>
  BY DEF Decrement
<1>3. \A x \in Cells : cell'[x] = IF x = t THEN Null ELSE cell[x]
  BY <1>1, <1>2 DEF IInv, TypeOK
<1>4. /\ Cardinality(Pointing(cell', o)) = n - 1
      /\ \A p \in Objects \ {o} : Pointing(cell', p) = Pointing(cell, p)
  <2> HIDE DEF o
  <2>1. o = cell[t]
    BY DEF o
  <2>2. /\ Cardinality(Pointing(cell', o)) = Cardinality(Pointing(cell, o)) - 1
        /\ \A p \in Objects \ {o} : Pointing(cell', p) = Pointing(cell, p)
    BY <2>1, <1>1, <1>3, Drop
  <2> QED
    BY <2>2
<1>5. n \in 1..(2 * IntMax + 1)
  <2>1. n # 0
    BY <1>1, NoneIsZero
  <2>2. n \in 0..(2 * IntMax + 1)
    BY AtMostRoom
  <2> HIDE DEF n
  <2> QED
    BY <2>1, <2>2
<1>6. ref_count[o] = AsInt(n)
  BY <1>1 DEF IInv, Counted
<1> HIDE DEF n
<1>7. ref_count'[o] = AsInt(n - 1)
  <2>1. ref_count'[o] = Wrap(AsInt(n) - 1)
    BY <1>1, <1>2, <1>6 DEF IInv, TypeOK
  <2> QED
    BY <2>1, <1>5, IntAssumption DEF Wrap, AsInt
<1>8. AsInt(n - 1) \in -(IntMax + 1)..IntMax
  BY <1>5, IntAssumption DEF AsInt
<1>9. DropsToZero(ref_count[o]) <=> n = 1
  BY <1>5, <1>6, IntAssumption DEF DropsToZero, AsInt
<1>10. DropsToZero(ref_count[o]) <=> \A c \in Cells : cell'[c] # o
  <2>1. Cardinality(Pointing(cell', o)) = 0 <=> \A c \in Cells : cell'[c] # o
    BY NoneIsZero
  <2> QED
    BY <2>1, <1>4, <1>5, <1>9
<1> HIDE DEF o
<1>11. /\ pc' \in [Threads -> {"idle", "AddRefCheck", "Wrap", "Swap", "Release",
                               "Decrement", "Destruct", "Dtor"}]
       /\ \A u \in Threads \ {t} : pc'[u] = pc[u] /\ raw'[u] = raw[u]
       /\ raw' \in [Threads -> Objects \cup {Null}]
       /\ in_dtor' \in SUBSET Objects
       /\ \/ /\ DropsToZero(ref_count[o]) /\ pc'[t] = "Destruct" /\ raw'[t] = o
             /\ in_dtor' \subseteq in_dtor \cup {o}
          \/ ~ DropsToZero(ref_count[o]) /\ pc'[t] = "idle" /\ in_dtor' = in_dtor
  <2>1. CASE DropsToZero(ref_count[o])
    <3>1. /\ pc' = [pc EXCEPT ![t] = "Destruct"] /\ raw' = [raw EXCEPT ![t] = o]
          /\ in_dtor' \in {in_dtor, in_dtor \cup {o}}
      BY <2>1 DEF Decrement, Goto, o
    <3> QED
      BY <2>1, <3>1, <1>1 DEF IInv, TypeOK
  <2>2. CASE ~ DropsToZero(ref_count[o])
    <3>1. pc' = [pc EXCEPT ![t] = "idle"] /\ UNCHANGED <<in_dtor, raw>>
      BY <2>2 DEF Decrement, Goto, o
    <3> QED
      BY <2>2, <3>1, <1>1 DEF IInv, TypeOK
  <2> QED
    BY <2>1, <2>2
<1>12. TypeOK' /\ needs_adopt' = {}
  <2>1. ref_count' \in [Objects -> -(IntMax + 1)..IntMax]
    BY <1>1, <1>2, <1>7, <1>8 DEF IInv, TypeOK
  <2>2. cell' \in [Cells -> Objects \cup {Null}]
    BY <1>1, <1>2 DEF IInv, TypeOK
  <2> QED
    BY <2>1, <2>2, <1>2, <1>11 DEF IInv, TypeOK
<1>13. Counted'
  BY <1>1, <1>2, <1>4, <1>7 DEF IInv, TypeOK, Counted, n
<1>14. Temporaries'
  <2>1. cell'[t] = Null /\ \A u \in Threads \ {t} : cell'[u] = cell[u]
    BY <1>1, <1>3 DEF Cells
  <2> QED
    BY <2>1, <1>2, <1>11 DEF IInv, Temporaries, Deleting
<1>15. NeverDangles' /\ DeletedOnce' /\ OnlyOverflowFails'
  <2>1. NeverDangles'
    BY <1>2, <1>3 DEF IInv, NeverDangles
  <2> QED
    BY <2>1, <1>1, <1>2 DEF IInv, DeletedOnce, OnlyOverflowFails
<1>16. Deletions'
  <2>1. \A p : Unreferenced(p) /\ p # Null => Unreferenced(p)'
    BY <1>3 DEF Unreferenced
  <2>2. ~ Unreferenced(o)
    BY <1>1 DEF Unreferenced, o
  <2>3. \A u \in Threads \ {t} : Deleting(u)' => Deleting(u) /\ raw[u] # o
    BY <2>2, <1>11 DEF IInv, Deletions, Deleting
  <2>4. life[o] = "live" /\ o # Null
    BY <1>1, NullAssumption DEF IInv, NeverDangles, o
  <2>5. CASE DropsToZero(ref_count[o])
    <3>1. \A u \in Threads : Deleting(u)' =>
            /\ raw'[u] \in Objects
            /\ life'[raw'[u]] = IF pc'[u] = "Destruct" THEN "live" ELSE "dtor"
            /\ \A c \in Cells : cell'[c] # raw'[u]
      <4> SUFFICES ASSUME NEW u \in Threads, Deleting(u)'
                   PROVE  /\ raw'[u] \in Objects
                          /\ life'[raw'[u]] = IF pc'[u] = "Destruct" THEN "live" ELSE "dtor"
                          /\ \A c \in Cells : cell'[c] # raw'[u]
        OBVIOUS
      <4>1. CASE u = t
        <5>1. raw'[t] = o /\ pc'[t] = "Destruct" /\ life'[o] = "live"
          BY <2>4, <2>5, <1>2, <1>11
        <5> QED
          BY <4>1, <5>1, <2>5, <1>1, <1>10
      <4>2. CASE u # t
        <5>1. Deleting(u) /\ raw'[u] = raw[u] /\ pc'[u] = pc[u] /\ life' = life
          BY <4>2, <2>3, <1>2, <1>11
        <5>2. /\ raw[u] \in Objects /\ Unreferenced(raw[u])
              /\ life[raw[u]] = IF pc[u] = "Destruct" THEN "live" ELSE "dtor"
          BY <5>1 DEF IInv, Deletions
        <5> QED
          BY <5>1, <5>2, <1>3, NullAssumption DEF Unreferenced
      <4> QED
        BY <4>1, <4>2
    <3>2. \A u, v \in Threads : Deleting(u)' /\ Deleting(v)' /\ raw'[u] = raw'[v] => u = v
      BY <2>3, <2>5, <1>11 DEF IInv, Deletions
    <3>3. \A p \in in_dtor' : Unreferenced(p)' /\ life'[p] # "none"
      <4> SUFFICES ASSUME NEW p \in in_dtor'
                   PROVE  (\A c \in Cells : cell'[c] # p) /\ life'[p] # "none"
        BY DEF Unreferenced
      <4>1. CASE p = o
        BY <4>1, <2>4, <2>5, <1>2, <1>10
      <4>2. CASE p # o
        <5>1. p \in in_dtor /\ p # Null
          BY <4>2, <2>5, <1>11, NullAssumption DEF IInv, TypeOK
        <5> QED
          BY <5>1, <1>2, <1>3 DEF IInv, Deletions, Unreferenced
      <4> QED
        BY <4>1, <4>2
    <3> QED
      BY <3>1, <3>2, <3>3 DEF Deletions, Unreferenced
  <2>6. CASE ~ DropsToZero(ref_count[o])
    <3>1. \A u \in Threads : Deleting(u)' => u # t /\ Deleting(u) /\ raw'[u] = raw[u] /\ pc'[u] = pc[u]
      BY <2>6, <1>11 DEF Deleting
    <3>2. \A p \in in_dtor : p # Null
      BY NullAssumption DEF IInv, TypeOK
    <3> QED
      BY <2>1, <2>6, <3>1, <3>2, <1>2, <1>11, NullAssumption DEF IInv, Deletions
  <2> QED
    BY <2>5, <2>6
<1>17. OverflowsExplained'
  <2>1. Overflowing => Overflowing'
    BY <1>1, <1>2, <1>11, OverflowingStays DEF IInv
  <2>2. \A p \in Objects : Cardinality(Pointing(cell', p)) > IntMax => Overflowing'
    <3> TAKE p \in Objects
    <3>1. CASE p = o
      <4>1. n - 1 > IntMax => n > IntMax
        BY <1>5, IntAssumption
      <4> QED
        BY <3>1, <4>1, <2>1, <1>1, <1>4 DEF IInv, OverflowsExplained, n
    <3>2. CASE p # o
      BY <3>2, <2>1, <1>4 DEF IInv, OverflowsExplained
    <3> QED
      BY <3>1, <3>2
  <2>3. \A u \in Threads : pc'[u] = "AddRefCheck" => pc[u] = "AddRefCheck"
    BY <1>11
  <2> QED
    BY <2>1, <2>2, <2>3, <1>2 DEF IInv, OverflowsExplained
<1> QED
  BY <1>12, <1>13, <1>14, <1>15, <1>16, <1>17 DEF IInv

\* The two steps of a deletion: no other thread deletes the object.
LEMMA DestructIInv ==
  ASSUME IInv, NEW t \in Threads, Destruct(t)
  PROVE  IInv'
<1> DEFINE o == raw[t]
<1>1. /\ pc[t] = "Destruct" /\ o \in Objects /\ life[o] = "live" /\ Unreferenced(o)
      /\ \A u \in Threads \ {t} : Deleting(u) => raw[u] # o
      /\ crash = "none" /\ cell[t] = Null
  BY DEF Destruct, At, IInv, Deletions, Deleting, Temporaries
<1>2. /\ life' = [life EXCEPT ![o] = "dtor"] /\ pc' = [pc EXCEPT ![t] = "Dtor"]
      /\ UNCHANGED <<ref_count, cell, needs_adopt, in_dtor, dst, pre, raw, crash>>
  BY <1>1 DEF Destruct, Goto
<1>3. Overflowing => Overflowing'
  BY <1>1, <1>2, OverflowingStays DEF IInv, TypeOK
<1>4. Counted' /\ OverflowsExplained' /\ \A p : Unreferenced(p) <=> Unreferenced(p)'
  BY <1>2, <1>3, SameCounts DEF IInv, TypeOK
<1>5. TypeOK' /\ needs_adopt' = {} /\ Temporaries'
  BY <1>1, <1>2 DEF IInv, TypeOK, Temporaries, Deleting
<1>6. NeverDangles' /\ DeletedOnce' /\ OnlyOverflowFails'
  BY <1>1, <1>2 DEF IInv, TypeOK, NeverDangles, DeletedOnce, OnlyOverflowFails, Unreferenced
<1>7. Deletions'
  BY <1>1, <1>2, <1>4 DEF IInv, TypeOK, Deletions, Deleting
<1> QED
  BY <1>4, <1>5, <1>6, <1>7 DEF IInv

\* The end of the destructor.
LEMMA DeletedIInv ==
  ASSUME IInv, NEW t \in Threads, Deleted(t)
  PROVE  IInv'
<1> DEFINE o == raw[t]
<1>1. /\ pc[t] = "Dtor" /\ o \in Objects /\ life[o] = "dtor" /\ Unreferenced(o)
      /\ \A u \in Threads \ {t} : Deleting(u) => raw[u] # o
      /\ crash = "none" /\ cell[t] = Null
  BY DEF Deleted, At, IInv, Deletions, Deleting, Temporaries
<1>2. /\ life' = [life EXCEPT ![o] = "deleted"] /\ pc' = [pc EXCEPT ![t] = "idle"]
      /\ raw' = [raw EXCEPT ![t] = Null]
      /\ UNCHANGED <<ref_count, cell, needs_adopt, in_dtor, dst, pre, crash>>
  BY <1>1 DEF Deleted, Goto
<1>3. Overflowing => Overflowing'
  BY <1>1, <1>2, OverflowingStays DEF IInv, TypeOK
<1>4. Counted' /\ OverflowsExplained' /\ \A p : Unreferenced(p) <=> Unreferenced(p)'
  BY <1>2, <1>3, SameCounts DEF IInv, TypeOK
<1>5. TypeOK' /\ needs_adopt' = {} /\ Temporaries'
  BY <1>1, <1>2 DEF IInv, TypeOK, Temporaries, Deleting
<1>6. NeverDangles' /\ DeletedOnce' /\ OnlyOverflowFails'
  BY <1>1, <1>2 DEF IInv, TypeOK, NeverDangles, DeletedOnce, OnlyOverflowFails, Unreferenced
<1>7. Deletions'
  <2>1. \A u \in Threads : Deleting(u)' =>
          u # t /\ Deleting(u) /\ raw'[u] = raw[u] /\ pc'[u] = pc[u] /\ life'[raw[u]] = life[raw[u]]
    <3>1. SUFFICES ASSUME NEW u \in Threads, Deleting(u)'
                   PROVE  u # t /\ Deleting(u) /\ raw'[u] = raw[u] /\ pc'[u] = pc[u]
                          /\ life'[raw[u]] = life[raw[u]]
      OBVIOUS
    <3>2. u # t
      BY <1>2, <3>1 DEF IInv, TypeOK, Deleting
    <3>3. Deleting(u) /\ raw'[u] = raw[u] /\ pc'[u] = pc[u]
      BY <1>2, <3>1, <3>2 DEF IInv, TypeOK, Deleting
    <3>4. raw[u] # o /\ raw[u] \in Objects
      BY <1>1, <3>2, <3>3 DEF IInv, Deletions
    <3> QED BY <1>2, <3>2, <3>3, <3>4 DEF IInv, TypeOK
  <2>2. \A p \in Objects : life[p] # "none" => life'[p] # "none"
    BY <1>1, <1>2 DEF IInv, TypeOK
  <2>3. \A p \in Objects : Unreferenced(p) => Unreferenced(p)'
    BY <1>4
  <2>4. \A u \in Threads : Deleting(u)' =>
          (/\ raw[u] \in Objects
           /\ life[raw[u]] = IF pc[u] = "Destruct" THEN "live" ELSE "dtor"
           /\ Unreferenced(raw[u]))'
    <3>1. SUFFICES ASSUME NEW u \in Threads, Deleting(u)'
                   PROVE  (/\ raw[u] \in Objects
                           /\ life[raw[u]] = IF pc[u] = "Destruct" THEN "live" ELSE "dtor"
                           /\ Unreferenced(raw[u]))'
      OBVIOUS
    <3>2. /\ raw[u] \in Objects
          /\ life[raw[u]] = IF pc[u] = "Destruct" THEN "live" ELSE "dtor"
          /\ Unreferenced(raw[u])
      BY <2>1, <3>1 DEF IInv, Deletions
    <3>3. raw'[u] = raw[u] /\ pc'[u] = pc[u] /\ life'[raw[u]] = life[raw[u]]
      BY <2>1, <3>1
    <3>4. Unreferenced(raw[u])'
      BY <1>4, <3>2, <3>3
    <3> QED BY <3>2, <3>3, <3>4
  <2>5. \A u, v \in Threads : Deleting(u)' /\ Deleting(v)' /\ raw'[u] = raw'[v] => u = v
    BY <2>1 DEF IInv, Deletions
  <2>6. \A p \in in_dtor' : Unreferenced(p)' /\ life'[p] # "none"
    BY <1>2, <2>2, <2>3 DEF IInv, TypeOK, Deletions
  <2> QED
    BY <2>4, <2>5, <2>6 DEF Deletions
<1> QED
  BY <1>4, <1>5, <1>6, <1>7 DEF IInv

-----------------------------------------------------------------------------
\* Every step keeps the invariant; the last group are the steps of users that
\* break the contract.
LEMMA NextIInv ==
  ASSUME Contract, IInv, [Next]_vars
  PROVE  IInv'
<1>1. CASE UNCHANGED vars
  <2>1. TypeOK' /\ needs_adopt' = {} /\ Temporaries' /\ OnlyOverflowFails'
    BY <1>1 DEF vars, IInv, TypeOK, Temporaries, Deleting, OnlyOverflowFails
  <2>2. NeverDangles' /\ DeletedOnce' /\ Deletions'
    BY <1>1 DEF vars, IInv, NeverDangles, DeletedOnce, Deletions, Deleting, Unreferenced
  <2>3. Counted' /\ OverflowsExplained'
    BY <1>1 DEF vars, IInv, Counted, OverflowsExplained, Overflowing
  <2> QED
    BY <2>1, <2>2, <2>3 DEF IInv
<1>2. ASSUME NEW t \in Threads, NEW s \in SlotsOf[t], NEW d \in SlotsOf[t],
             AssignCopy(t, s, d) \/ AssignMove(t, s, d)
      PROVE  IInv'
  BY <1>2, AssignCopyIInv, AssignMoveIInv
<1>3. ASSUME NEW t \in Threads, NEW d \in SlotsOf[t], Reset(t, d)
      PROVE  IInv'
  BY <1>3, ResetIInv
<1>4. ASSUME NEW t \in Threads, NEW d \in SlotsOf[t], NEW o \in Objects,
             MakeRefCounted(t, d, o) \/ NewUnadopted(t, d, o)
      PROVE  IInv'
  BY <1>4, MakeRefCountedIInv DEF NewUnadopted, Contract
<1>5. ASSUME NEW t \in Threads, NEW s \in SlotsOf[t], NEW u \in Threads, NEW d \in SlotsOf[u],
             Hand(t, s, d)
      PROVE  IInv'
  BY <1>5, HandIInv
<1>6. ASSUME NEW t \in Threads, Step(t)
      PROVE  IInv'
  <2>1. CASE AddRefCheck(t)
    BY <2>1, AddRefCheckIInv
  <2>2. CASE Swap(t)
    BY <2>2, SwapIInv
  <2>3. CASE Release(t)
    BY <2>3, ReleaseIInv
  <2>4. CASE Decrement(t)
    BY <2>4, DecrementIInv
  <2>5. CASE Destruct(t)
    BY <2>5, DestructIInv
  <2>6. CASE Deleted(t)
    BY <2>6, DeletedIInv
  <2>7. CASE WrapNew(t) \/ Resurrect(t)
    BY <2>7 DEF WrapNew, Resurrect, At, Contract, IInv, Temporaries
  <2> QED
    BY <1>6, <2>1, <2>2, <2>3, <2>4, <2>5, <2>6, <2>7 DEF Step
<1> QED
  BY <1>1, <1>2, <1>3, <1>4, <1>5, <1>6 DEF Next

\* The invariant holds throughout every program that keeps to the contract.
LEMMA AlwaysIInv ==
  ASSUME Contract
  PROVE  Spec => []IInv
<1>1. Init => IInv
  BY InitIInv
<1>2. IInv /\ [Next]_vars => IInv'
  BY NextIInv
<1> QED
  BY <1>1, <1>2, PTL DEF Spec

\* The states of the program are well formed.
THEOREM TypeCorrect ==
  ASSUME Contract
  PROVE  Spec => []TypeOK
<1>1. IInv => TypeOK
  BY DEF IInv
<1> QED
  BY <1>1, AlwaysIInv, PTL

\* AddRef and Release keep the count equal to the number of scoped_refptrs,
\* however the threads interleave.
THEOREM CountsCorrect ==
  ASSUME Contract
  PROVE  Spec => []CountIsRefs
<1>1. IInv => CountIsRefs
  <2> SUFFICES ASSUME IInv, NEW o \in Objects \ needs_adopt
               PROVE  (ref_count[o] - Cardinality(Refs(o))) % (2 * (IntMax + 1)) = 0
    BY DEF CountIsRefs
  <2> DEFINE n == Cardinality(Pointing(cell, o))
             w == 2 * (IntMax + 1)
  <2>1. Cardinality(Refs(o)) = n /\ n \in Nat
    BY PointingFinite DEF Refs, Pointing
  <2>2. ref_count[o] = AsInt(n)
    BY DEF IInv, Counted
  <2>3. w \in Nat \ {0}
    BY IntAssumption
  <2> HIDE DEF n
  <2>4. ref_count[o] - n = 0 \/ ref_count[o] - n = -w
    BY <2>1, <2>2, IntAssumption DEF AsInt
  <2> HIDE DEF w
  <2>5. 0 % w = 0 /\ (-w) % w = 0
    BY <2>3, SMT
  <2> QED
    BY <2>1, <2>4, <2>5 DEF w
<1> QED
  BY <1>1, AlwaysIInv, PTL

\* No scoped_refptr outlives its object.
THEOREM NoUseAfterFree ==
  ASSUME Contract
  PROVE  Spec => []NeverDangles
<1>1. IInv => NeverDangles
  BY DEF IInv
<1> QED
  BY <1>1, AlwaysIInv, PTL

\* Only one thread deletes an object, once.
THEOREM NoDoubleDelete ==
  ASSUME Contract
  PROVE  Spec => []DeletedOnce
<1>1. IInv => DeletedOnce
  BY DEF IInv
<1> QED
  BY <1>1, AlwaysIInv, PTL

\* The CHECKs and DCHECKs of AddRef and Release accept every correct program
\* that does not overflow the count.
THEOREM ChecksAcceptCorrectUse ==
  ASSUME Contract
  PROVE  Spec => []OnlyOverflowFails
<1>1. IInv => OnlyOverflowFails
  BY DEF IInv
<1> QED
  BY <1>1, AlwaysIInv, PTL
=============================================================================
