---------------------------- MODULE FlatMap_proofs ----------------------------
(***************************************************************************)
(* flat_map implements a map, for every set of keys and for bodies of      *)
(* every size.  The body is always increasing, and the map it stands for   *)
(* does what KeyMap does.  Sorting, merging and inserting are followed on  *)
(* sequences in which keys may repeat, and the first of them counts        *)
(* (Firsts); where the keys increase these are the pairs of the map        *)
(* (Pairs).  Each operation is one lemma on increasing sequences and one   *)
(* step of KeyMap.                                                         *)
(*                                                                         *)
(* The loops of the standard algorithms are folds, whose turns             *)
(* FoldSolution and BoundedInduction of Components_proofs go through.      *)
(***************************************************************************)
EXTENDS FlatMap, Components_proofs

-----------------------------------------------------------------------------
(* Sequences of elements and the maps they stand for                       *)

Entries == Keys \X Values

\* What the states of KeyMap are.
Maps == UNION {[ks -> Values] : ks \in SUBSET Keys}

\* The first element of s with key k is at i, and its value is v.
FirstAt(s, k, v, i) ==
  s[i][1] = k /\ s[i][2] = v /\ \A j \in 1 .. (i - 1) : s[j][1] # k

\* f maps every key of s to the value that comes first with it.
Firsts(s, f) ==
  /\ s \in Seq(Entries) /\ f \in Maps
  /\ \A i \in 1 .. Len(s) : s[i][1] \in DOMAIN f
  /\ \A k \in DOMAIN f : \E i \in 1 .. Len(s) : FirstAt(s, k, f[k], i)

\* No element of s has a smaller key than one before it, or none has a key that
\* is not greater.
NonDecreasing(s) ==
  s \in Seq(Entries) /\ \A i \in 1 .. Len(s) : \A j \in 1 .. (i - 1) : s[j][1] <= s[i][1]
Increasing(s) ==
  s \in Seq(Entries) /\ \A i \in 1 .. Len(s) : \A j \in 1 .. (i - 1) : s[j][1] < s[i][1]

\* No key from position p on is k.
AbsentFrom(s, p, k) == \A i \in p .. Len(s) : s[i][1] # k

\* The keys before p are less than k, or not greater, and those from p on greater.
Between(s, p, k) ==
  (\A i \in 1 .. (p - 1) : s[i][1] < k) /\ (\A i \in p .. Len(s) : k < s[i][1])
NotBefore(s, p, k) ==
  (\A i \in 1 .. (p - 1) : s[i][1] <= k) /\ (\A i \in p .. Len(s) : k < s[i][1])

\* t is s with x at position p.
WithEntry(t, s, p, x) ==
  /\ t \in Seq(Entries) /\ Len(t) = Len(s) + 1 /\ t[p] = x
  /\ \A i \in 1 .. Len(t) : i < p => i \in 1 .. Len(s) /\ t[i] = s[i]
  /\ \A i \in 1 .. Len(t) : p < i => i - 1 \in p .. Len(s) /\ i - 1 \in 1 .. Len(s) /\ t[i] = s[i - 1]
  /\ \A i \in 1 .. Len(s) : p <= i => i + 1 \in 1 .. Len(t) /\ t[i + 1] = s[i]

\* The map g is f with the value v for k, or with it unless f has k.
SetTo(g, f, k, v) ==
  /\ g \in Maps /\ DOMAIN g = DOMAIN f \cup {k} /\ g[k] = v
  /\ \A x \in DOMAIN f : x # k => g[x] = f[x]
AddedTo(g, f, k, v) ==
  /\ g \in Maps /\ DOMAIN g = DOMAIN f \cup {k}
  /\ \A x \in DOMAIN f : g[x] = f[x]
  /\ k \in DOMAIN f => g = f
  /\ k \notin DOMAIN f => g[k] = v

\* What an element is made of.
LEMMA EntryIs ==
  ASSUME NEW x \in Entries
  PROVE  x[1] \in Keys /\ x[1] \in Nat /\ x[2] \in Values /\ x = <<x[1], x[2]>>
<1>1. x[1] \in Keys /\ x[2] \in Values /\ x = <<x[1], x[2]>>
  BY DEF Entries
<1>2. Keys \subseteq Nat
  BY FlatMapAssumption
<1> QED BY <1>1, <1>2

\* The elements of a sequence of them.
LEMMA EntryAt ==
  ASSUME NEW s \in Seq(Entries)
  PROVE  /\ Len(s) \in Nat
         /\ \A i \in 1 .. Len(s) : s[i] \in Entries
         /\ \A i \in 1 .. Len(s) : s[i][1] \in Keys /\ s[i][1] \in Nat /\ s[i][2] \in Values
<1>1. \A i \in 1 .. Len(s) : s[i] \in Entries
  OBVIOUS
<1> QED BY <1>1, EntryIs

\* What a map is made of.
LEMMA MapIs ==
  ASSUME NEW f \in Maps
  PROVE  DOMAIN f \in SUBSET Keys /\ DOMAIN f \subseteq Nat /\ f \in [DOMAIN f -> Values]
BY FlatMapAssumption DEF Maps

\* Increasing elements are sorted.
LEMMA IncreasingSorted ==
  ASSUME NEW s, Increasing(s)
  PROVE  NonDecreasing(s)
<1>1. s \in Seq(Entries)
  BY DEF Increasing
<1>2. Len(s) \in Nat /\ \A i \in 1 .. Len(s) : s[i][1] \in Nat
  BY <1>1, EntryAt
<1> SUFFICES ASSUME NEW i \in 1 .. Len(s), NEW j \in 1 .. (i - 1) PROVE s[j][1] <= s[i][1]
  BY <1>1 DEF NonDecreasing
<1>3. s[j][1] < s[i][1]
  BY DEF Increasing
<1>4. j \in 1 .. Len(s)
  BY <1>2
<1> QED BY <1>2, <1>3, <1>4

\* The map that a value is set in.
LEMMA SetIs ==
  ASSUME NEW f \in Maps, NEW k \in Keys, NEW v \in Values, NEW g, g = Map!Set(f, k, v)
  PROVE  SetTo(g, f, k, v)
<1>1. DOMAIN f \in SUBSET Keys /\ f \in [DOMAIN f -> Values]
  BY MapIs
<1>2. g = [x \in DOMAIN f \cup {k} |-> IF x = k THEN v ELSE f[x]]
  BY DEF Map!Set
<1>3. g \in [DOMAIN f \cup {k} -> Values] /\ DOMAIN f \cup {k} \in SUBSET Keys
  BY <1>1, <1>2
<1>4. g \in Maps
  BY <1>3 DEF Maps
<1> QED BY <1>2, <1>4 DEF SetTo

\* The map that an element is added to, unless its key is there.
LEMMA AddIsMap ==
  ASSUME NEW f \in Maps, NEW x \in Entries, NEW k, NEW v, k = x[1], v = x[2], NEW g, g = Map!Add(f, x)
  PROVE  AddedTo(g, f, k, v) /\ k \in Keys /\ v \in Values
<1>1. k \in Keys /\ v \in Values
  BY EntryIs
<1>2. CASE k \in DOMAIN f
  <2>1. g = f
    BY <1>2 DEF Map!Add
  <2> QED BY <1>1, <1>2, <2>1 DEF AddedTo
<1>3. CASE k \notin DOMAIN f
  <2>1. g = Map!Set(f, k, v)
    BY <1>3 DEF Map!Add
  <2>2. SetTo(g, f, k, v)
    BY <1>1, <2>1, SetIs
  <2> QED BY <1>1, <1>3, <2>2 DEF SetTo, AddedTo
<1> QED BY <1>2, <1>3

\* The empty sequence stands for the empty map.
LEMMA FirstsEmpty == Firsts(<<>>, <<>>)
<1>1. <<>> \in Seq(Entries) /\ Len(<<>>) = 0
  OBVIOUS
<1>2. <<>> \in Maps /\ DOMAIN <<>> = {}
  <2>1. <<>> \in [{} -> Values] /\ {} \in SUBSET Keys
    OBVIOUS
  <2> QED BY <2>1 DEF Maps
<1> QED BY <1>1, <1>2 DEF Firsts

\* A sequence stands for one map.
LEMMA FirstsUnique ==
  ASSUME NEW s, NEW f, NEW g, Firsts(s, f), Firsts(s, g)
  PROVE  f = g
<1>1. s \in Seq(Entries) /\ f \in Maps /\ g \in Maps
  BY DEF Firsts
<1>2. /\ f \in [DOMAIN f -> Values] /\ g \in [DOMAIN g -> Values]
      /\ DOMAIN f \subseteq Nat /\ DOMAIN g \subseteq Nat
  BY <1>1, MapIs
<1>3. Len(s) \in Nat
  BY <1>1
<1>4. ASSUME NEW k \in DOMAIN f PROVE k \in DOMAIN g
  <2>1. PICK i \in 1 .. Len(s) : FirstAt(s, k, f[k], i)
    BY DEF Firsts
  <2> QED BY <2>1 DEF Firsts, FirstAt
<1>5. ASSUME NEW k \in DOMAIN g PROVE k \in DOMAIN f
  <2>1. PICK i \in 1 .. Len(s) : FirstAt(s, k, g[k], i)
    BY DEF Firsts
  <2> QED BY <2>1 DEF Firsts, FirstAt
<1>6. ASSUME NEW k \in DOMAIN f PROVE f[k] = g[k]
  <2>0. PICK i \in 1 .. Len(s) : FirstAt(s, k, f[k], i)
    BY DEF Firsts
  <2>1. s[i][1] = k /\ s[i][2] = f[k] /\ \A j \in 1 .. (i - 1) : s[j][1] # k
    BY <2>0 DEF FirstAt
  <2>x. PICK j \in 1 .. Len(s) : FirstAt(s, k, g[k], j)
    BY <1>4 DEF Firsts
  <2>2. s[j][1] = k /\ s[j][2] = g[k] /\ \A n \in 1 .. (j - 1) : s[n][1] # k
    BY <2>x DEF FirstAt
  <2>3. ~(i < j)
    <3> SUFFICES ASSUME i < j PROVE FALSE
      OBVIOUS
    <3>1. i \in 1 .. (j - 1)
      BY <1>3
    <3> QED BY <2>1, <2>2, <3>1
  <2>4. ~(j < i)
    <3> SUFFICES ASSUME j < i PROVE FALSE
      OBVIOUS
    <3>1. j \in 1 .. (i - 1)
      BY <1>3
    <3> QED BY <2>1, <2>2, <3>1
  <2>5. i = j
    BY <1>3, <2>3, <2>4
  <2> QED BY <2>1, <2>2, <2>5
<1>7. DOMAIN f = DOMAIN g
  BY <1>4, <1>5
<1> QED BY <1>2, <1>6, <1>7

\* An element that is put behind those with its key is added to the map.
LEMMA FirstsOpened ==
  ASSUME NEW s, NEW f, Firsts(s, f), NEW x \in Entries, NEW p \in 1 .. (Len(s) + 1),
         NEW k, k = x[1], AbsentFrom(s, p, k),
         NEW t, WithEntry(t, s, p, x), NEW g, g = Map!Add(f, x)
  PROVE  Firsts(t, g)
<1>1. s \in Seq(Entries) /\ f \in Maps
  BY DEF Firsts
<1>2. PICK v : v = x[2]
  OBVIOUS
<1>3. AddedTo(g, f, k, v)
  BY <1>1, <1>2, AddIsMap
<1>4. g \in Maps /\ DOMAIN g = DOMAIN f \cup {k} /\ \A y \in DOMAIN f : g[y] = f[y]
  BY <1>3 DEF AddedTo
<1>5. /\ Len(s) \in Nat /\ p \in Nat /\ Len(t) = Len(s) + 1 /\ t \in Seq(Entries) /\ t[p] = x
      /\ p \in 1 .. Len(t)
  BY <1>1 DEF WithEntry
<1>6. \A i \in 1 .. Len(t) : i < p \/ i = p \/ p < i
  BY <1>5
<1>7. \A i \in 1 .. Len(t) : t[i][1] \in DOMAIN g
  BY <1>4, <1>5, <1>6 DEF Firsts, WithEntry
<1>8. ASSUME NEW y \in DOMAIN f
      PROVE  \E i \in 1 .. Len(t) : FirstAt(t, y, g[y], i)
  <2>1. PICK i \in 1 .. Len(s) : FirstAt(s, y, f[y], i)
    BY DEF Firsts
  <2>2. g[y] = f[y] /\ s[i][1] = y /\ s[i][2] = f[y] /\ \A j \in 1 .. (i - 1) : s[j][1] # y
    BY <1>4, <2>1 DEF FirstAt
  <2>3. CASE i < p
    <3>1. i \in 1 .. Len(t)
      BY <1>5
    <3>2. t[i] = s[i]
      BY <2>3, <3>1 DEF WithEntry
    <3>3. ASSUME NEW j \in 1 .. (i - 1) PROVE t[j][1] # y
      <4>1. j \in 1 .. Len(t) /\ j < p
        BY <1>5, <2>3
      <4>2. t[j] = s[j]
        BY <4>1 DEF WithEntry
      <4> QED BY <2>2, <4>2
    <3> QED BY <2>2, <3>1, <3>2, <3>3 DEF FirstAt
  <2>4. CASE p <= i
    <3>1. i + 1 \in 1 .. Len(t) /\ t[i + 1] = s[i]
      BY <2>4 DEF WithEntry
    <3>2. i \in p .. Len(s)
      BY <1>5, <2>4
    <3>3. y # k
      BY <2>2, <3>2 DEF AbsentFrom
    <3>4. ASSUME NEW j \in 1 .. ((i + 1) - 1) PROVE t[j][1] # y
      <4>1. j \in 1 .. Len(t) /\ j \in 1 .. i
        BY <1>5
      <4>2. CASE j < p
        <5>1. j \in 1 .. (i - 1) /\ t[j] = s[j]
          <6>1. j \in 1 .. (i - 1)
            BY <1>5, <2>4, <4>1, <4>2
          <6> QED BY <4>1, <4>2, <6>1 DEF WithEntry
        <5> QED BY <2>2, <5>1
      <4>3. CASE j = p
        BY <1>5, <3>3, <4>3
      <4>4. CASE p < j
        <5>1. j - 1 \in 1 .. (i - 1)
          BY <1>5, <4>1, <4>4
        <5>2. t[j] = s[j - 1]
          BY <4>1, <4>4 DEF WithEntry
        <5> QED BY <2>2, <5>1, <5>2
      <4> QED BY <1>6, <4>1, <4>2, <4>3, <4>4
    <3> QED BY <2>2, <3>1, <3>4 DEF FirstAt
  <2>5. i < p \/ p <= i
    BY <1>5
  <2> QED BY <2>3, <2>4, <2>5
<1>9. ASSUME k \notin DOMAIN f
      PROVE  \E i \in 1 .. Len(t) : FirstAt(t, k, g[k], i)
  <2>1. t[p][1] = k /\ t[p][2] = g[k]
    BY <1>2, <1>3, <1>5, <1>9 DEF AddedTo
  <2>2. ASSUME NEW j \in 1 .. (p - 1) PROVE t[j][1] # k
    <3>1. j \in 1 .. Len(t) /\ j < p
      BY <1>5
    <3>2. j \in 1 .. Len(s) /\ t[j] = s[j]
      BY <3>1 DEF WithEntry
    <3>3. s[j][1] \in DOMAIN f
      BY <3>2 DEF Firsts
    <3> QED BY <1>9, <3>2, <3>3
  <2> QED BY <1>5, <2>1, <2>2 DEF FirstAt
<1>10. ASSUME NEW y \in DOMAIN g
      PROVE  \E i \in 1 .. Len(t) : FirstAt(t, y, g[y], i)
  <2>1. y \in DOMAIN f \/ (y = k /\ k \notin DOMAIN f)
    BY <1>4
  <2> QED BY <1>8, <1>9, <2>1
<1> QED BY <1>4, <1>5, <1>7, <1>10 DEF Firsts

\* An element put behind the smaller keys and before the greater ones.
LEMMA IncreasingOpened ==
  ASSUME NEW s, Increasing(s), NEW x \in Entries, NEW p \in 1 .. (Len(s) + 1),
         NEW k, k = x[1], Between(s, p, k), NEW t, WithEntry(t, s, p, x)
  PROVE  Increasing(t)
<1>1. s \in Seq(Entries)
  BY DEF Increasing
<1>2. /\ Len(s) \in Nat /\ p \in Nat /\ Len(t) = Len(s) + 1 /\ t \in Seq(Entries) /\ t[p][1] = k
      /\ p \in 1 .. Len(t)
  BY <1>1 DEF WithEntry
<1>3. \A i \in 1 .. Len(t) : i < p \/ i = p \/ p < i
  BY <1>2
<1>4. ASSUME NEW i \in 1 .. Len(t), NEW j \in 1 .. (i - 1) PROVE t[j][1] < t[i][1]
  <2>1. j \in 1 .. Len(t) /\ j < i /\ i \in Nat /\ j \in Nat
    BY <1>2
  <2>2. CASE i < p
    <3>1. i \in 1 .. Len(s) /\ t[i] = s[i]
      BY <2>2 DEF WithEntry
    <3>2. j < p
      BY <1>2, <2>1, <2>2
    <3>3. t[j] = s[j]
      BY <2>1, <3>2 DEF WithEntry
    <3> QED BY <3>1, <3>3 DEF Increasing
  <2>3. CASE i = p
    <3>1. j < p /\ j \in 1 .. (p - 1)
      BY <1>2, <2>1, <2>3
    <3>2. t[j] = s[j]
      BY <2>1, <3>1 DEF WithEntry
    <3> QED BY <1>2, <2>3, <3>1, <3>2 DEF Between
  <2>4. CASE p < i
    <3>0. i - 1 \in p .. Len(s) /\ i - 1 \in 1 .. Len(s) /\ t[i] = s[i - 1]
      BY <2>4 DEF WithEntry
    <3>1. CASE j < p
      <4>1. j \in 1 .. ((i - 1) - 1)
        BY <1>2, <2>1, <2>4, <3>1
      <4>2. t[j] = s[j]
        BY <2>1, <3>1 DEF WithEntry
      <4> QED BY <3>0, <4>1, <4>2 DEF Increasing
    <3>2. CASE j = p
      BY <1>2, <3>0, <3>2 DEF Between
    <3>3. CASE p < j
      <4>1. j - 1 \in 1 .. ((i - 1) - 1)
        BY <1>2, <2>1, <2>4, <3>3
      <4>2. t[j] = s[j - 1]
        BY <2>1, <3>3 DEF WithEntry
      <4> QED BY <3>0, <4>1, <4>2 DEF Increasing
    <3> QED BY <1>3, <2>1, <3>1, <3>2, <3>3
  <2> QED BY <1>3, <2>2, <2>3, <2>4
<1> QED BY <1>2, <1>4 DEF Increasing

\* The same for a sequence with equal keys.
LEMMA NonDecreasingOpened ==
  ASSUME NEW s, NonDecreasing(s), NEW x \in Entries, NEW p \in 1 .. (Len(s) + 1),
         NEW k, k = x[1], NotBefore(s, p, k), NEW t, WithEntry(t, s, p, x)
  PROVE  NonDecreasing(t)
<1>1. s \in Seq(Entries)
  BY DEF NonDecreasing
<1>2. /\ Len(s) \in Nat /\ p \in Nat /\ Len(t) = Len(s) + 1 /\ t \in Seq(Entries) /\ t[p][1] = k
      /\ p \in 1 .. Len(t)
  BY <1>1 DEF WithEntry
<1>3. \A i \in 1 .. Len(t) : i < p \/ i = p \/ p < i
  BY <1>2
<1>x. k \in Nat /\ \A i \in 1 .. Len(s) : s[i][1] \in Nat
  BY <1>1, EntryIs, EntryAt
<1>4. ASSUME NEW i \in 1 .. Len(t), NEW j \in 1 .. (i - 1) PROVE t[j][1] <= t[i][1]
  <2>1. j \in 1 .. Len(t) /\ j < i /\ i \in Nat /\ j \in Nat
    BY <1>2
  <2>2. CASE i < p
    <3>1. i \in 1 .. Len(s) /\ t[i] = s[i]
      BY <2>2 DEF WithEntry
    <3>2. j < p
      BY <1>2, <2>1, <2>2
    <3>3. t[j] = s[j]
      BY <2>1, <3>2 DEF WithEntry
    <3> QED BY <3>1, <3>3 DEF NonDecreasing
  <2>3. CASE i = p
    <3>1. j < p /\ j \in 1 .. (p - 1)
      BY <1>2, <2>1, <2>3
    <3>2. t[j] = s[j]
      BY <2>1, <3>1 DEF WithEntry
    <3> QED BY <1>2, <2>3, <3>1, <3>2 DEF NotBefore
  <2>4. CASE p < i
    <3>0. i - 1 \in p .. Len(s) /\ i - 1 \in 1 .. Len(s) /\ t[i] = s[i - 1]
      BY <2>4 DEF WithEntry
    <3>1. CASE j < p
      <4>1. j \in 1 .. ((i - 1) - 1)
        BY <1>2, <2>1, <2>4, <3>1
      <4>2. t[j] = s[j]
        BY <2>1, <3>1 DEF WithEntry
      <4> QED BY <3>0, <4>1, <4>2 DEF NonDecreasing
    <3>2. CASE j = p
      <4>1. PICK n \in Nat : n = s[i - 1][1]
        BY <1>x, <3>0
      <4>2. k < n
        BY <3>0, <4>1 DEF NotBefore
      <4>3. k <= n
        BY <1>x, <4>2
      <4> QED BY <1>2, <3>0, <3>2, <4>1, <4>3
    <3>3. CASE p < j
      <4>1. j - 1 \in 1 .. ((i - 1) - 1)
        BY <1>2, <2>1, <2>4, <3>3
      <4>2. t[j] = s[j - 1]
        BY <2>1, <3>3 DEF WithEntry
      <4> QED BY <3>0, <4>1, <4>2 DEF NonDecreasing
    <3> QED BY <1>3, <2>1, <3>1, <3>2, <3>3
  <2> QED BY <1>3, <2>2, <2>3, <2>4
<1> QED BY <1>2, <1>4 DEF NonDecreasing

\* t is a and then b.
Chained(t, a, b) ==
  /\ t \in Seq(Entries) /\ Len(t) = Len(a) + Len(b)
  /\ \A i \in 1 .. Len(t) : i <= Len(a) => i \in 1 .. Len(a) /\ t[i] = a[i]
  /\ \A i \in 1 .. Len(t) : Len(a) < i => i - Len(a) \in 1 .. Len(b) /\ t[i] = b[i - Len(a)]
  /\ \A i \in 1 .. Len(a) : i \in 1 .. Len(t) /\ t[i] = a[i]
  /\ \A i \in 1 .. Len(b) : Len(a) + i \in 1 .. Len(t) /\ t[Len(a) + i] = b[i]

\* t is what s has from position i to position j.
Part(t, s, i, j) ==
  /\ t \in Seq(Entries) /\ Len(t) = j - i + 1
  /\ \A n \in 1 .. Len(t) : (i - 1) + n \in 1 .. Len(s) /\ t[n] = s[(i - 1) + n]

\* Concatenation.
LEMMA JoinedIs ==
  ASSUME NEW a \in Seq(Entries), NEW b \in Seq(Entries), NEW t, t = a \o b
  PROVE  Chained(t, a, b)
<1>1. Len(a) \in Nat /\ Len(b) \in Nat
  OBVIOUS
<1>2. t \in Seq(Entries) /\ Len(t) = Len(a) + Len(b)
  OBVIOUS
<1>3. \A i \in 1 .. Len(t) : i <= Len(a) => i \in 1 .. Len(a) /\ t[i] = a[i]
  BY <1>1, <1>2
<1>4. ASSUME NEW i \in 1 .. Len(t), Len(a) < i PROVE i - Len(a) \in 1 .. Len(b) /\ t[i] = b[i - Len(a)]
  <2>1. i - Len(a) \in 1 .. Len(b)
    BY <1>1, <1>2, <1>4
  <2> QED BY <1>1, <1>2, <1>4, <2>1
<1>5. \A i \in 1 .. Len(a) : i \in 1 .. Len(t) /\ t[i] = a[i]
  BY <1>1, <1>2, <1>3
<1>6. ASSUME NEW i \in 1 .. Len(b) PROVE Len(a) + i \in 1 .. Len(t) /\ t[Len(a) + i] = b[i]
  <2>1. Len(a) + i \in 1 .. Len(t) /\ Len(a) < Len(a) + i /\ (Len(a) + i) - Len(a) = i
    BY <1>1, <1>2
  <2>2. t[Len(a) + i] = b[(Len(a) + i) - Len(a)]
    BY <1>4, <2>1
  <2> QED BY <2>1, <2>2
<1> QED BY <1>2, <1>3, <1>4, <1>5, <1>6 DEF Chained

\* A part of a sequence.
LEMMA PartIs ==
  ASSUME NEW s \in Seq(Entries), NEW i \in 1 .. (Len(s) + 1), NEW j \in (i - 1) .. Len(s),
         NEW t, t = SubSeq(s, i, j)
  PROVE  Part(t, s, i, j)
<1>1. Len(s) \in Nat /\ i \in Nat /\ j \in Nat
  <2>1. Len(s) \in Nat
    OBVIOUS
  <2> QED BY <2>1
<1>2. Len(t) = j - i + 1
  BY <1>1
<1>3. \A n \in 1 .. (j - i + 1) : t[n] = s[(i - 1) + n]
  BY <1>1
<1>4. \A n \in 1 .. (j - i + 1) : (i - 1) + n \in 1 .. Len(s)
  BY <1>1
<1>5. t \in Seq(Entries)
  <2>1. \A n \in i .. j : s[n] \in Entries
    BY <1>1
  <2> QED BY <1>1, <2>1
<1> QED BY <1>2, <1>3, <1>4, <1>5 DEF Part

\* Two parts of a sequence, put together again, are the sequence.
LEMMA PartsJoin ==
  ASSUME NEW s \in Seq(Entries), NEW p \in 1 .. (Len(s) + 1), NEW a, NEW b,
         Part(a, s, 1, p - 1), Part(b, s, p, Len(s))
  PROVE  Chained(s, a, b)
<1>1. Len(s) \in Nat /\ p \in Nat /\ Len(a) = p - 1 /\ Len(b) = Len(s) - p + 1
  BY DEF Part
<1>2. Len(s) = Len(a) + Len(b)
  BY <1>1
<1>3. ASSUME NEW i \in 1 .. Len(a) PROVE i \in 1 .. Len(s) /\ s[i] = a[i]
  <2>1. a[i] = s[(1 - 1) + i]
    BY DEF Part
  <2>2. (1 - 1) + i = i /\ i \in 1 .. Len(s)
    BY <1>1
  <2> QED BY <2>1, <2>2
<1>4. ASSUME NEW i \in 1 .. Len(b) PROVE Len(a) + i \in 1 .. Len(s) /\ s[Len(a) + i] = b[i]
  <2>1. b[i] = s[(p - 1) + i]
    BY DEF Part
  <2>2. (p - 1) + i = Len(a) + i /\ Len(a) + i \in 1 .. Len(s)
    BY <1>1
  <2> QED BY <2>1, <2>2
<1>5. ASSUME NEW i \in 1 .. Len(s), i <= Len(a) PROVE i \in 1 .. Len(a) /\ s[i] = a[i]
  <2>1. i \in 1 .. Len(a)
    BY <1>1, <1>5
  <2> QED BY <1>3, <2>1
<1>6. ASSUME NEW i \in 1 .. Len(s), Len(a) < i PROVE i - Len(a) \in 1 .. Len(b) /\ s[i] = b[i - Len(a)]
  <2>1. i - Len(a) \in 1 .. Len(b) /\ Len(a) + (i - Len(a)) = i
    BY <1>1, <1>6
  <2>2. s[Len(a) + (i - Len(a))] = b[i - Len(a)]
    BY <1>4, <2>1
  <2> QED BY <2>1, <2>2
<1> QED BY <1>2, <1>3, <1>4, <1>5, <1>6 DEF Chained

\* InsertAt opens a sequence.
LEMMA InsertOpens ==
  ASSUME NEW s \in Seq(Entries), NEW p \in 1 .. (Len(s) + 1), NEW x \in Entries, NEW t, t = InsertAt(s, p, x)
  PROVE  WithEntry(t, s, p, x)
<1>1. PICK a, b, c, d : a = SubSeq(s, 1, p - 1) /\ b = SubSeq(s, p, Len(s)) /\ c = <<x>> /\ d = a \o c
  OBVIOUS
<1>2. t = d \o b
  BY <1>1 DEF InsertAt
<1>3. Len(s) \in Nat /\ p \in Nat /\ 1 \in 1 .. (Len(s) + 1) /\ p - 1 \in (1 - 1) .. Len(s) /\ Len(s) \in (p - 1) .. Len(s)
  <2>1. Len(s) \in Nat
    OBVIOUS
  <2> QED BY <2>1
<1>4. Part(a, s, 1, p - 1)
  BY <1>1, <1>3, PartIs
<1>5. Part(b, s, p, Len(s))
  BY <1>1, <1>3, PartIs
<1>6. Chained(s, a, b)
  BY <1>4, <1>5, PartsJoin
<1>7. a \in Seq(Entries) /\ b \in Seq(Entries) /\ c \in Seq(Entries) /\ Len(c) = 1 /\ c[1] = x
  BY <1>1, <1>4, <1>5 DEF Part
<1>8. Chained(d, a, c)
  BY <1>1, <1>7, JoinedIs
<1>9. d \in Seq(Entries)
  BY <1>8 DEF Chained
<1>10. Chained(t, d, b)
  BY <1>2, <1>7, <1>9, JoinedIs
<1>11. Len(a) = p - 1 /\ Len(d) = p /\ Len(t) = Len(s) + 1 /\ Len(b) = Len(s) - p + 1
  <2>1. Len(a) = (p - 1) - 1 + 1 /\ Len(b) = Len(s) - p + 1
    BY <1>4, <1>5 DEF Part
  <2>2. Len(d) = Len(a) + Len(c) /\ Len(t) = Len(d) + Len(b)
    BY <1>8, <1>10 DEF Chained
  <2> QED BY <1>3, <1>7, <2>1, <2>2
<1>12. t[p] = x
  <2>1. p \in 1 .. Len(d) /\ 1 \in 1 .. Len(c) /\ Len(a) + 1 = p
    BY <1>3, <1>7, <1>11
  <2>2. t[p] = d[p]
    BY <1>10, <2>1 DEF Chained
  <2>3. d[Len(a) + 1] = c[1]
    BY <1>8, <2>1 DEF Chained
  <2> QED BY <1>7, <2>1, <2>2, <2>3
<1>13. ASSUME NEW i \in 1 .. Len(t), i < p PROVE i \in 1 .. Len(s) /\ t[i] = s[i]
  <2>1. i \in 1 .. Len(d) /\ i \in 1 .. Len(a)
    BY <1>3, <1>11, <1>13
  <2>2. t[i] = d[i]
    BY <1>10, <2>1 DEF Chained
  <2>3. d[i] = a[i]
    BY <1>8, <2>1 DEF Chained
  <2>4. i \in 1 .. Len(s) /\ s[i] = a[i]
    BY <1>6, <2>1 DEF Chained
  <2> QED BY <2>2, <2>3, <2>4
<1>14. ASSUME NEW i \in 1 .. Len(s), p <= i PROVE i + 1 \in 1 .. Len(t) /\ t[i + 1] = s[i]
  <2>1. PICK n \in 1 .. Len(b) : n = i - (p - 1)
    BY <1>3, <1>11, <1>14
  <2>2. Len(a) + n = i /\ Len(d) + n = i + 1
    BY <1>3, <1>11, <2>1
  <2>3. s[Len(a) + n] = b[n]
    BY <1>6 DEF Chained
  <2>4. Len(d) + n \in 1 .. Len(t) /\ t[Len(d) + n] = b[n]
    BY <1>10 DEF Chained
  <2> QED BY <2>2, <2>3, <2>4
<1>15. ASSUME NEW i \in 1 .. Len(t), p < i
       PROVE  i - 1 \in p .. Len(s) /\ i - 1 \in 1 .. Len(s) /\ t[i] = s[i - 1]
  <2>1. i - 1 \in p .. Len(s) /\ i - 1 \in 1 .. Len(s) /\ p <= i - 1 /\ (i - 1) + 1 = i
    BY <1>3, <1>11, <1>15
  <2>2. t[(i - 1) + 1] = s[i - 1]
    BY <1>14, <2>1
  <2> QED BY <2>1, <2>2
<1>16. t \in Seq(Entries)
  BY <1>10 DEF Chained
<1> QED BY <1>11, <1>12, <1>13, <1>14, <1>15, <1>16 DEF WithEntry

\* A set of natural numbers has a least one.
LEMMA LeastIs ==
  ASSUME NEW S \in SUBSET Nat, S # {}
  PROVE  Min(S) \in S /\ \A y \in S : Min(S) <= y
<1> DEFINE R == {p \in Nat \X Nat : p[1] < p[2]}
<1>1. PICK x \in S : \A y \in S : ~(<<y, x>> \in R)
  <2>1. IsWellFoundedOn(R, Nat)
    <3>1. IsWellFoundedOn(OpToRel(<, Nat), Nat)
      BY NatLessThanWellFounded
    <3>2. OpToRel(<, Nat) = R
      BY DEF OpToRel
    <3> QED BY <3>1, <3>2
  <2> HIDE DEF R
  <2> QED BY <2>1, WFMin
<1>2. \A y \in S : x <= y
  <2> SUFFICES ASSUME NEW y \in S PROVE x <= y
    OBVIOUS
  <2>1. x \in Nat /\ y \in Nat
    OBVIOUS
  <2>2. <<y, x>> \in R \/ ~(y < x)
    BY <2>1
  <2> QED BY <1>1, <2>1, <2>2
<1> QED BY <1>2 DEF Min

\* The first n keys of s up to p are less than k and the one at p is not, or they
\* are not greater and the one at p is.
Lower(s, n, k, p) ==
  p \in 1 .. (n + 1) /\ (\A i \in 1 .. (p - 1) : s[i][1] < k) /\ (p <= n => k <= s[p][1])
Upper(s, n, k, p) ==
  p \in 1 .. (n + 1) /\ (\A i \in 1 .. (p - 1) : s[i][1] <= k) /\ (p <= n => k < s[p][1])

\* std::lower_bound, whether or not what it searches is sorted.
LEMMA LowerIs ==
  ASSUME NEW s \in Seq(Entries), NEW n \in 0 .. Len(s), NEW k \in Nat, NEW p, p = LowerIn(s, n, k)
  PROVE  Lower(s, n, k, p)
<1> DEFINE S == {i \in 1 .. n : s[i][1] >= k} \cup {n + 1}
<1>1. Len(s) \in Nat /\ n \in Nat /\ \A i \in 1 .. n : s[i][1] \in Nat
  <2>1. Len(s) \in Nat /\ \A i \in 1 .. Len(s) : s[i][1] \in Nat
    BY EntryAt
  <2> QED BY <2>1
<1>2. S \in SUBSET Nat /\ S # {}
  BY <1>1
<1>3. p \in S /\ \A y \in S : p <= y
  <2>1. p = Min(S)
    BY DEF LowerIn
  <2> HIDE DEF S
  <2> QED BY <1>2, <2>1, LeastIs
<1>4. p \in 1 .. (n + 1)
  BY <1>1, <1>3
<1>5. ASSUME NEW i \in 1 .. (p - 1) PROVE s[i][1] < k
  <2>1. i \in 1 .. n /\ ~(p <= i)
    BY <1>1, <1>4
  <2>2. i \notin S
    BY <1>3, <2>1
  <2>3. ~(s[i][1] >= k) /\ s[i][1] \in Nat
    BY <1>1, <2>1, <2>2
  <2> QED BY <2>3
<1>6. p <= n => k <= s[p][1]
  <2> SUFFICES ASSUME p <= n PROVE k <= s[p][1]
    OBVIOUS
  <2>1. p \in 1 .. n /\ s[p][1] >= k
    BY <1>1, <1>3
  <2> QED BY <1>1, <2>1
<1> QED BY <1>4, <1>5, <1>6 DEF Lower

\* std::upper_bound.
LEMMA UpperIs ==
  ASSUME NEW s \in Seq(Entries), NEW n \in 0 .. Len(s), NEW k \in Nat, NEW p, p = UpperIn(s, n, k)
  PROVE  Upper(s, n, k, p)
<1> DEFINE S == {i \in 1 .. n : s[i][1] > k} \cup {n + 1}
<1>1. Len(s) \in Nat /\ n \in Nat /\ \A i \in 1 .. n : s[i][1] \in Nat
  <2>1. Len(s) \in Nat /\ \A i \in 1 .. Len(s) : s[i][1] \in Nat
    BY EntryAt
  <2> QED BY <2>1
<1>2. S \in SUBSET Nat /\ S # {}
  BY <1>1
<1>3. p \in S /\ \A y \in S : p <= y
  <2>1. p = Min(S)
    BY DEF UpperIn
  <2> HIDE DEF S
  <2> QED BY <1>2, <2>1, LeastIs
<1>4. p \in 1 .. (n + 1)
  BY <1>1, <1>3
<1>5. ASSUME NEW i \in 1 .. (p - 1) PROVE s[i][1] <= k
  <2>1. i \in 1 .. n /\ ~(p <= i)
    BY <1>1, <1>4
  <2>2. i \notin S
    BY <1>3, <2>1
  <2>3. ~(s[i][1] > k) /\ s[i][1] \in Nat
    BY <1>1, <2>1, <2>2
  <2> QED BY <2>3
<1>6. p <= n => k < s[p][1]
  <2> SUFFICES ASSUME p <= n PROVE k < s[p][1]
    OBVIOUS
  <2>1. p \in 1 .. n /\ s[p][1] > k
    BY <1>1, <1>3
  <2> QED BY <1>1, <2>1
<1> QED BY <1>4, <1>5, <1>6 DEF Upper

\* Among sorted keys the position that UpperIn finds is behind the keys that are
\* not greater.
LEMMA UpperBehind ==
  ASSUME NEW s, NonDecreasing(s), NEW k \in Nat, NEW p, Upper(s, Len(s), k, p)
  PROVE  NotBefore(s, p, k) /\ AbsentFrom(s, p, k) /\ p \in 1 .. (Len(s) + 1)
<1>1. s \in Seq(Entries) /\ Len(s) \in Nat
  BY DEF NonDecreasing
<1>2. \A i \in 1 .. Len(s) : s[i][1] \in Nat
  BY <1>1, EntryAt
<1>3. p \in 1 .. (Len(s) + 1) /\ p \in Nat
  BY <1>1 DEF Upper
<1>4. ASSUME NEW i \in p .. Len(s) PROVE k < s[i][1]
  <2>1. i \in 1 .. Len(s) /\ p \in 1 .. Len(s) /\ p <= Len(s)
    BY <1>1, <1>3
  <2>2. k < s[p][1]
    BY <2>1 DEF Upper
  <2>3. s[p][1] <= s[i][1]
    <3>1. CASE i = p
      BY <1>2, <2>1, <3>1
    <3>2. CASE i # p
      <4>1. p \in 1 .. (i - 1)
        BY <1>1, <1>3, <3>2
      <4> QED BY <2>1, <4>1 DEF NonDecreasing
    <3> QED BY <3>1, <3>2
  <2>4. s[p][1] \in Nat /\ s[i][1] \in Nat
    BY <1>2, <2>1
  <2> QED BY <2>2, <2>3, <2>4
<1>5. \A i \in p .. Len(s) : s[i][1] # k
  <2> SUFFICES ASSUME NEW i \in p .. Len(s) PROVE s[i][1] # k
    OBVIOUS
  <2>1. k < s[i][1]
    BY <1>4
  <2> QED BY <2>1
<1> QED BY <1>3, <1>4, <1>5 DEF Upper, NotBefore, AbsentFrom

\* Insertion in the order of the keys, behind equal ones.
LEMMA SortedFirsts ==
  ASSUME NEW s, NEW f, Firsts(s, f), NonDecreasing(s), NEW x \in Entries, NEW t, t = Sorted(s, x),
         NEW g, g = Map!Add(f, x)
  PROVE  Firsts(t, g) /\ NonDecreasing(t)
<1>1. s \in Seq(Entries) /\ Len(s) \in Nat /\ Len(s) \in 0 .. Len(s)
  <2>1. s \in Seq(Entries)
    BY DEF NonDecreasing
  <2>2. Len(s) \in Nat
    BY <2>1
  <2> QED BY <2>1, <2>2
<1>2. PICK k \in Nat : k = x[1]
  BY EntryIs
<1>3. PICK p : p = UpperIn(s, Len(s), k)
  OBVIOUS
<1>4. Upper(s, Len(s), k, p)
  BY <1>1, <1>3, UpperIs
<1>5. NotBefore(s, p, k) /\ AbsentFrom(s, p, k) /\ p \in 1 .. (Len(s) + 1)
  BY <1>4, UpperBehind
<1>6. t = InsertAt(s, p, x)
  BY <1>2, <1>3 DEF Sorted
<1>7. WithEntry(t, s, p, x)
  BY <1>1, <1>5, <1>6, InsertOpens
<1>8. Firsts(t, g)
  BY <1>2, <1>5, <1>7, FirstsOpened
<1>9. NonDecreasing(t)
  BY <1>2, <1>5, <1>7, NonDecreasingOpened
<1> QED BY <1>8, <1>9

\* The same where the key is new to increasing ones.
LEMMA SortedIncreasing ==
  ASSUME NEW s, NEW f, Firsts(s, f), Increasing(s), NEW x \in Entries, NEW t, t = Sorted(s, x),
         NEW k, k = x[1], k \notin DOMAIN f
  PROVE  Increasing(t)
<1>1. s \in Seq(Entries) /\ Len(s) \in Nat /\ Len(s) \in 0 .. Len(s)
  <2>1. s \in Seq(Entries)
    BY DEF Increasing
  <2>2. Len(s) \in Nat
    BY <2>1
  <2> QED BY <2>1, <2>2
<1>2. k \in Nat /\ \A i \in 1 .. Len(s) : s[i][1] \in Nat
  BY <1>1, EntryIs, EntryAt
<1>3. PICK p : p = UpperIn(s, Len(s), k)
  OBVIOUS
<1>4. Upper(s, Len(s), k, p)
  BY <1>1, <1>2, <1>3, UpperIs
<1>5. NonDecreasing(s)
  BY IncreasingSorted
<1>6. NotBefore(s, p, k) /\ p \in 1 .. (Len(s) + 1)
  BY <1>2, <1>4, <1>5, UpperBehind
<1>7. WithEntry(t, s, p, x)
  <2>1. t = InsertAt(s, p, x)
    BY <1>3 DEF Sorted
  <2> QED BY <1>1, <1>6, <2>1, InsertOpens
<1>8. Between(s, p, k)
  <2>1. ASSUME NEW i \in 1 .. (p - 1) PROVE s[i][1] < k
    <3>1. i \in 1 .. Len(s)
      BY <1>1, <1>6
    <3>2. s[i][1] <= k
      BY <1>6 DEF NotBefore
    <3>3. s[i][1] \in DOMAIN f
      BY <3>1 DEF Firsts
    <3> QED BY <1>2, <3>1, <3>2, <3>3
  <2> QED BY <1>6, <2>1 DEF NotBefore, Between
<1> QED BY <1>6, <1>7, <1>8, IncreasingOpened

\* What is inserted in order stays a sequence of elements.
LEMMA SortedType ==
  ASSUME NEW s \in Seq(Entries), NEW x \in Entries
  PROVE  Sorted(s, x) \in Seq(Entries)
<1>1. PICK p : p = UpperIn(s, Len(s), x[1])
  OBVIOUS
<1>2. Len(s) \in 0 .. Len(s) /\ x[1] \in Nat
  <2>1. Len(s) \in Nat
    OBVIOUS
  <2> QED BY <2>1, EntryIs
<1>3. Upper(s, Len(s), x[1], p)
  BY <1>1, <1>2, UpperIs
<1>4. p \in 1 .. (Len(s) + 1)
  BY <1>3 DEF Upper
<1>5. PICK t : t = Sorted(s, x)
  OBVIOUS
<1>6. t = InsertAt(s, p, x)
  BY <1>1, <1>5 DEF Sorted
<1>7. WithEntry(t, s, p, x)
  BY <1>4, <1>6, InsertOpens
<1> QED BY <1>5, <1>7 DEF WithEntry

\* The sequences that Merged passes through.
MergedRun(g, m, t, xs, r) ==
  /\ g[0] = t /\ g[m] = r
  /\ \A k \in 1 .. m : g[k] = Sorted(g[k - 1], xs[k])

\* Merged inserts one element after the other.
LEMMA MergedFold ==
  ASSUME NEW m \in Nat, NEW t \in Seq(Entries), NEW xs \in Seq(Entries), m = Len(xs), NEW r, r = Merged(t, xs)
  PROVE  \E g : MergedRun(g, m, t, xs, r)
<1> DEFINE S == Seq(Entries)
           seq == xs
           F == [p \in S \X (1 .. m) |-> Sorted(p[1], xs[p[2]])]
<1>0. DOMAIN seq = 1 .. m
  OBVIOUS
<1>s. \A k \in 1 .. m : seq[k] = xs[k] /\ xs[k] \in Entries
  OBVIOUS
<1>1. t \in S /\ \A x \in S, k \in 1 .. m : Sorted(x, xs[k]) \in S
  <2> HIDE DEF seq
  <2> QED BY <1>s, SortedType
<1>2. F \in [S \X (1 .. m) -> S] /\ \A x \in S, k \in 1 .. m : F[<<x, k>>] = Sorted(x, xs[k])
  <2> HIDE DEF S, seq
  <2> QED BY <1>1
<1>3. PICK f \in [SUBSET (1 .. m) -> S] : Solves(f, m, t, F)
  <2> HIDE DEF S, F, seq
  <2> QED BY <1>0, <1>1, <1>2, FoldSolution
<1>4. f = [s \in SUBSET DOMAIN seq |->
             IF s = {} THEN t ELSE Sorted(f[s \ {Max(s)}], seq[Max(s)])]
  <2>1. ASSUME NEW s \in SUBSET (1 .. m), s # {}
        PROVE  f[s] = Sorted(f[s \ {Max(s)}], seq[Max(s)])
    <3>1. Max(s) \in 1 .. m /\ f[s \ {Max(s)}] \in S /\ f[s] = F[<<f[s \ {Max(s)}], Max(s)>>]
      BY <1>3, <2>1 DEF Solves
    <3>2. f[s] = Sorted(f[s \ {Max(s)}], xs[Max(s)])
      <4> HIDE DEF S, F, seq
      <4> QED BY <1>2, <3>1
    <3>3. seq[Max(s)] = xs[Max(s)]
      <4> HIDE DEF S, F, seq
      <4> QED BY <1>s, <3>1
    <3> HIDE DEF seq
    <3> QED BY <3>2, <3>3
  <2>2. f[{}] = t
    BY <1>3 DEF Solves
  <2> HIDE DEF S, F, seq
  <2> QED BY <1>0, <1>3, <2>1, <2>2
<1>5. PICK h : /\ Merged(t, xs) = h[1 .. m]
               /\ h = [s \in SUBSET (1 .. m) |->
                        IF s = {} THEN t ELSE Sorted(h[s \ {Max(s)}], seq[Max(s)])]
  <2>1. PICK h : h = CHOOSE z : z = [s \in SUBSET DOMAIN seq |->
             IF s = {} THEN t ELSE Sorted(z[s \ {Max(s)}], seq[Max(s)])]
    OBVIOUS
  <2>2. h = [s \in SUBSET DOMAIN seq |->
             IF s = {} THEN t ELSE Sorted(h[s \ {Max(s)}], seq[Max(s)])]
    <3> HIDE DEF seq
    <3> QED BY <1>4, <2>1
  <2>3. Merged(t, xs) = h[DOMAIN seq]
    BY <2>1 DEF Merged, FoldLeft, MapThenFoldSet
  <2> HIDE DEF seq
  <2> QED BY <1>0, <2>2, <2>3, ZenonT(40)
<1> HIDE DEF seq, F, S
<1>6. h[{}] = t /\ {} = 1 .. 0
  <2>1. {} \in SUBSET (1 .. m) /\ {} = 1 .. 0
    BY UpTo
  <2> QED BY <1>5, <2>1
<1>7. ASSUME NEW k \in 1 .. m PROVE h[1 .. k] = Sorted(h[1 .. (k - 1)], xs[k])
  <2>1. 1 .. k \in SUBSET (1 .. m) /\ 1 .. k # {} /\ (1 .. k) \ {k} = 1 .. (k - 1)
    BY UpTo
  <2>2. Max(1 .. k) = k
    BY UpTo
  <2>3. seq[k] = xs[k]
    BY <1>s
  <2>4. h[1 .. k] = Sorted(h[1 .. (k - 1)], seq[k])
    BY <1>5, <2>1, <2>2
  <2> QED BY <2>3, <2>4
<1> DEFINE g == [k \in 0 .. m |-> h[1 .. k]]
<1>8. g[0] = t /\ g[m] = Merged(t, xs)
  <2>1. 0 \in 0 .. m /\ m \in 0 .. m
    BY UpTo
  <2> QED BY <1>5, <1>6, <2>1
<1>9. ASSUME NEW k \in 1 .. m PROVE g[k] = Sorted(g[k - 1], xs[k])
  <2>1. k \in 0 .. m /\ k - 1 \in 0 .. m
    OBVIOUS
  <2> QED BY <1>7, <2>1
<1> HIDE DEF g
<1>10. MergedRun(g, m, t, xs, r)
  BY <1>8, <1>9 DEF MergedRun
<1> QED BY <1>10

\* The sequences that Unique passes through.
UniqueRun(g, m, xs, r) ==
  /\ g[0] = <<>> /\ g[m] = r
  /\ \A k \in 1 .. m : g[k] = KeepGreater(g[k - 1], xs[k])

\* Unique looks at one element after the other.
LEMMA UniqueFold ==
  ASSUME NEW m \in Nat, NEW xs \in Seq(Entries), m = Len(xs), NEW r, r = Unique(xs)
  PROVE  \E g : UniqueRun(g, m, xs, r)
<1> DEFINE S == Seq(Entries)
           seq == xs
           F == [p \in S \X (1 .. m) |-> KeepGreater(p[1], xs[p[2]])]
<1>0. DOMAIN seq = 1 .. m
  OBVIOUS
<1>s. \A k \in 1 .. m : seq[k] = xs[k] /\ xs[k] \in Entries
  OBVIOUS
<1>1. <<>> \in S /\ \A x \in S, k \in 1 .. m : KeepGreater(x, xs[k]) \in S
  <2> HIDE DEF seq
  <2> QED BY <1>s DEF KeepGreater
<1>2. F \in [S \X (1 .. m) -> S] /\ \A x \in S, k \in 1 .. m : F[<<x, k>>] = KeepGreater(x, xs[k])
  <2> HIDE DEF S, seq
  <2> QED BY <1>1
<1>3. PICK f \in [SUBSET (1 .. m) -> S] : Solves(f, m, <<>>, F)
  <2> HIDE DEF S, F, seq
  <2> QED BY <1>0, <1>1, <1>2, FoldSolution
<1>4. f = [s \in SUBSET DOMAIN seq |->
             IF s = {} THEN <<>> ELSE KeepGreater(f[s \ {Max(s)}], seq[Max(s)])]
  <2>1. ASSUME NEW s \in SUBSET (1 .. m), s # {}
        PROVE  f[s] = KeepGreater(f[s \ {Max(s)}], seq[Max(s)])
    <3>1. Max(s) \in 1 .. m /\ f[s \ {Max(s)}] \in S /\ f[s] = F[<<f[s \ {Max(s)}], Max(s)>>]
      BY <1>3, <2>1 DEF Solves
    <3>2. f[s] = KeepGreater(f[s \ {Max(s)}], xs[Max(s)])
      <4> HIDE DEF S, F, seq
      <4> QED BY <1>2, <3>1
    <3>3. seq[Max(s)] = xs[Max(s)]
      <4> HIDE DEF S, F, seq
      <4> QED BY <1>s, <3>1
    <3> HIDE DEF seq
    <3> QED BY <3>2, <3>3
  <2>2. f[{}] = <<>>
    BY <1>3 DEF Solves
  <2> HIDE DEF S, F, seq
  <2> QED BY <1>0, <1>3, <2>1, <2>2
<1>5. PICK h : /\ Unique(xs) = h[1 .. m]
               /\ h = [s \in SUBSET (1 .. m) |->
                        IF s = {} THEN <<>> ELSE KeepGreater(h[s \ {Max(s)}], seq[Max(s)])]
  <2>1. PICK h : h = CHOOSE z : z = [s \in SUBSET DOMAIN seq |->
             IF s = {} THEN <<>> ELSE KeepGreater(z[s \ {Max(s)}], seq[Max(s)])]
    OBVIOUS
  <2>2. h = [s \in SUBSET DOMAIN seq |->
             IF s = {} THEN <<>> ELSE KeepGreater(h[s \ {Max(s)}], seq[Max(s)])]
    <3> HIDE DEF seq
    <3> QED BY <1>4, <2>1
  <2>3. Unique(xs) = h[DOMAIN seq]
    BY <2>1 DEF Unique, FoldLeft, MapThenFoldSet
  <2> HIDE DEF seq
  <2> QED BY <1>0, <2>2, <2>3, ZenonT(40)
<1> HIDE DEF seq, F, S
<1>6. h[{}] = <<>> /\ {} = 1 .. 0
  <2>1. {} \in SUBSET (1 .. m) /\ {} = 1 .. 0
    BY UpTo
  <2> QED BY <1>5, <2>1
<1>7. ASSUME NEW k \in 1 .. m PROVE h[1 .. k] = KeepGreater(h[1 .. (k - 1)], xs[k])
  <2>1. 1 .. k \in SUBSET (1 .. m) /\ 1 .. k # {} /\ (1 .. k) \ {k} = 1 .. (k - 1)
    BY UpTo
  <2>2. Max(1 .. k) = k
    BY UpTo
  <2>3. seq[k] = xs[k]
    BY <1>s
  <2>4. h[1 .. k] = KeepGreater(h[1 .. (k - 1)], seq[k])
    BY <1>5, <2>1, <2>2
  <2> QED BY <2>3, <2>4
<1> DEFINE g == [k \in 0 .. m |-> h[1 .. k]]
<1>8. g[0] = <<>> /\ g[m] = Unique(xs)
  <2>1. 0 \in 0 .. m /\ m \in 0 .. m
    BY UpTo
  <2> QED BY <1>5, <1>6, <2>1
<1>9. ASSUME NEW k \in 1 .. m PROVE g[k] = KeepGreater(g[k - 1], xs[k])
  <2>1. k \in 0 .. m /\ k - 1 \in 0 .. m
    OBVIOUS
  <2> QED BY <1>7, <2>1
<1> HIDE DEF g
<1>10. UniqueRun(g, m, xs, r)
  BY <1>8, <1>9 DEF UniqueRun
<1> QED BY <1>10

\* The sequences that WithoutValue passes through.
WithoutValueRun(g, m, xs, v, r) ==
  /\ g[0] = <<>> /\ g[m] = r
  /\ \A k \in 1 .. m : g[k] = (IF xs[k][2] = v THEN g[k - 1] ELSE Append(g[k - 1], xs[k]))

\* WithoutValue looks at one element after the other.
LEMMA WithoutValueFold ==
  ASSUME NEW m \in Nat, NEW xs \in Seq(Entries), NEW v, m = Len(xs), NEW r, r = WithoutValue(xs, v)
  PROVE  \E g : WithoutValueRun(g, m, xs, v, r)
<1> DEFINE S == Seq(Entries)
           seq == xs
           F == [p \in S \X (1 .. m) |-> (IF xs[p[2]][2] = v THEN p[1] ELSE Append(p[1], xs[p[2]]))]
<1>0. DOMAIN seq = 1 .. m
  OBVIOUS
<1>s. \A k \in 1 .. m : seq[k] = xs[k] /\ xs[k] \in Entries
  OBVIOUS
<1>1. <<>> \in S /\ \A x \in S, k \in 1 .. m : (IF xs[k][2] = v THEN x ELSE Append(x, xs[k])) \in S
  <2> HIDE DEF seq
  <2> QED BY <1>s
<1>2. F \in [S \X (1 .. m) -> S] /\ \A x \in S, k \in 1 .. m : F[<<x, k>>] = (IF xs[k][2] = v THEN x ELSE Append(x, xs[k]))
  <2> HIDE DEF S, seq
  <2> QED BY <1>1
<1>3. PICK f \in [SUBSET (1 .. m) -> S] : Solves(f, m, <<>>, F)
  <2> HIDE DEF S, F, seq
  <2> QED BY <1>0, <1>1, <1>2, FoldSolution
<1>4. f = [s \in SUBSET DOMAIN seq |->
             IF s = {} THEN <<>> ELSE (IF seq[Max(s)][2] = v THEN f[s \ {Max(s)}] ELSE Append(f[s \ {Max(s)}], seq[Max(s)]))]
  <2>1. ASSUME NEW s \in SUBSET (1 .. m), s # {}
        PROVE  f[s] = (IF seq[Max(s)][2] = v THEN f[s \ {Max(s)}] ELSE Append(f[s \ {Max(s)}], seq[Max(s)]))
    <3>1. Max(s) \in 1 .. m /\ f[s \ {Max(s)}] \in S /\ f[s] = F[<<f[s \ {Max(s)}], Max(s)>>]
      BY <1>3, <2>1 DEF Solves
    <3>2. f[s] = (IF xs[Max(s)][2] = v THEN f[s \ {Max(s)}] ELSE Append(f[s \ {Max(s)}], xs[Max(s)]))
      <4> HIDE DEF S, F, seq
      <4> QED BY <1>2, <3>1
    <3>3. seq[Max(s)] = xs[Max(s)]
      <4> HIDE DEF S, F, seq
      <4> QED BY <1>s, <3>1
    <3> HIDE DEF seq
    <3> QED BY <3>2, <3>3
  <2>2. f[{}] = <<>>
    BY <1>3 DEF Solves
  <2> HIDE DEF S, F, seq
  <2> QED BY <1>0, <1>3, <2>1, <2>2
<1>5. PICK h : /\ WithoutValue(xs, v) = h[1 .. m]
               /\ h = [s \in SUBSET (1 .. m) |->
                        IF s = {} THEN <<>> ELSE (IF seq[Max(s)][2] = v THEN h[s \ {Max(s)}] ELSE Append(h[s \ {Max(s)}], seq[Max(s)]))]
  <2>1. PICK h : h = CHOOSE z : z = [s \in SUBSET DOMAIN seq |->
             IF s = {} THEN <<>> ELSE (IF seq[Max(s)][2] = v THEN z[s \ {Max(s)}] ELSE Append(z[s \ {Max(s)}], seq[Max(s)]))]
    OBVIOUS
  <2>2. h = [s \in SUBSET DOMAIN seq |->
             IF s = {} THEN <<>> ELSE (IF seq[Max(s)][2] = v THEN h[s \ {Max(s)}] ELSE Append(h[s \ {Max(s)}], seq[Max(s)]))]
    <3> HIDE DEF seq
    <3> QED BY <1>4, <2>1
  <2>3. WithoutValue(xs, v) = h[DOMAIN seq]
    BY <2>1 DEF WithoutValue, FoldLeft, MapThenFoldSet
  <2> HIDE DEF seq
  <2> QED BY <1>0, <2>2, <2>3, ZenonT(40)
<1> HIDE DEF seq, F, S
<1>6. h[{}] = <<>> /\ {} = 1 .. 0
  <2>1. {} \in SUBSET (1 .. m) /\ {} = 1 .. 0
    BY UpTo
  <2> QED BY <1>5, <2>1
<1>7. ASSUME NEW k \in 1 .. m PROVE h[1 .. k] = (IF xs[k][2] = v THEN h[1 .. (k - 1)] ELSE Append(h[1 .. (k - 1)], xs[k]))
  <2>1. 1 .. k \in SUBSET (1 .. m) /\ 1 .. k # {} /\ (1 .. k) \ {k} = 1 .. (k - 1)
    BY UpTo
  <2>2. Max(1 .. k) = k
    BY UpTo
  <2>3. seq[k] = xs[k]
    BY <1>s
  <2>4. h[1 .. k] = (IF seq[k][2] = v THEN h[1 .. (k - 1)] ELSE Append(h[1 .. (k - 1)], seq[k]))
    <3>1. PICK s : s = 1 .. k
      OBVIOUS
    <3>2. s \in SUBSET (1 .. m) /\ s # {} /\ s \ {k} = 1 .. (k - 1) /\ Max(s) = k
      BY <2>1, <2>2, <3>1
    <3>3. h[s] = (IF seq[Max(s)][2] = v THEN h[s \ {Max(s)}] ELSE Append(h[s \ {Max(s)}], seq[Max(s)]))
      BY ONLY <1>5, <3>2
    <3> QED BY ONLY <3>1, <3>2, <3>3
  <2>5. CASE xs[k][2] = v
    <3>1. seq[k][2] = v
      BY ONLY <2>3, <2>5
    <3>2. h[1 .. k] = h[1 .. (k - 1)]
      BY ONLY <2>4, <3>1
    <3> QED BY ONLY <2>5, <3>2
  <2>6. CASE ~(xs[k][2] = v)
    <3>1. ~(seq[k][2] = v)
      BY ONLY <2>3, <2>6
    <3>2. h[1 .. k] = Append(h[1 .. (k - 1)], seq[k])
      BY ONLY <2>4, <3>1
    <3>3. h[1 .. k] = Append(h[1 .. (k - 1)], xs[k])
      BY ONLY <2>3, <3>2
    <3> QED BY ONLY <2>6, <3>3
  <2> QED BY ONLY <2>5, <2>6
<1> DEFINE g == [k \in 0 .. m |-> h[1 .. k]]
<1>8. g[0] = <<>> /\ g[m] = WithoutValue(xs, v)
  <2>1. 0 \in 0 .. m /\ m \in 0 .. m
    BY UpTo
  <2> QED BY <1>5, <1>6, <2>1
<1>9. ASSUME NEW k \in 1 .. m PROVE g[k] = (IF xs[k][2] = v THEN g[k - 1] ELSE Append(g[k - 1], xs[k]))
  <2>1. k \in 0 .. m /\ k - 1 \in 0 .. m
    OBVIOUS
  <2> QED BY <1>7, <2>1
<1> HIDE DEF g
<1>10. WithoutValueRun(g, m, xs, v, r)
  BY <1>8, <1>9 DEF WithoutValueRun
<1> QED BY <1>10

\* The maps that AddAll passes through.
AddRun(g, m, e, xs, r) ==
  /\ g[0] = e /\ g[m] = r
  /\ \A k \in 1 .. m : g[k] = Map!Add(g[k - 1], xs[k])

\* AddAll adds one element after the other.
LEMMA AddFold ==
  ASSUME NEW m \in Nat, NEW e \in Maps, NEW xs \in Seq(Entries), m = Len(xs), NEW r, r = Map!AddAll(e, xs)
  PROVE  \E g : AddRun(g, m, e, xs, r)
<1> DEFINE S == Maps
           seq == xs
           F == [p \in S \X (1 .. m) |-> Map!Add(p[1], xs[p[2]])]
<1>0. DOMAIN seq = 1 .. m
  OBVIOUS
<1>s. \A k \in 1 .. m : seq[k] = xs[k] /\ xs[k] \in Entries
  OBVIOUS
<1>1. e \in S /\ \A x \in S, k \in 1 .. m : Map!Add(x, xs[k]) \in S
  <2> HIDE DEF seq
  <2> SUFFICES ASSUME NEW x \in Maps, NEW k \in 1 .. m PROVE Map!Add(x, xs[k]) \in Maps
    OBVIOUS
  <2>1. PICK a, b, c : a = xs[k][1] /\ b = xs[k][2] /\ c = Map!Add(x, xs[k])
    OBVIOUS
  <2>2. AddedTo(c, x, a, b)
    BY <1>s, <2>1, AddIsMap
  <2> QED BY <2>1, <2>2 DEF AddedTo
<1>2. F \in [S \X (1 .. m) -> S] /\ \A x \in S, k \in 1 .. m : F[<<x, k>>] = Map!Add(x, xs[k])
  <2> HIDE DEF S, seq
  <2> QED BY <1>1
<1>3. PICK f \in [SUBSET (1 .. m) -> S] : Solves(f, m, e, F)
  <2> HIDE DEF S, F, seq
  <2> QED BY <1>0, <1>1, <1>2, FoldSolution
<1>4. f = [s \in SUBSET DOMAIN seq |->
             IF s = {} THEN e ELSE Map!Add(f[s \ {Map!Max(s)}], seq[Map!Max(s)])]
  <2>1. ASSUME NEW s \in SUBSET (1 .. m), s # {}
        PROVE  f[s] = Map!Add(f[s \ {Map!Max(s)}], seq[Map!Max(s)])
    <3>0. Map!Max(s) = Max(s)
      BY DEF Map!Max, Max
    <3>1. Max(s) \in 1 .. m /\ f[s \ {Max(s)}] \in S /\ f[s] = F[<<f[s \ {Max(s)}], Max(s)>>]
      BY <1>3, <2>1 DEF Solves
    <3>2. f[s] = Map!Add(f[s \ {Max(s)}], xs[Max(s)])
      <4> HIDE DEF S, F, seq
      <4> QED BY <1>2, <3>1
    <3>3. seq[Max(s)] = xs[Max(s)]
      <4> HIDE DEF S, F, seq
      <4> QED BY <1>s, <3>1
    <3> HIDE DEF seq
    <3> QED BY <3>0, <3>2, <3>3
  <2>2. f[{}] = e
    BY <1>3 DEF Solves
  <2> HIDE DEF S, F, seq
  <2> QED BY <1>0, <1>3, <2>1, <2>2
<1>5. PICK h : /\ Map!AddAll(e, xs) = h[1 .. m]
               /\ h = [s \in SUBSET (1 .. m) |->
                        IF s = {} THEN e ELSE Map!Add(h[s \ {Map!Max(s)}], seq[Map!Max(s)])]
  <2>1. PICK h : h = CHOOSE z : z = [s \in SUBSET DOMAIN seq |->
             IF s = {} THEN e ELSE Map!Add(z[s \ {Map!Max(s)}], seq[Map!Max(s)])]
    OBVIOUS
  <2>2. h = [s \in SUBSET DOMAIN seq |->
             IF s = {} THEN e ELSE Map!Add(h[s \ {Map!Max(s)}], seq[Map!Max(s)])]
    <3> HIDE DEF seq
    <3> QED BY <1>4, <2>1
  <2>3. Map!AddAll(e, xs) = h[DOMAIN seq]
    BY <2>1 DEF Map!AddAll, Map!FoldLeft, Map!MapThenFoldSet
  <2> HIDE DEF seq
  <2> QED BY <1>0, <2>2, <2>3, ZenonT(40)
<1> HIDE DEF seq, F, S
<1>6. h[{}] = e /\ {} = 1 .. 0
  <2>1. {} \in SUBSET (1 .. m) /\ {} = 1 .. 0
    BY UpTo
  <2> QED BY <1>5, <2>1
<1>7. ASSUME NEW k \in 1 .. m PROVE h[1 .. k] = Map!Add(h[1 .. (k - 1)], xs[k])
  <2>1. 1 .. k \in SUBSET (1 .. m) /\ 1 .. k # {} /\ (1 .. k) \ {k} = 1 .. (k - 1)
    BY UpTo
  <2>2. Map!Max(1 .. k) = k
    <3>1. Max(1 .. k) = k
      BY UpTo
    <3> QED BY <3>1 DEF Map!Max, Max
  <2>3. seq[k] = xs[k]
    BY <1>s
  <2>4. h[1 .. k] = Map!Add(h[1 .. (k - 1)], seq[k])
    BY <1>5, <2>1, <2>2
  <2> QED BY <2>3, <2>4
<1> DEFINE g == [k \in 0 .. m |-> h[1 .. k]]
<1>8. g[0] = e /\ g[m] = Map!AddAll(e, xs)
  <2>1. 0 \in 0 .. m /\ m \in 0 .. m
    BY UpTo
  <2> QED BY <1>5, <1>6, <2>1
<1>9. ASSUME NEW k \in 1 .. m PROVE g[k] = Map!Add(g[k - 1], xs[k])
  <2>1. k \in 0 .. m /\ k - 1 \in 0 .. m
    OBVIOUS
  <2> QED BY <1>7, <2>1
<1> HIDE DEF g
<1>10. AddRun(g, m, e, xs, r)
  BY <1>8, <1>9 DEF AddRun
<1> QED BY <1>10

\* The states that the loop of append_unique is in.
Growing(n) == {r \in [body : Seq(Entries), pos : Nat] : n <= Len(r.body)}

\* A turn of the loop stays among them.
LEMMA GrowingType ==
  ASSUME NEW n \in Nat, NEW a \in Growing(n), NEW x \in Entries
  PROVE  append_unique(n, a, x) \in Growing(n)
<1>1. PICK s, q : s = a.body /\ q = a.pos
  OBVIOUS
<1>2. s \in Seq(Entries) /\ q \in Nat /\ n <= Len(s)
  BY <1>1 DEF Growing
<1>3. PICK p : p = LowerIn(s, n, x[1])
  OBVIOUS
<1>4. n \in 0 .. Len(s) /\ x[1] \in Nat
  <2>1. Len(s) \in Nat
    BY <1>2
  <2> QED BY <1>2, <2>1, EntryIs
<1>5. Lower(s, n, x[1], p)
  BY <1>2, <1>3, <1>4, LowerIs
<1>6. p \in Nat
  BY <1>4, <1>5 DEF Lower
<1>7. FirstNew(q, p) \in Nat
  <2>1. {q, p} \in SUBSET Nat /\ {q, p} # {}
    BY <1>2, <1>6
  <2>2. Min({q, p}) \in {q, p}
    BY <2>1, LeastIs
  <2> QED BY <2>1, <2>2 DEF FirstNew
<1>8. Append(s, x) \in Seq(Entries) /\ n <= Len(Append(s, x))
  <2>1. Append(s, x) \in Seq(Entries) /\ Len(Append(s, x)) = Len(s) + 1 /\ Len(s) \in Nat
    BY <1>2
  <2> QED BY <1>2, <2>1
<1>9. PICK c, d : c = Append(s, x) /\ d = FirstNew(q, p)
  OBVIOUS
<1>10. append_unique(n, a, x) = a \/ append_unique(n, a, x) = [body |-> c, pos |-> d]
  BY <1>1, <1>3, <1>9 DEF append_unique
<1>11. [body |-> c, pos |-> d] \in Growing(n)
  BY <1>7, <1>8, <1>9 DEF Growing
<1> QED BY <1>10, <1>11

\* The states that Grown passes through.
GrownRun(g, m, b, xs, r) ==
  /\ g[0] = [body |-> b, pos |-> End(b)] /\ g[m] = r
  /\ \A k \in 1 .. m : g[k] = append_unique(Len(b), g[k - 1], xs[k])

\* Grown takes one element after the other.
LEMMA GrownFold ==
  ASSUME NEW m \in Nat, NEW b \in Seq(Entries), NEW xs \in Seq(Entries), m = Len(xs), NEW r, r = Grown(b, xs)
  PROVE  \E g : GrownRun(g, m, b, xs, r)
<1> DEFINE S == Growing(Len(b))
           seq == xs
           F == [p \in S \X (1 .. m) |-> append_unique(Len(b), p[1], xs[p[2]])]
<1>0. DOMAIN seq = 1 .. m
  OBVIOUS
<1>s. \A k \in 1 .. m : seq[k] = xs[k] /\ xs[k] \in Entries
  OBVIOUS
<1>1. [body |-> b, pos |-> End(b)] \in S /\ \A x \in S, k \in 1 .. m : append_unique(Len(b), x, xs[k]) \in S
  <2> HIDE DEF seq
  <2>1. Len(b) \in Nat /\ End(b) \in Nat
    BY DEF End
  <2>2. [body |-> b, pos |-> End(b)] \in Growing(Len(b))
    BY <2>1 DEF Growing
  <2> QED BY <1>s, <2>1, <2>2, GrowingType
<1>2. F \in [S \X (1 .. m) -> S] /\ \A x \in S, k \in 1 .. m : F[<<x, k>>] = append_unique(Len(b), x, xs[k])
  <2> HIDE DEF S, seq
  <2> QED BY <1>1
<1>3. PICK f \in [SUBSET (1 .. m) -> S] : Solves(f, m, [body |-> b, pos |-> End(b)], F)
  <2> HIDE DEF S, F, seq
  <2> QED BY <1>0, <1>1, <1>2, FoldSolution
<1>4. f = [s \in SUBSET DOMAIN seq |->
             IF s = {} THEN [body |-> b, pos |-> End(b)] ELSE append_unique(Len(b), f[s \ {Max(s)}], seq[Max(s)])]
  <2>1. ASSUME NEW s \in SUBSET (1 .. m), s # {}
        PROVE  f[s] = append_unique(Len(b), f[s \ {Max(s)}], seq[Max(s)])
    <3>1. Max(s) \in 1 .. m /\ f[s \ {Max(s)}] \in S /\ f[s] = F[<<f[s \ {Max(s)}], Max(s)>>]
      BY <1>3, <2>1 DEF Solves
    <3>2. f[s] = append_unique(Len(b), f[s \ {Max(s)}], xs[Max(s)])
      <4> HIDE DEF S, F, seq
      <4> QED BY <1>2, <3>1
    <3>3. seq[Max(s)] = xs[Max(s)]
      <4> HIDE DEF S, F, seq
      <4> QED BY <1>s, <3>1
    <3> HIDE DEF seq
    <3> QED BY <3>2, <3>3
  <2>2. f[{}] = [body |-> b, pos |-> End(b)]
    BY <1>3 DEF Solves
  <2> HIDE DEF S, F, seq
  <2> QED BY <1>0, <1>3, <2>1, <2>2
<1>5. PICK h : /\ Grown(b, xs) = h[1 .. m]
               /\ h = [s \in SUBSET (1 .. m) |->
                        IF s = {} THEN [body |-> b, pos |-> End(b)] ELSE append_unique(Len(b), h[s \ {Max(s)}], seq[Max(s)])]
  <2>1. PICK h : h = CHOOSE z : z = [s \in SUBSET DOMAIN seq |->
             IF s = {} THEN [body |-> b, pos |-> End(b)] ELSE append_unique(Len(b), z[s \ {Max(s)}], seq[Max(s)])]
    OBVIOUS
  <2>2. h = [s \in SUBSET DOMAIN seq |->
             IF s = {} THEN [body |-> b, pos |-> End(b)] ELSE append_unique(Len(b), h[s \ {Max(s)}], seq[Max(s)])]
    <3> HIDE DEF seq
    <3> QED BY <1>4, <2>1
  <2>3. Grown(b, xs) = h[DOMAIN seq]
    BY <2>1 DEF Grown, FoldLeft, MapThenFoldSet
  <2> HIDE DEF seq
  <2> QED BY <1>0, <2>2, <2>3, ZenonT(40)
<1> HIDE DEF seq, F, S
<1>6. h[{}] = [body |-> b, pos |-> End(b)] /\ {} = 1 .. 0
  <2>1. {} \in SUBSET (1 .. m) /\ {} = 1 .. 0
    BY UpTo
  <2> QED BY <1>5, <2>1
<1>7. ASSUME NEW k \in 1 .. m PROVE h[1 .. k] = append_unique(Len(b), h[1 .. (k - 1)], xs[k])
  <2>1. 1 .. k \in SUBSET (1 .. m) /\ 1 .. k # {} /\ (1 .. k) \ {k} = 1 .. (k - 1)
    BY UpTo
  <2>2. Max(1 .. k) = k
    BY UpTo
  <2>3. seq[k] = xs[k]
    BY <1>s
  <2>4. h[1 .. k] = append_unique(Len(b), h[1 .. (k - 1)], seq[k])
    BY <1>5, <2>1, <2>2
  <2> QED BY <2>3, <2>4
<1> DEFINE g == [k \in 0 .. m |-> h[1 .. k]]
<1>8. g[0] = [body |-> b, pos |-> End(b)] /\ g[m] = Grown(b, xs)
  <2>1. 0 \in 0 .. m /\ m \in 0 .. m
    BY UpTo
  <2> QED BY <1>5, <1>6, <2>1
<1>9. ASSUME NEW k \in 1 .. m PROVE g[k] = append_unique(Len(b), g[k - 1], xs[k])
  <2>1. k \in 0 .. m /\ k - 1 \in 0 .. m
    OBVIOUS
  <2> QED BY <1>7, <2>1
<1> HIDE DEF g
<1>10. GrownRun(g, m, b, xs, r)
  BY <1>8, <1>9 DEF GrownRun
<1> QED BY <1>10

\* One more element at the end.
LEMMA FirstsAppend ==
  ASSUME NEW s, NEW f, Firsts(s, f), NEW x \in Entries, NEW t, WithEntry(t, s, Len(s) + 1, x),
         NEW g, g = Map!Add(f, x)
  PROVE  Firsts(t, g)
<1>1. Len(s) \in Nat
  <2>1. s \in Seq(Entries)
    BY DEF Firsts
  <2> QED BY <2>1
<1>2. PICK p, k : p = Len(s) + 1 /\ k = x[1]
  OBVIOUS
<1>3. p \in 1 .. (Len(s) + 1) /\ AbsentFrom(s, p, k)
  BY <1>1, <1>2 DEF AbsentFrom
<1> QED BY <1>2, <1>3, FirstsOpened

\* Append puts an element at the end.
LEMMA AppendOpens ==
  ASSUME NEW s \in Seq(Entries), NEW x \in Entries, NEW t, t = Append(s, x)
  PROVE  WithEntry(t, s, Len(s) + 1, x)
<1>1. Len(s) \in Nat
  OBVIOUS
<1>2. t \in Seq(Entries) /\ Len(t) = Len(s) + 1 /\ t[Len(s) + 1] = x /\ \A i \in 1 .. Len(s) : t[i] = s[i]
  OBVIOUS
<1>3. ASSUME NEW i \in 1 .. Len(t), i < Len(s) + 1 PROVE i \in 1 .. Len(s) /\ t[i] = s[i]
  <2>1. i \in 1 .. Len(s)
    BY <1>1, <1>2, <1>3
  <2> QED BY <1>2, <2>1
<1>4. \A i \in 1 .. Len(t) : ~(Len(s) + 1 < i)
  BY <1>1, <1>2
<1>5. \A i \in 1 .. Len(s) : ~(Len(s) + 1 <= i)
  BY <1>1
<1> QED BY <1>2, <1>3, <1>4, <1>5 DEF WithEntry

\* A longer beginning of a sequence has one more element at the end.
LEMMA PartOpens ==
  ASSUME NEW s \in Seq(Entries), NEW k \in 1 .. Len(s), NEW a, NEW b, NEW j, j = k - 1,
         Part(a, s, 1, j), Part(b, s, 1, k), NEW x, x = s[k]
  PROVE  WithEntry(b, a, Len(a) + 1, x)
<1>1. Len(s) \in Nat /\ k \in Nat /\ j \in Nat
  <2>1. Len(s) \in Nat
    OBVIOUS
  <2> QED BY <2>1
<1>2. Len(a) = j /\ Len(b) = k /\ b \in Seq(Entries)
  <2>1. Len(a) = j - 1 + 1 /\ Len(b) = k - 1 + 1
    BY DEF Part
  <2> QED BY <1>1, <2>1 DEF Part
<1>3. \A n \in 1 .. j : a[n] = s[n]
  <2> SUFFICES ASSUME NEW n \in 1 .. j PROVE a[n] = s[n]
    OBVIOUS
  <2>1. a[n] = s[(1 - 1) + n] /\ (1 - 1) + n = n
    BY <1>1, <1>2 DEF Part
  <2> QED BY <2>1
<1>4. \A n \in 1 .. k : b[n] = s[n]
  <2> SUFFICES ASSUME NEW n \in 1 .. k PROVE b[n] = s[n]
    OBVIOUS
  <2>1. b[n] = s[(1 - 1) + n] /\ (1 - 1) + n = n
    BY <1>1, <1>2 DEF Part
  <2> QED BY <2>1
<1>5. Len(a) + 1 = k /\ k \in 1 .. k
  BY <1>1, <1>2
<1>6. ASSUME NEW i \in 1 .. Len(b), i < k PROVE i \in 1 .. Len(a) /\ b[i] = a[i]
  <2>1. i \in 1 .. j /\ i \in 1 .. k
    BY <1>1, <1>2, <1>6
  <2> QED BY <1>2, <1>3, <1>4, <2>1
<1>7. \A i \in 1 .. Len(b) : ~(k < i)
  BY <1>1, <1>2
<1>8. \A i \in 1 .. Len(a) : ~(k <= i)
  BY <1>1, <1>2
<1>9. Len(b) = Len(a) + 1 /\ b[k] = x
  BY <1>1, <1>2, <1>4, <1>5
<1>10. WithEntry(b, a, k, x)
  BY <1>2, <1>6, <1>7, <1>8, <1>9 DEF WithEntry
<1> QED BY <1>5, <1>10

\* The beginning of a sequence of which a is one.
LEMMA FirstsRun ==
  ASSUME NEW a, NEW e, Firsts(a, e), NEW xs \in Seq(Entries), NEW t, Chained(t, a, xs),
         NEW r, r = Map!AddAll(e, xs)
  PROVE  Firsts(t, r)
<1>1. PICK m \in Nat : m = Len(xs)
  OBVIOUS
<1>2. a \in Seq(Entries) /\ e \in Maps
  BY DEF Firsts
<1>3. PICK n \in Nat : n = Len(a)
  BY <1>2
<1>4. PICK g : AddRun(g, m, e, xs, r)
  BY <1>1, <1>2, AddFold
<1>5. t \in Seq(Entries) /\ Len(t) = n + m
  BY <1>1, <1>3 DEF Chained
<1> DEFINE T == {k \in 0 .. m : \A u : Part(u, t, 1, n + k) => Firsts(u, g[k])}
<1>6. 0 \in T
  <2>1. ASSUME NEW u, Part(u, t, 1, n) PROVE u = a
    <3>1. u \in Seq(Entries) /\ Len(u) = n
      <4>1. Len(u) = n - 1 + 1
        BY <2>1 DEF Part
      <4> QED BY <2>1, <4>1 DEF Part
    <3>2. ASSUME NEW i \in 1 .. n PROVE u[i] = a[i]
      <4>1. u[i] = t[(1 - 1) + i] /\ (1 - 1) + i = i
        BY <2>1, <3>1 DEF Part
      <4>2. t[i] = a[i]
        BY <1>3 DEF Chained
      <4> QED BY <4>1, <4>2
    <3> QED BY <1>2, <1>3, <3>1, <3>2
  <2>2. g[0] = e /\ 0 \in 0 .. m /\ n + 0 = n
    BY <1>4 DEF AddRun
  <2>3. ASSUME NEW u, Part(u, t, 1, n + 0) PROVE Firsts(u, g[0])
    BY <2>1, <2>2, <2>3
  <2> QED BY <2>2, <2>3
<1>7. ASSUME NEW k \in 1 .. m, k - 1 \in T PROVE k \in T
  <2>1. PICK c, d : c = g[k - 1] /\ d = g[k]
    OBVIOUS
  <2>2. PICK x \in Entries : x = xs[k]
    BY <1>1
  <2>3. d = Map!Add(c, x)
    BY <1>4, <2>1, <2>2 DEF AddRun
  <2>4. PICK q, j : q = n + k /\ j = q - 1
    OBVIOUS
  <2>5. q \in 1 .. Len(t) /\ j \in Nat /\ j = n + (k - 1) /\ 1 \in 1 .. (Len(t) + 1) /\ j \in (1 - 1) .. Len(t)
    BY <1>5, <2>4
  <2>6. t[q] = x
    BY <1>1, <1>3, <2>2, <2>4 DEF Chained
  <2>7. PICK b : b = SubSeq(t, 1, j)
    OBVIOUS
  <2>8. Part(b, t, 1, j)
    BY <1>5, <2>5, <2>7, PartIs
  <2>9. Firsts(b, c)
    <3>1. \A u : Part(u, t, 1, n + (k - 1)) => Firsts(u, g[k - 1])
      BY <1>7
    <3> QED BY <2>1, <2>5, <2>8, <3>1
  <2>10. ASSUME NEW u, Part(u, t, 1, q) PROVE Firsts(u, d)
    <3>1. WithEntry(u, b, Len(b) + 1, x)
      BY <1>5, <2>4, <2>5, <2>6, <2>8, <2>10, PartOpens
    <3> QED BY <2>3, <2>9, <3>1, FirstsAppend
  <2>11. k \in 0 .. m
    OBVIOUS
  <2> QED BY <2>1, <2>4, <2>10, <2>11
<1>8. m \in T
  <2> HIDE DEF T
  <2> QED BY <1>6, <1>7, BoundedInduction
<1>9. Part(t, t, 1, n + m)
  <2>1. n + m \in Nat /\ Len(t) = (n + m) - 1 + 1
    BY <1>5
  <2>2. \A i \in 1 .. Len(t) : (1 - 1) + i \in 1 .. Len(t) /\ t[i] = t[(1 - 1) + i]
    BY <1>5
  <2> QED BY <1>5, <2>1, <2>2 DEF Part
<1>10. Firsts(t, g[m])
  BY <1>8, <1>9
<1> QED BY <1>4, <1>10 DEF AddRun

\* A sequence stands for the map its elements are added to one after the other.
LEMMA FirstsAll ==
  ASSUME NEW xs \in Seq(Entries), NEW r, r = Map!AddAll(<<>>, xs)
  PROVE  Firsts(xs, r)
<1>1. PICK a : a = <<>>
  OBVIOUS
<1>2. Firsts(a, <<>>)
  BY <1>1, FirstsEmpty
<1>3. Chained(xs, a, xs)
  <2>1. Len(a) = 0 /\ Len(xs) \in Nat
    BY <1>1
  <2>2. \A i \in 1 .. Len(xs) : ~(i <= Len(a)) /\ i - Len(a) = i /\ Len(a) + i = i
    BY <2>1
  <2>3. \A i \in 1 .. Len(a) : FALSE
    BY <2>1
  <2>4. Len(xs) = Len(a) + Len(xs)
    BY <2>1
  <2> QED BY <2>2, <2>3, <2>4 DEF Chained
<1> QED BY <1>2, <1>3, FirstsRun

\* Merging, without sorting what is merged in.
LEMMA MergedIs ==
  ASSUME NEW s, NEW f, Firsts(s, f), NonDecreasing(s), NEW xs \in Seq(Entries),
         NEW t, t = Merged(s, xs), NEW r, r = Map!AddAll(f, xs)
  PROVE  Firsts(t, r) /\ NonDecreasing(t)
<1>1. PICK m \in Nat : m = Len(xs)
  OBVIOUS
<1>2. s \in Seq(Entries) /\ f \in Maps
  BY DEF Firsts
<1>3. PICK h : AddRun(h, m, f, xs, r)
  BY <1>1, <1>2, AddFold
<1>4. PICK g : MergedRun(g, m, s, xs, t)
  BY <1>1, <1>2, MergedFold
<1> DEFINE T == {k \in 0 .. m : Firsts(g[k], h[k]) /\ NonDecreasing(g[k])}
<1>5. 0 \in T
  <2>1. g[0] = s /\ h[0] = f /\ 0 \in 0 .. m
    BY <1>3, <1>4 DEF AddRun, MergedRun
  <2> QED BY <2>1
<1>6. ASSUME NEW k \in 1 .. m, k - 1 \in T PROVE k \in T
  <2>1. PICK a, b, c, d : a = g[k - 1] /\ b = g[k] /\ c = h[k - 1] /\ d = h[k]
    OBVIOUS
  <2>2. PICK x \in Entries : x = xs[k]
    BY <1>1
  <2>3. b = Sorted(a, x) /\ d = Map!Add(c, x)
    BY <1>3, <1>4, <2>1, <2>2 DEF AddRun, MergedRun
  <2>4. Firsts(a, c) /\ NonDecreasing(a)
    BY <1>6, <2>1
  <2>5. Firsts(b, d) /\ NonDecreasing(b)
    BY <2>3, <2>4, SortedFirsts
  <2>6. k \in 0 .. m
    OBVIOUS
  <2> QED BY <2>1, <2>5, <2>6
<1>7. m \in T
  <2> HIDE DEF T
  <2> QED BY <1>5, <1>6, BoundedInduction
<1> QED BY <1>3, <1>4, <1>7 DEF AddRun, MergedRun

\* No key of xs from position k on is in f.
NewTo(xs, k, f) == \A j \in k .. Len(xs) : xs[j][1] \notin DOMAIN f

\* Merging increasing elements whose keys are new.
LEMMA MergedIncreasing ==
  ASSUME NEW s, NEW f, Firsts(s, f), Increasing(s), NEW xs, Increasing(xs), NewTo(xs, 1, f),
         NEW t, t = Merged(s, xs), NEW r, r = Map!AddAll(f, xs)
  PROVE  Firsts(t, r) /\ Increasing(t)
<1>0. xs \in Seq(Entries)
  BY DEF Increasing
<1>1. PICK m \in Nat : m = Len(xs)
  BY <1>0
<1>2. s \in Seq(Entries) /\ f \in Maps
  BY DEF Firsts
<1>3. PICK h : AddRun(h, m, f, xs, r)
  BY <1>0, <1>1, <1>2, AddFold
<1>4. PICK g : MergedRun(g, m, s, xs, t)
  BY <1>0, <1>1, <1>2, MergedFold
<1> DEFINE T == {k \in 0 .. m : Firsts(g[k], h[k]) /\ Increasing(g[k]) /\ NewTo(xs, k + 1, h[k])}
<1>5. 0 \in T
  <2>1. g[0] = s /\ h[0] = f /\ 0 \in 0 .. m /\ 0 + 1 = 1
    BY <1>3, <1>4 DEF AddRun, MergedRun
  <2> QED BY <2>1
<1>6. ASSUME NEW k \in 1 .. m, k - 1 \in T PROVE k \in T
  <2>1. PICK a, b, c, d : a = g[k - 1] /\ b = g[k] /\ c = h[k - 1] /\ d = h[k]
    OBVIOUS
  <2>2. PICK x \in Entries : x = xs[k]
    BY <1>0, <1>1
  <2>3. b = Sorted(a, x) /\ d = Map!Add(c, x)
    BY <1>3, <1>4, <2>1, <2>2 DEF AddRun, MergedRun
  <2>4. Firsts(a, c) /\ Increasing(a) /\ NewTo(xs, k, c)
    <3>1. (k - 1) + 1 = k
      OBVIOUS
    <3>2. Firsts(a, c) /\ Increasing(a) /\ NewTo(xs, (k - 1) + 1, c)
      BY <1>6, <2>1
    <3> QED BY <3>1, <3>2
  <2>5. PICK y, v : y = x[1] /\ v = x[2]
    OBVIOUS
  <2>6. y \notin DOMAIN c
    BY <1>1, <2>2, <2>4, <2>5 DEF NewTo
  <2>7. Increasing(b)
    BY <2>3, <2>4, <2>5, <2>6, SortedIncreasing
  <2>8. Firsts(b, d)
    <3>1. NonDecreasing(a)
      BY <2>4, IncreasingSorted
    <3> QED BY <2>3, <2>4, <3>1, SortedFirsts
  <2>9. NewTo(xs, k + 1, d)
    <3>1. c \in Maps
      BY <2>4 DEF Firsts
    <3>2. AddedTo(d, c, y, v)
      BY <2>3, <2>5, <3>1, AddIsMap
    <3>3. DOMAIN d = DOMAIN c \cup {y}
      BY <3>2 DEF AddedTo
    <3>4. ASSUME NEW j \in (k + 1) .. Len(xs) PROVE xs[j][1] \notin DOMAIN d
      <4>1. j \in k .. Len(xs) /\ j \in 1 .. Len(xs) /\ k \in 1 .. (j - 1)
        BY <1>1
      <4>2. xs[j][1] \notin DOMAIN c
        BY <2>4, <4>1 DEF NewTo
      <4>3. xs[k][1] < xs[j][1]
        BY <4>1 DEF Increasing
      <4>4. xs[j][1] \in Nat /\ xs[k][1] \in Nat
        <5>1. k \in 1 .. Len(xs)
          BY <1>1
        <5> QED BY <1>0, <4>1, <5>1, EntryAt
      <4>5. xs[j][1] # y
        BY <2>2, <2>5, <4>3, <4>4
      <4> QED BY <3>3, <4>2, <4>5
    <3> QED BY <3>4 DEF NewTo
  <2>10. k \in 0 .. m
    OBVIOUS
  <2> QED BY <2>1, <2>7, <2>8, <2>9, <2>10
<1>7. m \in T
  <2> HIDE DEF T
  <2> QED BY <1>5, <1>6, BoundedInduction
<1> QED BY <1>3, <1>4, <1>7 DEF AddRun, MergedRun

\* No key of s is greater than one that xs has from position k on.
AtMost(s, xs, k) == \A i \in 1 .. Len(s) : \A j \in k .. Len(xs) : s[i][1] <= xs[j][1]

\* A turn of Unique.
LEMMA UniqueTurn ==
  ASSUME NEW xs, NonDecreasing(xs), NEW k \in 1 .. Len(xs), NEW a, NEW c, Firsts(a, c), Increasing(a),
         AtMost(a, xs, k), NEW x, x = xs[k], NEW b, b = KeepGreater(a, x), NEW d, d = Map!Add(c, x)
  PROVE  Firsts(b, d) /\ Increasing(b) /\ AtMost(b, xs, k + 1)
<1>1. xs \in Seq(Entries) /\ a \in Seq(Entries) /\ c \in Maps /\ x \in Entries
  BY DEF NonDecreasing, Increasing, Firsts
<1>2. /\ Len(xs) \in Nat /\ Len(a) \in Nat /\ \A i \in 1 .. Len(xs) : xs[i][1] \in Nat
      /\ \A i \in 1 .. Len(a) : a[i][1] \in Nat
  BY <1>1, EntryAt
<1>3. PICK y, v : y = x[1] /\ v = x[2]
  OBVIOUS
<1>4. y \in Nat
  BY <1>1, <1>3, EntryIs
<1>5. AtMost(a, xs, k + 1)
  BY <1>2 DEF AtMost
<1>6. CASE Len(a) # 0 /\ ~(a[Len(a)][1] < y)
  <2>1. b = a
    <3>1. a # <<>>
      BY <1>1, <1>6
    <3> QED BY <1>3, <1>6, <3>1 DEF KeepGreater, Last
  <2>2. y \in DOMAIN c
    <3>1. Len(a) \in 1 .. Len(a) /\ k \in k .. Len(xs)
      BY <1>2, <1>6
    <3>2. a[Len(a)][1] <= xs[k][1]
      BY <3>1 DEF AtMost
    <3>3. a[Len(a)][1] = y
      BY <1>2, <1>3, <1>4, <1>6, <3>1, <3>2
    <3>4. a[Len(a)][1] \in DOMAIN c
      BY <3>1 DEF Firsts
    <3> QED BY <3>3, <3>4
  <2>3. AddedTo(d, c, y, v)
    BY <1>1, <1>3, AddIsMap
  <2>4. d = c
    BY <2>2, <2>3 DEF AddedTo
  <2> QED BY <1>5, <2>1, <2>4
<1>7. CASE ~(Len(a) # 0 /\ ~(a[Len(a)][1] < y))
  <2>1. b = Append(a, x)
    <3>1. a # <<>> => Len(a) # 0
      BY <1>1
    <3> QED BY <1>3, <1>7, <3>1 DEF KeepGreater, Last
  <2>2. PICK p : p = Len(a) + 1
    OBVIOUS
  <2>3. WithEntry(b, a, p, x) /\ p \in 1 .. (Len(a) + 1)
    <3>1. WithEntry(b, a, Len(a) + 1, x)
      BY <1>1, <2>1, AppendOpens
    <3> QED BY <1>2, <2>2, <3>1
  <2>4. Firsts(b, d)
    BY <1>1, <2>2, <2>3, FirstsAppend
  <2>5. Between(a, p, y)
    <3>1. ASSUME NEW i \in 1 .. (p - 1) PROVE a[i][1] < y
      <4>1. i \in 1 .. Len(a) /\ Len(a) \in 1 .. Len(a)
        BY <1>2, <2>2
      <4>2. a[Len(a)][1] < y
        BY <1>7, <4>1
      <4>3. CASE i = Len(a)
        BY <4>2, <4>3
      <4>4. CASE i # Len(a)
        <5>1. i \in 1 .. (Len(a) - 1)
          BY <1>2, <4>1, <4>4
        <5>2. a[i][1] < a[Len(a)][1]
          BY <4>1, <5>1 DEF Increasing
        <5> QED BY <1>2, <1>4, <4>1, <4>2, <5>2
      <4> QED BY <4>3, <4>4
    <3>2. \A i \in p .. Len(a) : FALSE
      BY <1>2, <2>2
    <3> QED BY <3>1, <3>2 DEF Between
  <2>6. Increasing(b)
    BY <1>1, <1>3, <2>3, <2>5, IncreasingOpened
  <2>7. ASSUME NEW i \in 1 .. Len(b), NEW j \in (k + 1) .. Len(xs) PROVE b[i][1] <= xs[j][1]
    <3>1. i < p \/ i = p
      BY <1>2, <2>2, <2>3 DEF WithEntry
    <3>2. CASE i < p
      <4>1. i \in 1 .. Len(a) /\ b[i] = a[i]
        BY <2>3, <3>2 DEF WithEntry
      <4> QED BY <1>5, <4>1 DEF AtMost
    <3>3. CASE i = p
      <4>1. b[i] = x
        BY <2>3, <3>3 DEF WithEntry
      <4>2. k \in 1 .. (j - 1) /\ j \in 1 .. Len(xs)
        BY <1>2
      <4>3. xs[k][1] <= xs[j][1]
        BY <4>2 DEF NonDecreasing
      <4> QED BY <4>1, <4>3
    <3> QED BY <3>1, <3>2, <3>3
  <2> QED BY <2>4, <2>6, <2>7 DEF AtMost
<1> QED BY <1>6, <1>7

\* Of sorted elements Unique keeps the first one with each key.
LEMMA UniqueIs ==
  ASSUME NEW xs, NonDecreasing(xs), NEW t, t = Unique(xs), NEW r, r = Map!AddAll(<<>>, xs)
  PROVE  Firsts(t, r) /\ Increasing(t)
<1>0. xs \in Seq(Entries)
  BY DEF NonDecreasing
<1>1. PICK m \in Nat : m = Len(xs)
  BY <1>0
<1>2. <<>> \in Maps /\ Firsts(<<>>, <<>>)
  BY FirstsEmpty DEF Firsts
<1>3. PICK h : AddRun(h, m, <<>>, xs, r)
  BY <1>0, <1>1, <1>2, AddFold
<1>4. PICK g : UniqueRun(g, m, xs, t)
  BY <1>0, <1>1, UniqueFold
<1> DEFINE T == {k \in 0 .. m : Firsts(g[k], h[k]) /\ Increasing(g[k]) /\ AtMost(g[k], xs, k + 1)}
<1>5. 0 \in T
  <2>1. g[0] = <<>> /\ h[0] = <<>> /\ 0 \in 0 .. m
    BY <1>3, <1>4 DEF AddRun, UniqueRun
  <2>2. <<>> \in Seq(Entries) /\ Len(<<>>) = 0
    OBVIOUS
  <2>3. Increasing(<<>>)
    BY <2>2 DEF Increasing
  <2>4. AtMost(<<>>, xs, 0 + 1)
    BY <2>2 DEF AtMost
  <2> QED BY <1>2, <2>1, <2>3, <2>4
<1>6. ASSUME NEW k \in 1 .. m, k - 1 \in T PROVE k \in T
  <2>1. PICK a, b, c, d : a = g[k - 1] /\ b = g[k] /\ c = h[k - 1] /\ d = h[k]
    OBVIOUS
  <2>2. PICK x : x = xs[k]
    OBVIOUS
  <2>3. b = KeepGreater(a, x) /\ d = Map!Add(c, x)
    BY <1>3, <1>4, <2>1, <2>2 DEF AddRun, UniqueRun
  <2>4. Firsts(a, c) /\ Increasing(a) /\ AtMost(a, xs, k)
    <3>1. (k - 1) + 1 = k
      OBVIOUS
    <3>2. Firsts(a, c) /\ Increasing(a) /\ AtMost(a, xs, (k - 1) + 1)
      BY <1>6, <2>1
    <3> QED BY <3>1, <3>2
  <2>5. k \in 1 .. Len(xs) /\ k \in 0 .. m
    BY <1>1
  <2>6. Firsts(b, d) /\ Increasing(b) /\ AtMost(b, xs, k + 1)
    BY <2>2, <2>3, <2>4, <2>5, UniqueTurn
  <2> QED BY <2>1, <2>5, <2>6
<1>7. m \in T
  <2> HIDE DEF T
  <2> QED BY <1>5, <1>6, BoundedInduction
<1> QED BY <1>3, <1>4, <1>7 DEF AddRun, UniqueRun

\* Sorting and unifying: increasing elements that stand for the same map.
LEMMA SortUnique ==
  ASSUME NEW xs \in Seq(Entries), NEW t, t = Unique(StableSort(xs)), NEW r, r = Map!AddAll(<<>>, xs)
  PROVE  Firsts(t, r) /\ Increasing(t)
<1>1. Firsts(<<>>, <<>>) /\ NonDecreasing(<<>>)
  <2>1. <<>> \in Seq(Entries) /\ Len(<<>>) = 0
    OBVIOUS
  <2> QED BY <2>1, FirstsEmpty DEF NonDecreasing
<1>2. PICK c : c = Merged(<<>>, xs)
  OBVIOUS
<1>3. Firsts(c, r) /\ NonDecreasing(c)
  BY <1>1, <1>2, MergedIs
<1>4. PICK q : q = Map!AddAll(<<>>, c)
  OBVIOUS
<1>5. t = Unique(c)
  BY <1>2 DEF StableSort
<1>6. Firsts(t, q) /\ Increasing(t)
  BY <1>3, <1>4, <1>5, UniqueIs
<1>7. Firsts(c, q)
  <2>1. c \in Seq(Entries)
    BY <1>3 DEF NonDecreasing
  <2> QED BY <1>4, <2>1, FirstsAll
<1>8. q = r
  BY <1>3, <1>7, FirstsUnique
<1> QED BY <1>6, <1>8

-----------------------------------------------------------------------------
(* FlatMap: increasing elements                                            *)

\* f is what increasing elements say.
Pairs(s, f) ==
  /\ s \in Seq(Entries) /\ f \in Maps
  /\ \A i \in 1 .. Len(s) : s[i][1] \in DOMAIN f /\ s[i][2] = f[s[i][1]]
  /\ \A k \in DOMAIN f : \E i \in 1 .. Len(s) : s[i][1] = k

\* Increasing elements have no two equal keys, and thus none that hides another.
LEMMA PairsAre ==
  ASSUME NEW s, Increasing(s), NEW f
  PROVE  Firsts(s, f) <=> Pairs(s, f)
<1>1. s \in Seq(Entries)
  BY DEF Increasing
<1>2. Len(s) \in Nat /\ \A i \in 1 .. Len(s) : s[i][1] \in Nat
  BY <1>1, EntryAt
<1>3. ASSUME NEW i \in 1 .. Len(s), NEW j \in 1 .. Len(s), s[i][1] = s[j][1] PROVE i = j
  <2>1. ~(i < j)
    <3> SUFFICES ASSUME i < j PROVE FALSE
      OBVIOUS
    <3>1. i \in 1 .. (j - 1)
      BY <1>2
    <3>2. s[i][1] < s[j][1]
      BY <3>1 DEF Increasing
    <3> QED BY <1>2, <1>3, <3>2
  <2>2. ~(j < i)
    <3> SUFFICES ASSUME j < i PROVE FALSE
      OBVIOUS
    <3>1. j \in 1 .. (i - 1)
      BY <1>2
    <3>2. s[j][1] < s[i][1]
      BY <3>1 DEF Increasing
    <3> QED BY <1>2, <1>3, <3>2
  <2> QED BY <1>2, <2>1, <2>2
<1>4. ASSUME Firsts(s, f) PROVE Pairs(s, f)
  <2>1. ASSUME NEW i \in 1 .. Len(s) PROVE s[i][1] \in DOMAIN f /\ s[i][2] = f[s[i][1]]
    <3>1. PICK k : k = s[i][1]
      OBVIOUS
    <3>2. k \in DOMAIN f
      BY <1>4, <3>1 DEF Firsts
    <3>3. PICK j \in 1 .. Len(s) : FirstAt(s, k, f[k], j)
      BY <1>4, <3>2 DEF Firsts
    <3>4. s[j][1] = k /\ s[j][2] = f[k]
      BY <3>3 DEF FirstAt
    <3>5. i = j
      BY <1>3, <3>1, <3>4
    <3> QED BY <3>1, <3>2, <3>4, <3>5
  <2>2. ASSUME NEW k \in DOMAIN f PROVE \E i \in 1 .. Len(s) : s[i][1] = k
    <3>1. PICK j \in 1 .. Len(s) : FirstAt(s, k, f[k], j)
      BY <1>4 DEF Firsts
    <3> QED BY <3>1 DEF FirstAt
  <2> QED BY <1>1, <1>4, <2>1, <2>2 DEF Firsts, Pairs
<1>5. ASSUME Pairs(s, f) PROVE Firsts(s, f)
  <2>1. ASSUME NEW k \in DOMAIN f PROVE \E i \in 1 .. Len(s) : FirstAt(s, k, f[k], i)
    <3>1. PICK i \in 1 .. Len(s) : s[i][1] = k
      BY <1>5 DEF Pairs
    <3>2. s[i][2] = f[k]
      BY <1>5, <3>1 DEF Pairs
    <3>3. ASSUME NEW j \in 1 .. (i - 1) PROVE s[j][1] # k
      <4>1. j \in 1 .. Len(s) /\ j # i
        BY <1>2
      <4> QED BY <1>3, <3>1, <4>1
    <3> QED BY <3>1, <3>2, <3>3 DEF FirstAt
  <2> QED BY <1>1, <1>5, <2>1 DEF Firsts, Pairs
<1> QED BY <1>4, <1>5

\* f, and what g has beside it.
Over(f, g) == [k \in DOMAIN f \cup DOMAIN g |-> IF k \in DOMAIN f THEN f[k] ELSE g[k]]

\* What the parts of a sequence stand for.
LEMMA FirstsJoined ==
  ASSUME NEW a, NEW f, Firsts(a, f), NEW b, NEW g, Firsts(b, g), NEW t, Chained(t, a, b),
         NEW h, h = Over(f, g)
  PROVE  Firsts(t, h)
<1>1. /\ a \in Seq(Entries) /\ b \in Seq(Entries) /\ f \in Maps /\ g \in Maps /\ t \in Seq(Entries)
      /\ Len(a) \in Nat /\ Len(b) \in Nat /\ Len(t) = Len(a) + Len(b)
  <2>1. a \in Seq(Entries) /\ b \in Seq(Entries) /\ f \in Maps /\ g \in Maps
    BY DEF Firsts
  <2>2. Len(a) \in Nat /\ Len(b) \in Nat
    BY <2>1
  <2> QED BY <2>1, <2>2 DEF Chained
<1>2. f \in [DOMAIN f -> Values] /\ g \in [DOMAIN g -> Values] /\ DOMAIN f \in SUBSET Keys /\ DOMAIN g \in SUBSET Keys
  BY <1>1, MapIs
<1>3. h \in Maps /\ DOMAIN h = DOMAIN f \cup DOMAIN g
  <2>1. h \in [DOMAIN f \cup DOMAIN g -> Values] /\ DOMAIN f \cup DOMAIN g \in SUBSET Keys
    BY <1>2 DEF Over
  <2> QED BY <2>1 DEF Maps
<1>4. /\ \A k \in DOMAIN f : h[k] = f[k]
      /\ \A k \in DOMAIN g : k \notin DOMAIN f => h[k] = g[k]
  BY DEF Over
<1>5. ASSUME NEW i \in 1 .. Len(t) PROVE t[i][1] \in DOMAIN h
  <2>1. CASE i <= Len(a)
    <3>1. i \in 1 .. Len(a) /\ t[i] = a[i]
      BY <2>1 DEF Chained
    <3>2. a[i][1] \in DOMAIN f
      BY <3>1 DEF Firsts
    <3> QED BY <1>3, <3>1, <3>2
  <2>2. CASE Len(a) < i
    <3>1. PICK j \in 1 .. Len(b) : t[i] = b[j]
      BY <2>2 DEF Chained
    <3>2. b[j][1] \in DOMAIN g
      BY DEF Firsts
    <3> QED BY <1>3, <3>1, <3>2
  <2>3. i <= Len(a) \/ Len(a) < i
    BY <1>1
  <2> QED BY <2>1, <2>2, <2>3
<1>6. ASSUME NEW k \in DOMAIN f PROVE \E i \in 1 .. Len(t) : FirstAt(t, k, h[k], i)
  <2>1. PICK i \in 1 .. Len(a) : FirstAt(a, k, f[k], i)
    BY DEF Firsts
  <2>2. h[k] = f[k] /\ a[i][1] = k /\ a[i][2] = f[k] /\ \A j \in 1 .. (i - 1) : a[j][1] # k
    BY <1>4, <2>1 DEF FirstAt
  <2>3. i \in 1 .. Len(t) /\ t[i] = a[i]
    BY DEF Chained
  <2>4. ASSUME NEW j \in 1 .. (i - 1) PROVE t[j][1] # k
    <3>1. j \in 1 .. Len(a)
      BY <1>1
    <3>2. t[j] = a[j]
      BY <3>1 DEF Chained
    <3> QED BY <2>2, <3>2
  <2> QED BY <2>2, <2>3, <2>4 DEF FirstAt
<1>7. ASSUME NEW k \in DOMAIN g, k \notin DOMAIN f PROVE \E i \in 1 .. Len(t) : FirstAt(t, k, h[k], i)
  <2>1. PICK i \in 1 .. Len(b) : FirstAt(b, k, g[k], i)
    BY DEF Firsts
  <2>2. h[k] = g[k] /\ b[i][1] = k /\ b[i][2] = g[k] /\ \A j \in 1 .. (i - 1) : b[j][1] # k
    BY <1>4, <1>7, <2>1 DEF FirstAt
  <2>3. PICK n \in 1 .. Len(t) : n = Len(a) + i /\ t[n] = b[i]
    BY DEF Chained
  <2>4. ASSUME NEW j \in 1 .. (n - 1) PROVE t[j][1] # k
    <3>1. j \in 1 .. Len(t)
      BY <1>1
    <3>2. CASE j <= Len(a)
      <4>1. j \in 1 .. Len(a) /\ t[j] = a[j]
        BY <3>1, <3>2 DEF Chained
      <4>2. a[j][1] \in DOMAIN f
        BY <4>1 DEF Firsts
      <4> QED BY <1>7, <4>1, <4>2
    <3>3. CASE Len(a) < j
      <4>1. t[j] = b[j - Len(a)]
        BY <3>1, <3>3 DEF Chained
      <4>2. j - Len(a) \in 1 .. (i - 1)
        BY <1>1, <2>3, <3>3
      <4> QED BY <2>2, <4>1, <4>2
    <3>4. j <= Len(a) \/ Len(a) < j
      BY <1>1
    <3> QED BY <3>2, <3>3, <3>4
  <2> QED BY <2>2, <2>3, <2>4 DEF FirstAt
<1>8. ASSUME NEW k \in DOMAIN h PROVE \E i \in 1 .. Len(t) : FirstAt(t, k, h[k], i)
  BY <1>3, <1>6, <1>7
<1> QED BY <1>1, <1>3, <1>5, <1>8 DEF Firsts

\* Every key of a is less than every key of b.
Below(a, b) == \A i \in 1 .. Len(a) : \A j \in 1 .. Len(b) : a[i][1] < b[j][1]

\* Increasing elements behind smaller ones.
LEMMA IncreasingJoined ==
  ASSUME NEW a, Increasing(a), NEW b, Increasing(b), Below(a, b), NEW t, Chained(t, a, b)
  PROVE  Increasing(t)
<1>1. /\ a \in Seq(Entries) /\ b \in Seq(Entries) /\ t \in Seq(Entries)
      /\ Len(a) \in Nat /\ Len(b) \in Nat /\ Len(t) = Len(a) + Len(b)
  <2>1. a \in Seq(Entries) /\ b \in Seq(Entries)
    BY DEF Increasing
  <2>2. Len(a) \in Nat /\ Len(b) \in Nat
    BY <2>1
  <2> QED BY <2>1, <2>2 DEF Chained
<1>2. ASSUME NEW i \in 1 .. Len(t), NEW j \in 1 .. (i - 1) PROVE t[j][1] < t[i][1]
  <2>1. j \in 1 .. Len(t) /\ j < i
    BY <1>1
  <2>2. CASE i <= Len(a)
    <3>1. i \in 1 .. Len(a) /\ t[i] = a[i]
      BY <2>2 DEF Chained
    <3>2. j <= Len(a)
      BY <1>1, <2>1, <2>2
    <3>3. t[j] = a[j]
      BY <2>1, <3>2 DEF Chained
    <3> QED BY <3>1, <3>3 DEF Increasing
  <2>3. CASE Len(a) < i /\ j <= Len(a)
    <3>1. i - Len(a) \in 1 .. Len(b) /\ t[i] = b[i - Len(a)]
      BY <2>3 DEF Chained
    <3>2. j \in 1 .. Len(a) /\ t[j] = a[j]
      BY <2>1, <2>3 DEF Chained
    <3> QED BY <3>1, <3>2 DEF Below
  <2>4. CASE Len(a) < i /\ Len(a) < j
    <3>1. i - Len(a) \in 1 .. Len(b) /\ t[i] = b[i - Len(a)]
      BY <2>4 DEF Chained
    <3>2. t[j] = b[j - Len(a)]
      BY <2>1, <2>4 DEF Chained
    <3>3. j - Len(a) \in 1 .. ((i - Len(a)) - 1)
      BY <1>1, <2>1, <2>4
    <3> QED BY <3>1, <3>2, <3>3 DEF Increasing
  <2>5. i <= Len(a) \/ (Len(a) < i /\ j <= Len(a)) \/ (Len(a) < i /\ Len(a) < j)
    BY <1>1
  <2> QED BY <2>2, <2>3, <2>4, <2>5
<1> QED BY <1>1, <1>2 DEF Increasing

\* The parts of increasing elements.
LEMMA IncreasingParts ==
  ASSUME NEW t, Increasing(t), NEW a, NEW b, a \in Seq(Entries), b \in Seq(Entries), Chained(t, a, b)
  PROVE  Increasing(a) /\ Increasing(b) /\ Below(a, b)
<1>1. Len(a) \in Nat /\ Len(b) \in Nat /\ Len(t) = Len(a) + Len(b)
  BY DEF Chained
<1>2. ASSUME NEW i \in 1 .. Len(a), NEW j \in 1 .. (i - 1) PROVE a[j][1] < a[i][1]
  <2>1. j \in 1 .. Len(a)
    BY <1>1
  <2>2. t[j] = a[j] /\ t[i] = a[i] /\ i \in 1 .. Len(t)
    BY <2>1 DEF Chained
  <2>3. t[j][1] < t[i][1]
    BY <2>2 DEF Increasing
  <2> QED BY <2>2, <2>3
<1>3. ASSUME NEW i \in 1 .. Len(b), NEW j \in 1 .. (i - 1) PROVE b[j][1] < b[i][1]
  <2>1. j \in 1 .. Len(b)
    BY <1>1
  <2>2. PICK n \in 1 .. Len(t), o \in 1 .. Len(t) : n = Len(a) + i /\ o = Len(a) + j /\ t[n] = b[i] /\ t[o] = b[j]
    BY <2>1 DEF Chained
  <2>3. o \in 1 .. (n - 1)
    BY <1>1, <2>2
  <2>4. t[o][1] < t[n][1]
    BY <2>3 DEF Increasing
  <2> QED BY <2>2, <2>4
<1>4. ASSUME NEW i \in 1 .. Len(a), NEW j \in 1 .. Len(b) PROVE a[i][1] < b[j][1]
  <2>1. PICK n \in 1 .. Len(t) : n = Len(a) + j /\ t[n] = b[j]
    BY DEF Chained
  <2>2. t[i] = a[i]
    BY DEF Chained
  <2>3. i \in 1 .. (n - 1)
    BY <1>1, <2>1
  <2>4. t[i][1] < t[n][1]
    BY <2>3 DEF Increasing
  <2> QED BY <2>1, <2>2, <2>4
<1> QED BY <1>2, <1>3, <1>4 DEF Increasing, Below

\* Each key of the map is one of the elements'.
LEMMA KeyAt ==
  ASSUME NEW s, NEW f, Firsts(s, f), NEW k \in DOMAIN f
  PROVE  \E i \in 1 .. Len(s) : s[i][1] = k
<1>1. PICK i \in 1 .. Len(s) : FirstAt(s, k, f[k], i)
  BY DEF Firsts
<1> QED BY <1>1 DEF FirstAt

\* It does not matter which two are put together first.
LEMMA OverAssoc ==
  ASSUME NEW f, NEW g, NEW h, NEW a, NEW b, a = Over(f, g), b = Over(g, h)
  PROVE  Over(a, h) = Over(f, b)
<1>1. DOMAIN a = DOMAIN f \cup DOMAIN g /\ DOMAIN b = DOMAIN g \cup DOMAIN h
  BY DEF Over
<1>2. (DOMAIN a) \cup DOMAIN h = DOMAIN f \cup DOMAIN b
  BY <1>1
<1>3. ASSUME NEW k \in (DOMAIN a) \cup DOMAIN h
      PROVE  (IF k \in DOMAIN a THEN a[k] ELSE h[k]) = (IF k \in DOMAIN f THEN f[k] ELSE b[k])
  <2>1. CASE k \in DOMAIN f
    <3>1. k \in DOMAIN a /\ a[k] = f[k]
      BY <1>1, <2>1 DEF Over
    <3> QED BY <2>1, <3>1
  <2>2. CASE k \notin DOMAIN f /\ k \in DOMAIN g
    <3>1. k \in DOMAIN a /\ a[k] = g[k] /\ b[k] = g[k]
      BY <1>1, <2>2 DEF Over
    <3> QED BY <2>2, <3>1
  <2>3. CASE k \notin DOMAIN f /\ k \notin DOMAIN g
    <3>1. k \in DOMAIN h /\ k \in DOMAIN b /\ b[k] = h[k]
      BY <1>1, <2>3 DEF Over
    <3>2. k \notin DOMAIN a
      BY <1>1, <2>3
    <3> QED BY <2>3, <3>1, <3>2
  <2> QED BY <2>1, <2>2, <2>3
<1> QED BY <1>2, <1>3 DEF Over

\* s is b, and elements behind it whose keys f does not have and which are greater
\* than those of b before position q.
Extends(s, q, b, f) ==
  /\ s \in Seq(Entries) /\ Len(b) <= Len(s) /\ q \in 1 .. (Len(b) + 1)
  /\ \A i \in 1 .. Len(b) : i \in 1 .. Len(s) /\ s[i] = b[i]
  /\ \A j \in 1 .. Len(s) : Len(b) < j => s[j][1] \notin DOMAIN f
  /\ \A j \in 1 .. Len(s) : Len(b) < j => \A i \in 1 .. (q - 1) : b[i][1] < s[j][1]

\* One more element behind.
LEMMA ExtendsAppend ==
  ASSUME NEW b, Increasing(b), NEW f, Pairs(b, f), NEW s, NEW q, Extends(s, q, b, f), NEW x \in Entries,
         NEW k, k = x[1], NEW p, Lower(s, Len(b), k, p), p = Len(b) + 1 \/ k < s[p][1],
         NEW t, t = Append(s, x), NEW o, o = FirstNew(q, p)
  PROVE  Extends(t, o, b, f)
<1>1. b \in Seq(Entries) /\ s \in Seq(Entries)
  BY DEF Increasing, Extends
<1>2. PICK n \in Nat : n = Len(b)
  BY <1>1
<1>3. /\ Len(s) \in Nat /\ n <= Len(s) /\ q \in 1 .. (n + 1) /\ p \in 1 .. (n + 1) /\ k \in Nat
      /\ \A i \in 1 .. n : b[i][1] \in Nat /\ i \in 1 .. Len(s) /\ s[i] = b[i]
  BY <1>1, <1>2, EntryAt, EntryIs DEF Extends, Lower
<1>4. o \in 1 .. (n + 1) /\ o <= q /\ o <= p
  <2>1. {q, p} \in SUBSET Nat /\ {q, p} # {}
    BY <1>3
  <2>2. Min({q, p}) \in {q, p} /\ \A y \in {q, p} : Min({q, p}) <= y
    BY <2>1, LeastIs
  <2> QED BY <1>3, <2>2 DEF FirstNew
<1>5. k \notin DOMAIN f
  <2> SUFFICES ASSUME k \in DOMAIN f PROVE FALSE
    OBVIOUS
  <2>1. PICK i \in 1 .. n : b[i][1] = k
    BY <1>2 DEF Pairs
  <2>2. CASE i < p
    <3>1. i \in 1 .. (p - 1)
      BY <1>3, <2>2
    <3>2. s[i][1] < k
      BY <3>1 DEF Lower
    <3> QED BY <1>3, <2>1, <3>2
  <2>3. CASE p <= i
    <3>1. p \in 1 .. n /\ p # n + 1
      BY <1>2, <1>3, <2>3
    <3>2. k < b[p][1]
      BY <1>2, <1>3, <3>1
    <3>3. CASE p = i
      BY <1>3, <2>1, <3>2, <3>3
    <3>4. CASE p # i
      <4>1. p \in 1 .. (i - 1)
        BY <1>3, <2>3, <3>4
      <4>2. b[p][1] < b[i][1]
        BY <1>2, <4>1 DEF Increasing
      <4> QED BY <1>3, <2>1, <3>1, <3>2, <4>2
    <3> QED BY <3>3, <3>4
  <2>4. i < p \/ p <= i
    BY <1>3
  <2> QED BY <2>2, <2>3, <2>4
<1>6. t \in Seq(Entries) /\ Len(t) = Len(s) + 1 /\ t[Len(s) + 1] = x /\ \A i \in 1 .. Len(s) : t[i] = s[i]
  BY <1>1
<1>7. n <= Len(t) /\ \A i \in 1 .. n : i \in 1 .. Len(t) /\ t[i] = b[i]
  BY <1>3, <1>6
<1>8. ASSUME NEW j \in 1 .. Len(t), n < j PROVE t[j][1] \notin DOMAIN f
  <2>1. CASE j = Len(s) + 1
    BY <1>5, <1>6, <2>1
  <2>2. CASE j # Len(s) + 1
    <3>1. j \in 1 .. Len(s)
      BY <1>3, <1>6, <2>2
    <3> QED BY <1>2, <1>6, <1>8, <3>1 DEF Extends
  <2> QED BY <2>1, <2>2
<1>9. ASSUME NEW j \in 1 .. Len(t), n < j, NEW i \in 1 .. (o - 1) PROVE b[i][1] < t[j][1]
  <2>0. i \in 1 .. (q - 1) /\ i \in 1 .. (p - 1) /\ i \in 1 .. n
    BY <1>3, <1>4
  <2>1. CASE j = Len(s) + 1
    <3>1. s[i][1] < k
      BY <2>0 DEF Lower
    <3> QED BY <1>3, <1>6, <2>0, <2>1, <3>1
  <2>2. CASE j # Len(s) + 1
    <3>1. j \in 1 .. Len(s)
      BY <1>3, <1>6, <2>2
    <3>2. b[i][1] < s[j][1]
      BY <1>2, <1>9, <2>0, <3>1 DEF Extends
    <3> QED BY <1>6, <3>1, <3>2
  <2> QED BY <2>1, <2>2
<1> QED BY <1>2, <1>4, <1>6, <1>7, <1>8, <1>9 DEF Extends

\* A turn of append_unique: the state a has become r, the map c has become d.
GrownTo(a, c, b, f) ==
  /\ Extends(a.body, a.pos, b, f) /\ Firsts(a.body, c) /\ DOMAIN f \subseteq DOMAIN c

\* A turn of the loop of insert.
LEMMA GrownTurn ==
  ASSUME NEW b, Increasing(b), NEW f, Pairs(b, f), NEW a, NEW c, GrownTo(a, c, b, f), NEW x \in Entries,
         NEW r, r = append_unique(Len(b), a, x), NEW d, d = Map!Add(c, x)
  PROVE  GrownTo(r, d, b, f)
<1>1. PICK s, q, k, v, p : s = a.body /\ q = a.pos /\ k = x[1] /\ v = x[2] /\ p = LowerIn(s, Len(b), k)
  OBVIOUS
<1>2. Extends(s, q, b, f) /\ Firsts(s, c) /\ DOMAIN f \subseteq DOMAIN c
  BY <1>1 DEF GrownTo
<1>3. s \in Seq(Entries) /\ b \in Seq(Entries) /\ k \in Nat /\ c \in Maps
  BY <1>1, <1>2, EntryIs DEF Extends, Increasing, Firsts
<1>4. Len(b) \in 0 .. Len(s) /\ Len(b) \in Nat /\ Len(s) \in Nat
  <2>1. Len(b) \in Nat /\ Len(s) \in Nat
    BY <1>3
  <2>2. Len(b) <= Len(s)
    BY <1>2 DEF Extends
  <2> QED BY <2>1, <2>2
<1>5. Lower(s, Len(b), k, p)
  BY <1>1, <1>3, <1>4, LowerIs
<1>6. AddedTo(d, c, k, v)
  BY <1>1, <1>3, AddIsMap
<1>7. CASE p = Len(b) + 1 \/ k < s[p][1]
  <2>1. PICK t, o : t = Append(s, x) /\ o = FirstNew(q, p)
    OBVIOUS
  <2>2. r = [body |-> t, pos |-> o]
    BY <1>1, <1>7, <2>1 DEF append_unique
  <2>3. r.body = t /\ r.pos = o
    BY <2>2
  <2>4. Extends(t, o, b, f)
    BY <1>1, <1>2, <1>5, <1>7, <2>1, ExtendsAppend
  <2>5. WithEntry(t, s, Len(s) + 1, x)
    BY <1>3, <2>1, AppendOpens
  <2>6. Firsts(t, d)
    BY <1>2, <2>5, FirstsAppend
  <2>7. DOMAIN f \subseteq DOMAIN d
    BY <1>2, <1>6 DEF AddedTo
  <2> QED BY <2>3, <2>4, <2>6, <2>7 DEF GrownTo
<1>8. CASE ~(p = Len(b) + 1 \/ k < s[p][1])
  <2>1. r = a
    BY <1>1, <1>8 DEF append_unique
  <2>2. p \in 1 .. Len(b) /\ p <= Len(b)
    BY <1>4, <1>5, <1>8 DEF Lower
  <2>3. p \in 1 .. Len(s) /\ s[p] = b[p]
    BY <1>2, <2>2 DEF Extends
  <2>4. k <= s[p][1] /\ s[p][1] \in Nat
    BY <1>3, <1>5, <2>2, <2>3, EntryAt DEF Lower
  <2>5. b[p][1] = k
    BY <1>3, <1>8, <2>3, <2>4
  <2>6. k \in DOMAIN f
    BY <2>2, <2>5 DEF Pairs
  <2>7. d = c
    BY <1>2, <1>6, <2>6 DEF AddedTo
  <2> QED BY <2>1, <2>7
<1> QED BY <1>7, <1>8

\* What append_unique leaves.
LEMMA GrownIs ==
  ASSUME NEW b, Increasing(b), NEW f, Pairs(b, f), NEW es \in Seq(Entries),
         NEW a, a = Grown(b, es), NEW r, r = Map!AddAll(f, es)
  PROVE  GrownTo(a, r, b, f)
<1>1. PICK m \in Nat : m = Len(es)
  OBVIOUS
<1>2. b \in Seq(Entries) /\ f \in Maps
  BY DEF Pairs
<1>3. PICK h : AddRun(h, m, f, es, r)
  BY <1>1, <1>2, AddFold
<1>4. PICK g : GrownRun(g, m, b, es, a)
  BY <1>1, <1>2, GrownFold
<1> DEFINE T == {k \in 0 .. m : GrownTo(g[k], h[k], b, f)}
<1>5. 0 \in T
  <2>1. g[0] = [body |-> b, pos |-> End(b)] /\ h[0] = f /\ 0 \in 0 .. m
    BY <1>3, <1>4 DEF AddRun, GrownRun
  <2>2. PICK c, s, q : c = g[0] /\ s = c.body /\ q = c.pos
    OBVIOUS
  <2>3. s = b /\ q = Len(b) + 1
    BY <2>1, <2>2 DEF End
  <2>4. Len(b) \in Nat
    BY <1>2
  <2>5. Extends(s, q, b, f)
    BY <1>2, <2>3, <2>4 DEF Extends
  <2>6. Firsts(b, f)
    BY PairsAre
  <2>7. GrownTo(c, f, b, f)
    BY <2>2, <2>3, <2>5, <2>6 DEF GrownTo
  <2> QED BY <2>1, <2>2, <2>7
<1>6. ASSUME NEW k \in 1 .. m, k - 1 \in T PROVE k \in T
  <2>1. PICK c, d, y, z : c = g[k - 1] /\ d = g[k] /\ y = h[k - 1] /\ z = h[k]
    OBVIOUS
  <2>2. PICK x \in Entries : x = es[k]
    BY <1>1
  <2>3. d = append_unique(Len(b), c, x) /\ z = Map!Add(y, x)
    BY <1>3, <1>4, <2>1, <2>2 DEF AddRun, GrownRun
  <2>4. GrownTo(c, y, b, f)
    BY <1>6, <2>1
  <2>5. GrownTo(d, z, b, f)
    BY <2>3, <2>4, GrownTurn
  <2> QED BY <2>1, <2>5
<1>7. m \in T
  <2> HIDE DEF T
  <2> QED BY <1>5, <1>6, BoundedInduction
<1> QED BY <1>3, <1>4, <1>7 DEF AddRun, GrownRun

\* The same elements in the same places.
LEMMA SameSequence ==
  ASSUME NEW a \in Seq(Entries), NEW b \in Seq(Entries), Len(a) = Len(b), \A i \in 1 .. Len(a) : a[i] = b[i]
  PROVE  a = b
OBVIOUS

\* Both parts of what was joined.
LEMMA PartsOfJoined ==
  ASSUME NEW a \in Seq(Entries), NEW b \in Seq(Entries), NEW t, Chained(t, a, b), NEW c, NEW d, NEW n, n = Len(a),
         Part(c, t, 1, n), Part(d, t, n + 1, Len(t))
  PROVE  c = a /\ d = b
<1>1. n \in Nat /\ Len(b) \in Nat /\ Len(t) = n + Len(b)
  <2>1. n \in Nat /\ Len(b) \in Nat
    OBVIOUS
  <2> QED BY <2>1 DEF Chained
<1>2. Len(c) = n /\ Len(d) = Len(b) /\ c \in Seq(Entries) /\ d \in Seq(Entries)
  <2>1. Len(c) = n - 1 + 1 /\ Len(d) = Len(t) - (n + 1) + 1
    BY DEF Part
  <2>2. c \in Seq(Entries) /\ d \in Seq(Entries)
    BY DEF Part
  <2> QED BY <1>1, <2>1, <2>2
<1>3. ASSUME NEW i \in 1 .. Len(c) PROVE c[i] = a[i]
  <2>1. c[i] = t[(1 - 1) + i] /\ (1 - 1) + i = i
    BY <1>1, <1>2 DEF Part
  <2>2. t[i] = a[i]
    BY <1>2 DEF Chained
  <2> QED BY <2>1, <2>2
<1>4. ASSUME NEW i \in 1 .. Len(d) PROVE d[i] = b[i]
  <2>1. d[i] = t[((n + 1) - 1) + i] /\ ((n + 1) - 1) + i = Len(a) + i
    <3>1. ((n + 1) - 1) + i = Len(a) + i
      BY <1>1, <1>2
    <3> QED BY <3>1 DEF Part
  <2>2. t[Len(a) + i] = b[i]
    BY <1>2 DEF Chained
  <2> QED BY <2>1, <2>2
<1>5. c = a
  BY <1>2, <1>3, SameSequence
<1>6. d = b
  BY <1>2, <1>4, SameSequence
<1> QED BY <1>5, <1>6

\* What lies behind b, sorted and unified.
LEMMA TailSorted ==
  ASSUME NEW b, Increasing(b), NEW f, NEW s, NEW q, Extends(s, q, b, f), NEW n, n = Len(b),
         NEW c, c = SortAndUnique(s, n + 1)
  PROVE  \E tail, u, g : /\ Chained(s, b, tail) /\ Chained(c, b, u) /\ tail \in Seq(Entries)
                         /\ Firsts(tail, g) /\ Firsts(u, g) /\ Increasing(u)
<1>1. b \in Seq(Entries) /\ s \in Seq(Entries)
  BY DEF Increasing, Extends
<1>2. n \in Nat /\ Len(s) \in Nat /\ n <= Len(s)
  BY <1>1 DEF Extends
<1>3. PICK w, tail, u, g : /\ w = SubSeq(s, 1, n) /\ tail = SubSeq(s, n + 1, Len(s))
                          /\ u = Unique(StableSort(tail)) /\ g = Map!AddAll(<<>>, tail)
  OBVIOUS
<1>4. Part(w, s, 1, n)
  <2>1. 1 \in 1 .. (Len(s) + 1) /\ n \in (1 - 1) .. Len(s)
    BY <1>2
  <2> QED BY <1>1, <1>3, <2>1, PartIs
<1>5. Part(tail, s, n + 1, Len(s))
  <2>1. n + 1 \in 1 .. (Len(s) + 1) /\ Len(s) \in ((n + 1) - 1) .. Len(s)
    BY <1>2
  <2> QED BY <1>1, <1>3, <2>1, PartIs
<1>6. w = b
  <2>1. w \in Seq(Entries) /\ Len(w) = n - 1 + 1
    BY <1>4 DEF Part
  <2>2. Len(w) = Len(b)
    BY <1>2, <2>1
  <2>3. ASSUME NEW i \in 1 .. Len(w) PROVE w[i] = b[i]
    <3>1. w[i] = s[(1 - 1) + i] /\ (1 - 1) + i = i
      BY <1>2, <2>1, <1>4 DEF Part
    <3>2. s[i] = b[i]
      BY <2>2 DEF Extends
    <3> QED BY <3>1, <3>2
  <2> QED BY <1>1, <2>1, <2>2, <2>3, SameSequence
<1>7. Chained(s, b, tail)
  <2>1. PICK p : p = n + 1
    OBVIOUS
  <2>2. p \in 1 .. (Len(s) + 1) /\ p - 1 = n
    BY <1>2, <2>1
  <2> QED BY <1>1, <1>4, <1>5, <1>6, <2>1, <2>2, PartsJoin
<1>8. tail \in Seq(Entries)
  BY <1>5 DEF Part
<1>9. Firsts(tail, g)
  BY <1>3, <1>8, FirstsAll
<1>10. Firsts(u, g) /\ Increasing(u)
  BY <1>3, <1>8, SortUnique
<1>11. Chained(c, b, u)
  <2>1. (n + 1) - 1 = n
    BY <1>2
  <2>2. c = w \o u
    BY <1>3, <2>1 DEF SortAndUnique
  <2>3. u \in Seq(Entries)
    BY <1>10 DEF Increasing
  <2> QED BY <1>1, <1>6, <2>2, <2>3, JoinedIs
<1> QED BY <1>7, <1>8, <1>9, <1>10, <1>11

\* Merging increasing elements into the increasing ones from position q on.
LEMMA MergeIs ==
  ASSUME NEW b, Increasing(b), NEW f, Pairs(b, f), NEW s, NEW q, Extends(s, q, b, f),
         NEW r, Firsts(s, r), NEW tail, NEW u, NEW g, NEW c, Chained(s, b, tail), Chained(c, b, u),
         tail \in Seq(Entries), Firsts(tail, g), Firsts(u, g), Increasing(u), NEW n, n = Len(b),
         NEW t, t = InplaceMerge(c, q, n + 1)
  PROVE  Firsts(t, r) /\ Increasing(t)
<1>1. b \in Seq(Entries) /\ s \in Seq(Entries) /\ c \in Seq(Entries) /\ u \in Seq(Entries)
  BY DEF Increasing, Extends, Chained
<1>2. n \in Nat /\ Len(u) \in Nat /\ Len(tail) \in Nat /\ Len(c) = n + Len(u) /\ Len(s) = n + Len(tail) /\ q \in 1 .. (n + 1)
  BY <1>1 DEF Extends, Chained
<1>3. PICK low, high, rest, mid :
        /\ low = SubSeq(c, 1, q - 1) /\ high = SubSeq(c, q, (n + 1) - 1) /\ rest = SubSeq(c, n + 1, Len(c))
        /\ mid = Merged(high, rest)
  OBVIOUS
<1>4. t = low \o mid
  BY <1>3 DEF InplaceMerge
<1>5. Part(low, c, 1, q - 1) /\ Part(high, c, q, n) /\ Part(rest, c, n + 1, Len(c))
  <2>1. /\ 1 \in 1 .. (Len(c) + 1) /\ q - 1 \in (1 - 1) .. Len(c) /\ q \in 1 .. (Len(c) + 1) /\ (n + 1) - 1 = n
        /\ n \in (q - 1) .. Len(c) /\ n + 1 \in 1 .. (Len(c) + 1) /\ Len(c) \in ((n + 1) - 1) .. Len(c)
    BY <1>2
  <2>2. Part(low, c, 1, q - 1)
    BY <1>1, <1>3, <2>1, PartIs
  <2>3. high = SubSeq(c, q, n)
    BY <1>3, <2>1
  <2>4. Part(high, c, q, n)
    BY <1>1, <2>1, <2>3, PartIs
  <2>5. Part(rest, c, n + 1, Len(c))
    BY <1>1, <1>3, <2>1, PartIs
  <2> QED BY <2>2, <2>4, <2>5
<1>6. rest = u
  <2>1. PICK w : w = SubSeq(c, 1, n)
    OBVIOUS
  <2>2. 1 \in 1 .. (Len(c) + 1) /\ n \in (1 - 1) .. Len(c)
    BY <1>2
  <2>3. Part(w, c, 1, n)
    BY <1>1, <2>1, <2>2, PartIs
  <2>4. Chained(c, b, u) /\ n = Len(b) /\ Part(rest, c, n + 1, Len(c))
    BY <1>5
  <2>5. w = b /\ rest = u
    BY ONLY <1>1, <2>3, <2>4, PartsOfJoined
  <2> QED BY <2>5
<1>7. Part(low, b, 1, q - 1) /\ Part(high, b, q, n)
  <2>1. \A i \in 1 .. n : i \in 1 .. Len(c) /\ c[i] = b[i]
    BY DEF Chained
  <2>2. low \in Seq(Entries) /\ high \in Seq(Entries) /\ Len(low) = q - 1 - 1 + 1 /\ Len(high) = n - q + 1
    BY <1>5 DEF Part
  <2>3. ASSUME NEW i \in 1 .. Len(low) PROVE (1 - 1) + i \in 1 .. Len(b) /\ low[i] = b[(1 - 1) + i]
    <3>1. (1 - 1) + i = i /\ i \in 1 .. n
      BY <1>2, <2>2
    <3>2. low[i] = c[(1 - 1) + i]
      BY <1>5 DEF Part
    <3> QED BY <2>1, <3>1, <3>2
  <2>4. ASSUME NEW i \in 1 .. Len(high) PROVE (q - 1) + i \in 1 .. Len(b) /\ high[i] = b[(q - 1) + i]
    <3>1. (q - 1) + i \in 1 .. n
      BY <1>2, <2>2
    <3>2. high[i] = c[(q - 1) + i]
      BY <1>5 DEF Part
    <3> QED BY <2>1, <3>1, <3>2
  <2> QED BY <2>2, <2>3, <2>4 DEF Part
<1>8. Chained(b, low, high)
  <2>1. q \in 1 .. (Len(b) + 1) /\ Part(low, b, 1, q - 1) /\ Part(high, b, q, Len(b))
    BY <1>2, <1>7
  <2> QED BY <1>1, <2>1, PartsJoin
<1>9. low \in Seq(Entries) /\ high \in Seq(Entries)
  BY <1>7 DEF Part
<1>10. Increasing(low) /\ Increasing(high) /\ Below(low, high)
  BY <1>8, <1>9, IncreasingParts
<1>11. PICK fl, fh, d, e, v : /\ fl = Map!AddAll(<<>>, low) /\ fh = Map!AddAll(<<>>, high)
                             /\ d = Over(fl, fh) /\ e = Over(fh, g) /\ v = Map!AddAll(fh, u)
  OBVIOUS
<1>12. Firsts(low, fl) /\ Firsts(high, fh)
  BY <1>9, <1>11, FirstsAll
<1>13. d = f
  <2>1. Firsts(b, d)
    BY <1>8, <1>11, <1>12, FirstsJoined
  <2>2. Firsts(b, f)
    BY PairsAre
  <2> QED BY <2>1, <2>2, FirstsUnique
<1>14. v = e
  <2>1. PICK y : y = high \o u
    OBVIOUS
  <2>2. Chained(y, high, u)
    BY <1>1, <1>9, <2>1, JoinedIs
  <2>3. Firsts(y, e)
    BY <1>11, <1>12, <2>2, FirstsJoined
  <2>4. Firsts(y, v)
    BY <1>1, <1>11, <1>12, <2>2, FirstsRun
  <2> QED BY <2>3, <2>4, FirstsUnique
<1>15. \A k \in DOMAIN g : \E j \in 1 .. Len(s) : Len(b) < j /\ s[j][1] = k
  <2> SUFFICES ASSUME NEW k \in DOMAIN g PROVE \E j \in 1 .. Len(s) : Len(b) < j /\ s[j][1] = k
    OBVIOUS
  <2>1. PICK i \in 1 .. Len(tail) : tail[i][1] = k
    BY KeyAt
  <2>2. PICK j \in 1 .. Len(s) : j = Len(b) + i /\ s[j] = tail[i]
    BY DEF Chained
  <2>3. Len(b) < j
    BY <1>2, <2>2
  <2> QED BY <2>1, <2>2, <2>3
<1>16. NewTo(u, 1, fh)
  <2> SUFFICES ASSUME NEW i \in 1 .. Len(u) PROVE u[i][1] \notin DOMAIN fh
    BY DEF NewTo
  <2>1. PICK k : k = u[i][1]
    OBVIOUS
  <2>2. k \in DOMAIN g
    BY <2>1 DEF Firsts
  <2>3. k \notin DOMAIN f
    BY <1>15, <2>2 DEF Extends
  <2>4. DOMAIN f = DOMAIN fl \cup DOMAIN fh
    BY <1>11, <1>13 DEF Over
  <2> QED BY <2>1, <2>3, <2>4
<1>17. Firsts(mid, e) /\ Increasing(mid)
  <2>1. mid = Merged(high, u)
    BY <1>3, <1>6
  <2>2. Firsts(mid, v) /\ Increasing(mid)
    BY <1>10, <1>11, <1>12, <1>16, <2>1, MergedIncreasing
  <2> QED BY <1>14, <2>2
<1>18. Below(low, mid)
  <2> SUFFICES ASSUME NEW i \in 1 .. Len(low), NEW j \in 1 .. Len(mid) PROVE low[i][1] < mid[j][1]
    BY DEF Below
  <2>1. PICK k : k = mid[j][1]
    OBVIOUS
  <2>2. k \in DOMAIN e
    BY <1>17, <2>1 DEF Firsts
  <2>3. k \in DOMAIN fh \/ k \in DOMAIN g
    BY <1>11, <2>2 DEF Over
  <2>4. CASE k \in DOMAIN fh
    <3>1. PICK x \in 1 .. Len(high) : high[x][1] = k
      BY <1>12, <2>4, KeyAt
    <3>2. low[i][1] < high[x][1]
      BY <1>10 DEF Below
    <3> QED BY <2>1, <3>1, <3>2
  <2>5. CASE k \in DOMAIN g
    <3>1. PICK x \in 1 .. Len(s) : Len(b) < x /\ s[x][1] = k
      BY <1>15, <2>5
    <3>2. Len(low) = q - 1 /\ low[i] = b[i]
      <4>1. Len(low) = q - 1 - 1 + 1 /\ low[i] = b[(1 - 1) + i]
        BY <1>7 DEF Part
      <4>2. (1 - 1) + i = i /\ q - 1 - 1 + 1 = q - 1
        BY <1>2, <4>1
      <4> QED BY <4>1, <4>2
    <3>3. b[i][1] < s[x][1]
      BY <3>1, <3>2 DEF Extends
    <3> QED BY <2>1, <3>1, <3>2, <3>3
  <2> QED BY <2>3, <2>4, <2>5
<1>19. Chained(t, low, mid)
  <2>1. mid \in Seq(Entries)
    BY <1>17 DEF Increasing
  <2> QED BY <1>4, <1>9, <2>1, JoinedIs
<1>20. Increasing(t)
  BY <1>10, <1>17, <1>18, <1>19, IncreasingJoined
<1>21. PICK y : y = Over(fl, e)
  OBVIOUS
<1>22. Firsts(t, y)
  BY <1>12, <1>17, <1>19, <1>21, FirstsJoined
<1>23. y = r
  <2>1. PICK z : z = Over(f, g)
    OBVIOUS
  <2>2. Firsts(b, f)
    BY PairsAre
  <2>3. Firsts(s, z)
    BY <2>1, <2>2, FirstsJoined
  <2>4. z = r
    BY <2>3, FirstsUnique
  <2>5. Over(d, g) = Over(fl, e)
    BY <1>11, OverAssoc
  <2> QED BY <1>13, <1>21, <2>1, <2>4, <2>5
<1> QED BY <1>20, <1>22, <1>23

\* The insertion of several elements at once.
LEMMA InsertsMany ==
  ASSUME NEW b, Increasing(b), NEW f, Pairs(b, f), NEW es \in Seq(Entries), es # <<>>, Len(es) # 1,
         NEW t, t = InsertMany(b, es), NEW r, r = Map!AddAll(f, es)
  PROVE  Pairs(t, r) /\ Increasing(t)
<1>1. PICK a, s, q, n : a = Grown(b, es) /\ s = a.body /\ q = a.pos /\ n = Len(b)
  OBVIOUS
<1>2. PICK c : c = SortAndUnique(s, n + 1)
  OBVIOUS
<1>3. t = InplaceMerge(c, q, n + 1)
  BY <1>1, <1>2 DEF InsertMany, End
<1>4. GrownTo(a, r, b, f)
  BY <1>1, GrownIs
<1>5. Extends(s, q, b, f) /\ Firsts(s, r)
  BY <1>1, <1>4 DEF GrownTo
<1>6. PICK tail, u, g : /\ Chained(s, b, tail) /\ Chained(c, b, u) /\ tail \in Seq(Entries)
                        /\ Firsts(tail, g) /\ Firsts(u, g) /\ Increasing(u)
  BY <1>1, <1>2, <1>5, TailSorted
<1>7. Firsts(t, r) /\ Increasing(t)
  BY <1>1, <1>3, <1>5, <1>6, MergeIs
<1> QED BY <1>7, PairsAre

\* The map that increasing elements are.
MapOf(b) == [k \in {b[i][1] : i \in DOMAIN b} |-> (CHOOSE e \in ToSet(b) : e[1] = k)[2]]

\* It is the only one that they are the pairs of.
LEMMA MapOfIs ==
  ASSUME NEW b, Increasing(b)
  PROVE  Pairs(b, MapOf(b)) /\ \A f : Pairs(b, f) => f = MapOf(b)
<1>1. b \in Seq(Entries) /\ DOMAIN b = 1 .. Len(b) /\ Len(b) \in Nat
  <2>1. b \in Seq(Entries)
    BY DEF Increasing
  <2> QED BY <2>1
<1>2. ASSUME NEW f, Pairs(b, f) PROVE f = MapOf(b)
  <2>1. f \in [DOMAIN f -> Values]
    BY <1>2, MapIs DEF Pairs
  <2>2. DOMAIN f = {b[i][1] : i \in DOMAIN b}
    <3>1. \A k \in DOMAIN f : \E i \in DOMAIN b : b[i][1] = k
      BY <1>1, <1>2 DEF Pairs
    <3>2. \A i \in DOMAIN b : b[i][1] \in DOMAIN f
      BY <1>1, <1>2 DEF Pairs
    <3> QED BY <3>1, <3>2
  <2>3. ASSUME NEW k \in DOMAIN f PROVE (CHOOSE e \in ToSet(b) : e[1] = k)[2] = f[k]
    <3>1. PICK i \in DOMAIN b : b[i][1] = k
      BY <1>1, <1>2 DEF Pairs
    <3>2. b[i] \in ToSet(b)
      BY DEF ToSet
    <3>3. PICK e : e = CHOOSE x \in ToSet(b) : x[1] = k
      OBVIOUS
    <3>4. e \in ToSet(b) /\ e[1] = k
      BY <3>1, <3>2, <3>3
    <3>5. PICK j \in DOMAIN b : e = b[j]
      BY <3>4 DEF ToSet
    <3>6. b[j][2] = f[b[j][1]]
      BY <1>1, <1>2 DEF Pairs
    <3> QED BY <3>3, <3>4, <3>5, <3>6
  <2> QED BY <2>1, <2>2, <2>3 DEF MapOf
<1>3. PICK f : f = Map!AddAll(<<>>, b)
  OBVIOUS
<1>4. Pairs(b, f)
  BY <1>1, <1>3, FirstsAll, PairsAre
<1> QED BY <1>2, <1>4

\* The first position whose key is not less than k, among increasing elements.
LEMMA LowerSplits ==
  ASSUME NEW b, Increasing(b), NEW f, Pairs(b, f), NEW k \in Nat, NEW p, p = lower_bound(b, k)
  PROVE  /\ p \in 1 .. (Len(b) + 1) /\ Len(b) \in Nat
         /\ \A i \in 1 .. Len(b) : b[i][1] \in Nat /\ (i < p => b[i][1] < k) /\ (p < i => k < b[i][1])
         /\ p \in 1 .. Len(b) => k <= b[p][1]
         /\ (p = End(b) \/ k < b[p][1]) => Between(b, p, k) /\ k \notin DOMAIN f
         /\ ~(p = End(b) \/ k < b[p][1]) => p \in 1 .. Len(b) /\ b[p][1] = k /\ k \in DOMAIN f
<1>1. b \in Seq(Entries)
  BY DEF Increasing
<1>2. Len(b) \in Nat /\ Len(b) \in 0 .. Len(b) /\ \A i \in 1 .. Len(b) : b[i][1] \in Nat
  <2>1. Len(b) \in Nat /\ \A i \in 1 .. Len(b) : b[i][1] \in Nat
    BY <1>1, EntryAt
  <2> QED BY <2>1
<1>3. Lower(b, Len(b), k, p)
  BY <1>1, <1>2, LowerIs DEF lower_bound
<1>4. p \in 1 .. (Len(b) + 1) /\ (p <= Len(b) => k <= b[p][1])
  BY <1>3 DEF Lower
<1>5. ASSUME NEW i \in 1 .. Len(b), i < p PROVE b[i][1] < k
  <2>1. i \in 1 .. (p - 1)
    BY <1>2, <1>4, <1>5
  <2> QED BY <1>3, <2>1 DEF Lower
<1>6. ASSUME NEW i \in 1 .. Len(b), p < i PROVE k < b[i][1]
  <2>1. p \in 1 .. (i - 1) /\ p \in 1 .. Len(b) /\ p <= Len(b)
    BY <1>2, <1>4, <1>6
  <2>2. b[p][1] < b[i][1]
    BY <2>1 DEF Increasing
  <2>3. k <= b[p][1] /\ b[p][1] \in Nat /\ b[i][1] \in Nat
    BY <1>2, <1>4, <2>1
  <2> QED BY <2>2, <2>3
<1>7. ASSUME p = End(b) \/ k < b[p][1] PROVE Between(b, p, k) /\ k \notin DOMAIN f
  <2>1. \A i \in 1 .. (p - 1) : b[i][1] < k
    BY <1>3 DEF Lower
  <2>2. ASSUME NEW i \in p .. Len(b) PROVE k < b[i][1]
    <3>1. i \in 1 .. Len(b) /\ p # End(b)
      BY <1>2, <1>4 DEF End
    <3>2. CASE i = p
      BY <1>7, <3>1, <3>2
    <3>3. CASE i # p
      <4>1. p < i
        BY <1>2, <1>4, <3>3
      <4> QED BY <1>6, <3>1, <4>1
    <3> QED BY <3>2, <3>3
  <2>3. k \notin DOMAIN f
    <3> SUFFICES ASSUME k \in DOMAIN f PROVE FALSE
      OBVIOUS
    <3>1. PICK i \in 1 .. Len(b) : b[i][1] = k
      BY DEF Pairs
    <3>2. i \in 1 .. (p - 1) \/ i \in p .. Len(b)
      BY <1>2, <1>4
    <3> QED BY <2>1, <2>2, <3>1, <3>2
  <2> QED BY <2>1, <2>2, <2>3 DEF Between
<1>8. ASSUME ~(p = End(b) \/ k < b[p][1]) PROVE p \in 1 .. Len(b) /\ b[p][1] = k /\ k \in DOMAIN f
  <2>1. p \in 1 .. Len(b) /\ p <= Len(b)
    BY <1>2, <1>4, <1>8 DEF End
  <2>2. b[p][1] = k
    BY <1>2, <1>4, <1>8, <2>1
  <2>3. b[p][1] \in DOMAIN f
    BY <2>1 DEF Pairs
  <2> QED BY <2>1, <2>2, <2>3
<1>9. p \in 1 .. Len(b) => p <= Len(b)
  BY <1>2
<1> QED BY <1>2, <1>4, <1>5, <1>6, <1>7, <1>8, <1>9

\* The same of upper_bound.
LEMMA UpperSplits ==
  ASSUME NEW b, Increasing(b), NEW k \in Nat, NEW p, p = upper_bound(b, k)
  PROVE  /\ p \in 1 .. (Len(b) + 1)
         /\ \A i \in 1 .. Len(b) : (i < p => b[i][1] <= k) /\ (p <= i => k < b[i][1])
<1>1. b \in Seq(Entries)
  BY DEF Increasing
<1>2. Len(b) \in Nat /\ Len(b) \in 0 .. Len(b)
  <2>1. Len(b) \in Nat
    BY <1>1
  <2> QED BY <2>1
<1>3. Upper(b, Len(b), k, p)
  BY <1>1, <1>2, UpperIs DEF upper_bound
<1>4. NotBefore(b, p, k) /\ p \in 1 .. (Len(b) + 1)
  BY <1>3, IncreasingSorted, UpperBehind
<1>5. ASSUME NEW i \in 1 .. Len(b), i < p PROVE b[i][1] <= k
  <2>1. i \in 1 .. (p - 1)
    BY <1>2, <1>4, <1>5
  <2> QED BY <1>4, <2>1 DEF NotBefore
<1>6. ASSUME NEW i \in 1 .. Len(b), p <= i PROVE k < b[i][1]
  <2>1. i \in p .. Len(b)
    BY <1>2, <1>4, <1>6
  <2> QED BY <1>4, <2>1 DEF NotBefore
<1> QED BY <1>4, <1>5, <1>6

\* A new element at the position its key belongs to.
LEMMA InsertNew ==
  ASSUME NEW b, Increasing(b), NEW f, Pairs(b, f), NEW x \in Entries, NEW k, k = x[1],
         NEW p \in 1 .. (Len(b) + 1), Between(b, p, k), NEW t, t = InsertAt(b, p, x), NEW g, g = Map!Add(f, x)
  PROVE  Increasing(t) /\ Pairs(t, g) /\ p \in 1 .. Len(t) /\ t[p] = x /\ k \notin DOMAIN f
<1>1. b \in Seq(Entries)
  BY DEF Increasing
<1>2. WithEntry(t, b, p, x)
  BY <1>1, InsertOpens
<1>3. Increasing(t)
  BY <1>2, IncreasingOpened
<1>4. AbsentFrom(b, p, k) /\ k \notin DOMAIN f
  <2>1. Len(b) \in Nat /\ k \in Nat /\ \A i \in 1 .. Len(b) : b[i][1] \in Nat
    BY <1>1, EntryAt, EntryIs
  <2>2. ASSUME NEW i \in 1 .. Len(b) PROVE b[i][1] # k
    <3>1. i \in 1 .. (p - 1) \/ i \in p .. Len(b)
      BY <2>1
    <3>2. b[i][1] < k \/ k < b[i][1]
      BY <3>1 DEF Between
    <3> QED BY <2>1, <3>2
  <2>3. \A i \in p .. Len(b) : i \in 1 .. Len(b)
    BY <2>1
  <2> QED BY <2>2, <2>3 DEF AbsentFrom, Pairs
<1>5. Firsts(b, f)
  BY PairsAre
<1>6. Firsts(t, g)
  BY <1>2, <1>4, <1>5, FirstsOpened
<1>7. Pairs(t, g)
  BY <1>3, <1>6, PairsAre
<1>8. p \in 1 .. Len(t) /\ t[p] = x
  <2>1. Len(b) \in Nat
    BY <1>1
  <2> QED BY <1>2, <2>1 DEF WithEntry
<1> QED BY <1>3, <1>4, <1>7, <1>8

\* s is what an insertion of x makes of elements that are f, i is where it is, and
\* no tells that it is new.
EmplacedIn(s, i, no, f, x) ==
  /\ Increasing(s) /\ Pairs(s, Map!Add(f, x)) /\ i \in 1 .. Len(s) /\ s[i][1] = x[1]
  /\ no = TRUE => x[1] \notin DOMAIN f /\ s[i] = x
  /\ no = FALSE => x[1] \in DOMAIN f
Emplaces(r, f, x) ==
  \E s, i, no : no \in BOOLEAN /\ r = Placed(s, i, no) /\ EmplacedIn(s, i, no, f, x)

\* Nothing is inserted where the key is.
LEMMA EmplaceOld ==
  ASSUME NEW b, Increasing(b), NEW f, Pairs(b, f), NEW x \in Entries, NEW p \in 1 .. Len(b), b[p][1] = x[1]
  PROVE  EmplacedIn(b, p, FALSE, f, x)
<1>1. PICK k, v, g : k = x[1] /\ v = x[2] /\ g = Map!Add(f, x)
  OBVIOUS
<1>2. f \in Maps
  BY DEF Pairs
<1>3. AddedTo(g, f, k, v)
  BY <1>1, <1>2, AddIsMap
<1>4. k \in DOMAIN f
  BY <1>1 DEF Pairs
<1>5. g = f
  BY <1>3, <1>4 DEF AddedTo
<1>6. Pairs(b, Map!Add(f, x))
  BY <1>1, <1>5
<1> QED BY <1>1, <1>4, <1>6 DEF EmplacedIn

\* It is inserted where its key belongs.
LEMMA EmplaceNew ==
  ASSUME NEW b, Increasing(b), NEW f, Pairs(b, f), NEW x \in Entries, NEW k, k = x[1],
         NEW p \in 1 .. (Len(b) + 1), Between(b, p, k), NEW t, t = InsertAt(b, p, x)
  PROVE  EmplacedIn(t, p, TRUE, f, x)
<1>1. PICK g : g = Map!Add(f, x)
  OBVIOUS
<1>2. Increasing(t) /\ Pairs(t, g) /\ p \in 1 .. Len(t) /\ t[p] = x /\ k \notin DOMAIN f
  BY <1>1, InsertNew
<1> QED BY <1>1, <1>2 DEF EmplacedIn

\* emplace_key_args.
LEMMA EmplaceKey ==
  ASSUME NEW b, Increasing(b), NEW f, Pairs(b, f), NEW x \in Entries, NEW r, r = emplace_key_args(b, x)
  PROVE  Emplaces(r, f, x)
<1>1. PICK k \in Nat : k = x[1]
  BY EntryIs
<1>2. PICK p : p = lower_bound(b, k)
  OBVIOUS
<1>3. /\ p \in 1 .. (Len(b) + 1)
      /\ (p = End(b) \/ k < b[p][1]) => Between(b, p, k) /\ k \notin DOMAIN f
      /\ ~(p = End(b) \/ k < b[p][1]) => p \in 1 .. Len(b) /\ b[p][1] = k /\ k \in DOMAIN f
  BY <1>2, LowerSplits
<1>4. CASE p = End(b) \/ k < b[p][1]
  <2>1. PICK t : t = InsertAt(b, p, x)
    OBVIOUS
  <2>2. r = Placed(t, p, TRUE)
    BY <1>1, <1>2, <1>4, <2>1 DEF emplace_key_args
  <2>3. EmplacedIn(t, p, TRUE, f, x)
    BY <1>1, <1>3, <1>4, <2>1, EmplaceNew
  <2> QED BY <2>2, <2>3 DEF Emplaces
<1>5. CASE ~(p = End(b) \/ k < b[p][1])
  <2>1. r = Placed(b, p, FALSE)
    BY <1>1, <1>2, <1>5 DEF emplace_key_args
  <2>2. EmplacedIn(b, p, FALSE, f, x)
    BY <1>1, <1>3, <1>5, EmplaceOld
  <2> QED BY <2>1, <2>2 DEF Emplaces
<1> QED BY <1>4, <1>5

\* emplace_hint_key_args: whatever the hint.
LEMMA EmplaceHint ==
  ASSUME NEW b, Increasing(b), NEW f, Pairs(b, f), NEW x \in Entries, NEW h \in 1 .. (Len(b) + 1),
         NEW r, r = emplace_hint_key_args(b, h, x)
  PROVE  Emplaces(r, f, x)
<1>1. PICK k \in Nat : k = x[1]
  BY EntryIs
<1>2. b \in Seq(Entries)
  BY DEF Increasing
<1>3. Len(b) \in Nat /\ h \in Nat /\ \A i \in 1 .. Len(b) : b[i][1] \in Nat
  BY <1>2, EntryAt
<1>4. ASSUME Follows(b, h, k) PROVE \A i \in 1 .. (h - 1) : b[i][1] < k
  <2> SUFFICES ASSUME NEW i \in 1 .. (h - 1) PROVE b[i][1] < k
    OBVIOUS
  <2>1. i \in 1 .. Len(b) /\ h - 1 \in 1 .. Len(b) /\ h # 1
    BY <1>3
  <2>2. b[h - 1][1] < k
    BY <1>4, <2>1 DEF Follows
  <2>3. CASE i = h - 1
    BY <2>2, <2>3
  <2>4. CASE i # h - 1
    <3>1. i \in 1 .. ((h - 1) - 1)
      BY <1>3, <2>4
    <3>2. b[i][1] < b[h - 1][1]
      BY <2>1, <3>1 DEF Increasing
    <3> QED BY <1>3, <2>1, <2>2, <3>2
  <2> QED BY <2>3, <2>4
<1>5. CASE Follows(b, h, k) /\ (h = End(b) \/ k < b[h][1])
  <2>1. PICK t : t = InsertAt(b, h, x)
    OBVIOUS
  <2>2. r = Placed(t, h, TRUE)
    BY <1>1, <1>5, <2>1 DEF emplace_hint_key_args
  <2>3. ASSUME NEW i \in h .. Len(b) PROVE k < b[i][1]
    <3>1. i \in 1 .. Len(b) /\ h # End(b) /\ h \in 1 .. Len(b)
      BY <1>3 DEF End
    <3>2. k < b[h][1]
      BY <1>5, <3>1
    <3>3. CASE i = h
      BY <3>2, <3>3
    <3>4. CASE i # h
      <4>1. h \in 1 .. (i - 1)
        BY <1>3, <3>4
      <4>2. b[h][1] < b[i][1]
        BY <3>1, <4>1 DEF Increasing
      <4> QED BY <1>3, <3>1, <3>2, <4>2
    <3> QED BY <3>3, <3>4
  <2>4. Between(b, h, k)
    BY <1>4, <1>5, <2>3 DEF Between
  <2>5. EmplacedIn(t, h, TRUE, f, x)
    BY <1>1, <2>1, <2>4, EmplaceNew
  <2> QED BY <2>2, <2>5 DEF Emplaces
<1>6. CASE Follows(b, h, k) /\ ~(h = End(b) \/ k < b[h][1]) /\ ~(b[h][1] < k)
  <2>1. r = Placed(b, h, FALSE)
    BY <1>1, <1>6 DEF emplace_hint_key_args
  <2>2. h \in 1 .. Len(b)
    BY <1>3, <1>6 DEF End
  <2>3. b[h][1] = k
    BY <1>3, <1>6, <2>2
  <2>4. EmplacedIn(b, h, FALSE, f, x)
    BY <1>1, <2>2, <2>3, EmplaceOld
  <2> QED BY <2>1, <2>4 DEF Emplaces
<1>7. CASE ~(Follows(b, h, k) /\ ~(b[h][1] < k)) /\ ~(Follows(b, h, k) /\ (h = End(b) \/ k < b[h][1]))
  <2>1. r = emplace_key_args(b, x)
    BY <1>1, <1>7 DEF emplace_hint_key_args
  <2> QED BY <2>1, EmplaceKey
<1> QED BY <1>5, <1>6, <1>7

\* The ranges that are inserted are sequences of elements.
LEMMA RangesAre ==
  ASSUME NEW es \in SeqOf(Keys \X Values, MaxRange)
  PROVE  es \in Seq(Entries) /\ es \in Map!Ranges
<1>1. MaxRange \in Nat
  BY ElementsAssumption
<1>2. es \in Seq(Entries)
  BY <1>1 DEF SeqOf, Entries
<1>3. es \in Map!Ranges
  BY DEF Map!Ranges, Map!SeqOf, SeqOf
<1> QED BY <1>2, <1>3

\* What no element and one element are added to.
LEMMA AddFew ==
  ASSUME NEW f \in Maps, NEW es \in Seq(Entries), NEW r, r = Map!AddAll(f, es)
  PROVE  (es = <<>> => r = f) /\ (Len(es) = 1 => r = Map!Add(f, es[1]))
<1>1. PICK m \in Nat : m = Len(es)
  OBVIOUS
<1>2. PICK g : AddRun(g, m, f, es, r)
  BY <1>1, AddFold
<1>3. ASSUME es = <<>> PROVE r = f
  <2>1. m = 0
    BY <1>1, <1>3
  <2> QED BY <1>2, <2>1 DEF AddRun
<1>4. ASSUME Len(es) = 1 PROVE r = Map!Add(f, es[1])
  <2>1. m = 1
    BY <1>1, <1>4
  <2>2. g[0] = f /\ g[1] = r
    BY <1>2, <2>1 DEF AddRun
  <2>3. \A k \in 1 .. 1 : g[k] = Map!Add(g[k - 1], es[k])
    BY <1>2, <2>1 DEF AddRun
  <2>4. g[1] = Map!Add(g[1 - 1], es[1])
    BY <2>3
  <2>5. 1 - 1 = 0
    OBVIOUS
  <2> QED BY <2>2, <2>4, <2>5
<1> QED BY <1>3, <1>4

\* insert(first, last), of a range of any length.
LEMMA InsertsRange ==
  ASSUME NEW b, Increasing(b), NEW f, Pairs(b, f), NEW es \in Seq(Entries),
         NEW t, t = InsertMany(b, es), NEW r, r = Map!AddAll(f, es)
  PROVE  Pairs(t, r) /\ Increasing(t)
<1>1. f \in Maps /\ b \in Seq(Entries)
  BY DEF Pairs
<1>2. CASE es = <<>>
  <2>1. t = b
    BY <1>2 DEF InsertMany
  <2>2. r = f
    BY <1>1, <1>2, AddFew
  <2> QED BY <2>1, <2>2
<1>3. CASE Len(es) = 1
  <2>1. es # <<>>
    BY <1>3
  <2>2. PICK x : x = es[1]
    OBVIOUS
  <2>3. x \in Entries
    BY <1>3, <2>2
  <2>4. PICK h : h = Len(b) + 1
    OBVIOUS
  <2>5. h \in 1 .. (Len(b) + 1)
    <3>1. Len(b) \in Nat
      BY <1>1
    <3> QED BY <2>4, <3>1
  <2>6. PICK p : p = emplace_hint_key_args(b, h, x)
    OBVIOUS
  <2>7. t = p.body
    BY <1>3, <2>1, <2>2, <2>4, <2>6 DEF InsertMany, End
  <2>8. Emplaces(p, f, x)
    BY <2>3, <2>5, <2>6, EmplaceHint
  <2>9. PICK s, i, no : p = Placed(s, i, no) /\ EmplacedIn(s, i, no, f, x)
    BY <2>8 DEF Emplaces
  <2>10. t = s
    BY <2>7, <2>9 DEF Placed
  <2>11. r = Map!Add(f, x)
    BY <1>1, <1>3, <2>2, AddFew
  <2> QED BY <2>9, <2>10, <2>11 DEF EmplacedIn
<1>4. CASE es # <<>> /\ Len(es) # 1
  BY <1>4, InsertsMany
<1> QED BY <1>2, <1>3, <1>4

\* The constructors and operator=, which sort what they are given.
LEMMA AssignsRange ==
  ASSUME NEW es \in Seq(Entries), NEW t, t = SortAndUnique(es, 1), NEW r, r = Map!AddAll(<<>>, es)
  PROVE  Pairs(t, r) /\ Increasing(t)
<1>1. PICK u : u = Unique(StableSort(es))
  OBVIOUS
<1>2. Firsts(u, r) /\ Increasing(u)
  BY <1>1, SortUnique
<1>3. u \in Seq(Entries)
  BY <1>2 DEF Firsts
<1>4. SubSeq(es, 1, Len(es)) = es /\ SubSeq(es, 1, 1 - 1) = <<>>
  <2>1. SubSeq(es, 1, Len(es)) = es
    OBVIOUS
  <2>2. SubSeq(es, 1, 1 - 1) = <<>>
    OBVIOUS
  <2> QED BY <2>1, <2>2
<1>5. t = <<>> \o u
  BY <1>1, <1>4 DEF SortAndUnique
<1>6. t = u
  BY <1>3, <1>5
<1>7. Pairs(u, r)
  BY <1>2, PairsAre
<1> QED BY <1>2, <1>6, <1>7

\* Elements whose keys each follow the one before are increasing.
LEMMA StepsIncrease ==
  ASSUME NEW es \in Seq(Entries), \A i \in 1 .. (Len(es) - 1) : es[i][1] < es[i + 1][1]
  PROVE  Increasing(es)
<1>1. PICK m \in Nat : m = Len(es)
  OBVIOUS
<1>2. \A i \in 1 .. m : es[i][1] \in Nat
  BY <1>1, EntryAt
<1> DEFINE T == {k \in Nat : \A i \in 1 .. m : i <= k => \A j \in 1 .. (i - 1) : es[j][1] < es[i][1]}
<1>3. 0 \in T
  OBVIOUS
<1>4. ASSUME NEW k \in 1 .. m, k - 1 \in T PROVE k \in T
  <2>1. ASSUME NEW j \in 1 .. (k - 1) PROVE es[j][1] < es[k][1]
    <3>1. k - 1 \in 1 .. (Len(es) - 1) /\ k - 1 \in 1 .. m /\ (k - 1) + 1 = k /\ j \in 1 .. m
      BY <1>1
    <3>2. es[k - 1][1] < es[k][1]
      BY <3>1
    <3>3. CASE j = k - 1
      BY <3>2, <3>3
    <3>4. CASE j # k - 1
      <4>1. j \in 1 .. ((k - 1) - 1) /\ k - 1 <= k - 1
        BY <3>4
      <4>2. es[j][1] < es[k - 1][1]
        BY <1>4, <3>1, <4>1
      <4> QED BY <1>2, <3>1, <3>2, <4>2
    <3> QED BY <3>3, <3>4
  <2>2. ASSUME NEW i \in 1 .. m, i <= k, NEW j \in 1 .. (i - 1) PROVE es[j][1] < es[i][1]
    <3>1. CASE i = k
      BY <2>1, <3>1
    <3>2. CASE i # k
      <4>1. i <= k - 1
        BY <2>2, <3>2
      <4> QED BY <1>4, <4>1
    <3> QED BY <3>1, <3>2
  <2> QED BY <2>2
<1>5. m \in T
  <2> HIDE DEF T
  <2> QED BY <1>3, <1>4, BoundedInduction
<1>6. \A i \in 1 .. m : \A j \in 1 .. (i - 1) : es[j][1] < es[i][1]
  <2>1. \A i \in 1 .. m : i <= m
    OBVIOUS
  <2> QED BY <1>5, <2>1
<1> QED BY <1>1, <1>6 DEF Increasing

\* The constructors of sorted elements, which keep them.
LEMMA AssignsSorted ==
  ASSUME NEW es, Increasing(es), NEW r, r = Map!AddAll(<<>>, es)
  PROVE  Pairs(es, r)
<1>1. es \in Seq(Entries)
  BY DEF Increasing
<1>2. Firsts(es, r)
  BY <1>1, FirstsAll
<1> QED BY <1>2, PairsAre

\* The element with another value.
LEMMA EntryWith ==
  ASSUME NEW x \in Entries, NEW v \in Values
  PROVE  [x EXCEPT ![2] = v] = <<x[1], v>> /\ <<x[1], v>> \in Entries
<1>1. PICK k \in Keys, w \in Values : x = <<k, w>>
  BY DEF Entries
<1>2. [<<k, w>> EXCEPT ![2] = v] = <<k, v>>
  OBVIOUS
<1> QED BY <1>1, <1>2 DEF Entries

\* s with another value at i.
Valued(t, s, i, v) ==
  /\ t \in Seq(Entries) /\ Len(t) = Len(s)
  /\ \A j \in 1 .. Len(s) : t[j][1] = s[j][1]
  /\ \A j \in 1 .. Len(s) : j # i => t[j] = s[j]
  /\ t[i] = <<s[i][1], v>>

\* Assignment to the value of an element.
LEMMA ValuedIs ==
  ASSUME NEW s \in Seq(Entries), NEW i \in 1 .. Len(s), NEW v \in Values, NEW t, t = [s EXCEPT ![i][2] = v]
  PROVE  Valued(t, s, i, v)
<1>1. PICK x : x = s[i]
  OBVIOUS
<1>2. x \in Entries
  BY <1>1
<1>3. PICK y : y = <<x[1], v>>
  OBVIOUS
<1>4. [x EXCEPT ![2] = v] = y /\ y \in Entries
  BY <1>2, <1>3, EntryWith
<1>5. t = [s EXCEPT ![i] = y]
  BY <1>1, <1>4
<1>6. t \in Seq(Entries) /\ Len(t) = Len(s)
  BY <1>4, <1>5
<1>7. t[i] = y /\ \A j \in 1 .. Len(s) : j # i => t[j] = s[j]
  BY <1>5
<1>8. y[1] = x[1]
  BY <1>3
<1>9. \A j \in 1 .. Len(s) : t[j][1] = s[j][1]
  BY <1>1, <1>7, <1>8
<1> QED BY <1>1, <1>3, <1>6, <1>7, <1>9 DEF Valued

\* It is the map with that value for the key.
LEMMA ValuedSets ==
  ASSUME NEW s, Increasing(s), NEW f, Pairs(s, f), NEW i \in 1 .. Len(s), NEW v \in Values, NEW k, k = s[i][1],
         NEW t, Valued(t, s, i, v), NEW g, g = Map!Set(f, k, v)
  PROVE  Increasing(t) /\ Pairs(t, g)
<1>1. s \in Seq(Entries) /\ f \in Maps /\ k \in DOMAIN f
  BY DEF Pairs
<1>2. k \in Keys /\ Len(s) \in Nat
  BY <1>1, MapIs
<1>4. SetTo(g, f, k, v)
  BY <1>1, <1>2, SetIs
<1>5. t \in Seq(Entries) /\ Len(t) = Len(s) /\ t[i] = <<k, v>>
  BY DEF Valued
<1>6. \A j \in 1 .. Len(s) : t[j][1] = s[j][1]
  BY DEF Valued
<1>7. Increasing(t)
  <2> SUFFICES ASSUME NEW x \in 1 .. Len(t), NEW y \in 1 .. (x - 1) PROVE t[y][1] < t[x][1]
    BY <1>5 DEF Increasing
  <2>1. x \in 1 .. Len(s) /\ y \in 1 .. Len(s)
    BY <1>2, <1>5
  <2>2. s[y][1] < s[x][1]
    BY <2>1 DEF Increasing
  <2> QED BY <1>6, <2>1, <2>2
<1>8. g \in Maps /\ DOMAIN g = DOMAIN f /\ g[k] = v /\ \A x \in DOMAIN f : x # k => g[x] = f[x]
  BY <1>1, <1>4 DEF SetTo
<1>9. ASSUME NEW j \in 1 .. Len(t) PROVE t[j][1] \in DOMAIN g /\ t[j][2] = g[t[j][1]]
  <2>1. j \in 1 .. Len(s) /\ t[j][1] = s[j][1]
    BY <1>5, <1>6
  <2>2. s[j][1] \in DOMAIN f /\ s[j][2] = f[s[j][1]]
    BY <2>1 DEF Pairs
  <2>3. CASE j = i
    BY <1>5, <1>8, <2>1, <2>2, <2>3
  <2>4. CASE j # i
    <3>1. t[j] = s[j]
      BY <2>1, <2>4 DEF Valued
    <3>2. s[j][1] # k
      <4>1. s[j][1] \in Nat /\ k \in Nat
        BY <1>1, <2>1, EntryAt
      <4>2. CASE j < i
        <5>1. j \in 1 .. (i - 1)
          BY <2>1, <4>2
        <5>2. s[j][1] < k
          BY <5>1 DEF Increasing
        <5> QED BY <4>1, <5>2
      <4>3. CASE i < j
        <5>1. i \in 1 .. (j - 1)
          BY <2>1, <4>3
        <5>2. k < s[j][1]
          BY <2>1, <5>1 DEF Increasing
        <5> QED BY <4>1, <5>2
      <4> QED BY <2>1, <2>4, <4>2, <4>3
    <3> QED BY <1>8, <2>2, <3>1, <3>2
  <2> QED BY <2>3, <2>4
<1>10. ASSUME NEW x \in DOMAIN g PROVE \E j \in 1 .. Len(t) : t[j][1] = x
  <2>1. PICK j \in 1 .. Len(s) : s[j][1] = x
    BY <1>8 DEF Pairs
  <2> QED BY <1>5, <1>6, <2>1
<1>11. Pairs(t, g)
  BY <1>5, <1>8, <1>9, <1>10 DEF Pairs
<1> QED BY <1>5, <1>7, <1>11

\* The map without some keys.
Kept(f, keys) == [x \in DOMAIN f \ keys |-> f[x]]

\* t has the elements of b whose keys are others.
Remains(t, b, keys) ==
  /\ t \in Seq(Entries)
  /\ \A n \in 1 .. Len(t) : \E i \in 1 .. Len(b) : t[n] = b[i] /\ b[i][1] \notin keys
  /\ \A i \in 1 .. Len(b) : b[i][1] \notin keys => \E n \in 1 .. Len(t) : t[n] = b[i]

\* What is left of the elements of a map is the map without the other keys.
LEMMA KeptPairs ==
  ASSUME NEW b, NEW f, Pairs(b, f), NEW t, NEW keys, Remains(t, b, keys), NEW g, g = Kept(f, keys)
  PROVE  Pairs(t, g)
<1>1. f \in Maps
  BY DEF Pairs
<1>2. DOMAIN f \in SUBSET Keys /\ f \in [DOMAIN f -> Values]
  BY <1>1, MapIs
<1>3. /\ g = [x \in DOMAIN f \ keys |-> f[x]]
      /\ DOMAIN g = DOMAIN f \ keys /\ \A x \in DOMAIN g : g[x] = f[x]
  BY DEF Kept
<1>4. g \in Maps
  <2>1. g \in [DOMAIN f \ keys -> Values] /\ DOMAIN f \ keys \in SUBSET Keys
    BY <1>2, <1>3
  <2> QED BY <2>1 DEF Maps
<1>5. ASSUME NEW n \in 1 .. Len(t) PROVE t[n][1] \in DOMAIN g /\ t[n][2] = g[t[n][1]]
  <2>1. PICK i \in 1 .. Len(b) : t[n] = b[i] /\ b[i][1] \notin keys
    BY DEF Remains
  <2>2. b[i][1] \in DOMAIN f /\ b[i][2] = f[b[i][1]]
    BY DEF Pairs
  <2> QED BY <1>3, <2>1, <2>2
<1>6. ASSUME NEW k \in DOMAIN g PROVE \E n \in 1 .. Len(t) : t[n][1] = k
  <2>1. k \in DOMAIN f /\ k \notin keys
    BY <1>3
  <2>2. PICK i \in 1 .. Len(b) : b[i][1] = k
    BY <2>1 DEF Pairs
  <2>3. PICK n \in 1 .. Len(t) : t[n] = b[i]
    BY <2>1, <2>2 DEF Remains
  <2> QED BY <2>2, <2>3
<1>7. t \in Seq(Entries)
  BY DEF Remains
<1> QED BY <1>4, <1>5, <1>6, <1>7 DEF Pairs

\* t is b without the elements from position i on and before j.
WithoutPart(t, b, i, j) ==
  /\ t \in Seq(Entries) /\ Len(t) = Len(b) - (j - i)
  /\ \A n \in 1 .. Len(t) : n < i => n \in 1 .. Len(b) /\ t[n] = b[n]
  /\ \A n \in 1 .. Len(t) : i <= n => n + (j - i) \in j .. Len(b) /\ t[n] = b[n + (j - i)]

\* vector::erase.
LEMMA EraseCloses ==
  ASSUME NEW b \in Seq(Entries), NEW i \in 1 .. (Len(b) + 1), NEW j \in i .. (Len(b) + 1),
         NEW t, t = EraseRange(b, i, j)
  PROVE  WithoutPart(t, b, i, j)
<1>1. PICK m \in Nat : m = Len(b)
  OBVIOUS
<1>2. /\ i \in Nat /\ j \in Nat /\ i <= j /\ j <= m + 1 /\ 1 <= i
      /\ j \in 1 .. (Len(b) + 1) /\ i - 1 \in (1 - 1) .. Len(b) /\ Len(b) \in (j - 1) .. Len(b)
      /\ 1 \in 1 .. (Len(b) + 1)
  BY <1>1
<1>3. PICK a, d : a = SubSeq(b, 1, i - 1) /\ d = SubSeq(b, j, Len(b))
  OBVIOUS
<1>4. Part(a, b, 1, i - 1)
  BY <1>2, <1>3, PartIs
<1>5. Part(d, b, j, Len(b))
  BY <1>2, <1>3, PartIs
<1>6. a \in Seq(Entries) /\ Len(a) = i - 1 /\ \A n \in 1 .. Len(a) : n \in 1 .. Len(b) /\ a[n] = b[n]
  <2>1. a \in Seq(Entries) /\ Len(a) = (i - 1) - 1 + 1
    BY <1>4 DEF Part
  <2>2. \A n \in 1 .. Len(a) : (1 - 1) + n \in 1 .. Len(b) /\ a[n] = b[(1 - 1) + n]
    BY <1>4 DEF Part
  <2>3. \A n \in 1 .. Len(a) : (1 - 1) + n = n
    BY <2>1
  <2> QED BY <1>2, <2>1, <2>2, <2>3
<1>7. d \in Seq(Entries) /\ Len(d) = m - j + 1 /\ \A n \in 1 .. Len(d) : (j - 1) + n \in 1 .. Len(b) /\ d[n] = b[(j - 1) + n]
  BY <1>1, <1>5 DEF Part
<1>8. t = a \o d
  BY <1>3 DEF EraseRange
<1>9. Chained(t, a, d)
  BY <1>6, <1>7, <1>8, JoinedIs
<1>10. t \in Seq(Entries) /\ Len(t) = Len(a) + Len(d)
  BY <1>9 DEF Chained
<1>11. Len(t) = Len(b) - (j - i)
  BY <1>1, <1>2, <1>6, <1>7, <1>10
<1>12. ASSUME NEW n \in 1 .. Len(t), n < i PROVE n \in 1 .. Len(b) /\ t[n] = b[n]
  <2>1. n <= Len(a)
    BY <1>2, <1>6, <1>12
  <2>2. n \in 1 .. Len(a) /\ t[n] = a[n]
    BY <1>9, <2>1 DEF Chained
  <2> QED BY <1>6, <2>2
<1>13. ASSUME NEW n \in 1 .. Len(t), i <= n PROVE n + (j - i) \in j .. Len(b) /\ t[n] = b[n + (j - i)]
  <2>1. Len(a) < n
    BY <1>2, <1>6, <1>13
  <2>2. n - Len(a) \in 1 .. Len(d) /\ t[n] = d[n - Len(a)]
    BY <1>9, <2>1 DEF Chained
  <2>3. (j - 1) + (n - Len(a)) \in 1 .. Len(b) /\ d[n - Len(a)] = b[(j - 1) + (n - Len(a))]
    BY <1>7, <2>2
  <2>4. (j - 1) + (n - Len(a)) = n + (j - i) /\ n \in Nat
    BY <1>2, <1>6
  <2>5. n + (j - i) \in j .. Len(b)
    BY <1>1, <1>2, <1>13, <2>3, <2>4
  <2> QED BY <2>2, <2>3, <2>4, <2>5
<1> QED BY <1>10, <1>11, <1>12, <1>13 DEF WithoutPart

\* Erasing positions erases their keys.
LEMMA EraseIs ==
  ASSUME NEW b, Increasing(b), NEW f, Pairs(b, f), NEW i \in 1 .. (Len(b) + 1), NEW j \in i .. (Len(b) + 1),
         NEW t, t = EraseRange(b, i, j), NEW keys, keys = {b[x][1] : x \in i .. (j - 1)},
         NEW g, g = Kept(f, keys)
  PROVE  Increasing(t) /\ Pairs(t, g)
<1>1. b \in Seq(Entries)
  BY DEF Pairs
<1>2. WithoutPart(t, b, i, j)
  BY <1>1, EraseCloses
<1>3. PICK m \in Nat : m = Len(b)
  BY <1>1
<1>4. i \in Nat /\ j \in Nat /\ i <= j /\ j <= m + 1 /\ 1 <= i
  BY <1>3
<1>5. t \in Seq(Entries) /\ Len(t) = m - (j - i)
  BY <1>2, <1>3 DEF WithoutPart
<1>6. \A n \in 1 .. Len(t) : n < i => n \in 1 .. Len(b) /\ t[n] = b[n]
  BY <1>2 DEF WithoutPart
<1>7. \A n \in 1 .. Len(t) : i <= n => n + (j - i) \in j .. Len(b) /\ t[n] = b[n + (j - i)]
  BY <1>2 DEF WithoutPart
<1>8. \A x \in 1 .. Len(b) : b[x][1] \in Nat
  BY <1>1, EntryAt
<1>9. \A x \in 1 .. Len(b) : \A y \in 1 .. Len(b) : x < y => b[x][1] < b[y][1]
  <2> SUFFICES ASSUME NEW x \in 1 .. Len(b), NEW y \in 1 .. Len(b), x < y PROVE b[x][1] < b[y][1]
    OBVIOUS
  <2>1. x \in 1 .. (y - 1)
    BY <1>3
  <2> QED BY <2>1 DEF Increasing
<1>10. ASSUME NEW x \in 1 .. Len(b) PROVE b[x][1] \in keys <=> x \in i .. (j - 1)
  <2>1. ASSUME b[x][1] \in keys PROVE x \in i .. (j - 1)
    <3>1. PICK y \in i .. (j - 1) : b[y][1] = b[x][1]
      BY <2>1
    <3>2. y \in 1 .. Len(b) /\ x \in Nat /\ y \in Nat
      BY <1>3, <1>4
    <3>3. x = y
      BY <1>8, <1>9, <3>1, <3>2
    <3> QED BY <3>3
  <2> QED BY <2>1
<1>11. Increasing(t)
  <2> SUFFICES ASSUME NEW x \in 1 .. Len(t), NEW y \in 1 .. (x - 1) PROVE t[y][1] < t[x][1]
    BY <1>5 DEF Increasing
  <2>1. y \in 1 .. Len(t) /\ y < x /\ x \in Nat /\ y \in Nat
    BY <1>3, <1>4, <1>5
  <2>2. CASE x < i
    <3>1. y < i
      BY <1>4, <2>1, <2>2
    <3> QED BY <1>6, <1>9, <2>1, <2>2, <3>1
  <2>3. CASE i <= x /\ y < i
    <3>1. x + (j - i) \in j .. Len(b) /\ t[x] = b[x + (j - i)] /\ y \in 1 .. Len(b) /\ t[y] = b[y]
      BY <1>6, <1>7, <2>1, <2>3
    <3>2. x + (j - i) \in 1 .. Len(b) /\ y < x + (j - i)
      BY <1>3, <1>4, <2>1, <3>1
    <3> QED BY <1>9, <3>1, <3>2
  <2>4. CASE i <= x /\ i <= y
    <3>1. x + (j - i) \in j .. Len(b) /\ t[x] = b[x + (j - i)] /\ y + (j - i) \in j .. Len(b) /\ t[y] = b[y + (j - i)]
      BY <1>7, <2>1, <2>4
    <3>2. x + (j - i) \in 1 .. Len(b) /\ y + (j - i) \in 1 .. Len(b) /\ y + (j - i) < x + (j - i)
      BY <1>3, <1>4, <2>1, <3>1
    <3> QED BY <1>9, <3>1, <3>2
  <2> QED BY <1>4, <2>1, <2>2, <2>3, <2>4
<1>12. ASSUME NEW n \in 1 .. Len(t) PROVE \E x \in 1 .. Len(b) : t[n] = b[x] /\ b[x][1] \notin keys
  <2>1. CASE n < i
    <3>1. n \in 1 .. Len(b) /\ t[n] = b[n]
      BY <1>6, <2>1
    <3>2. n \notin i .. (j - 1)
      BY <1>4, <2>1
    <3> QED BY <1>10, <3>1, <3>2
  <2>2. CASE i <= n
    <3>1. n + (j - i) \in j .. Len(b) /\ t[n] = b[n + (j - i)]
      BY <1>7, <2>2
    <3>2. n + (j - i) \in 1 .. Len(b) /\ n + (j - i) \notin i .. (j - 1)
      BY <1>3, <1>4, <3>1
    <3> QED BY <1>10, <3>1, <3>2
  <2>3. n < i \/ i <= n
    BY <1>4
  <2> QED BY <2>1, <2>2, <2>3
<1>13. ASSUME NEW x \in 1 .. Len(b), b[x][1] \notin keys PROVE \E n \in 1 .. Len(t) : t[n] = b[x]
  <2>1. x \notin i .. (j - 1)
    BY <1>10, <1>13
  <2>2. CASE x < i
    <3>1. x \in 1 .. Len(t)
      BY <1>3, <1>4, <1>5, <2>2
    <3> QED BY <1>6, <2>2, <3>1
  <2>3. CASE j <= x
    <3>1. x - (j - i) \in 1 .. Len(t) /\ i <= x - (j - i) /\ (x - (j - i)) + (j - i) = x
      BY <1>3, <1>4, <1>5, <2>3
    <3> QED BY <1>7, <3>1
  <2> QED BY <1>3, <1>4, <2>1, <2>2, <2>3
<1>14. Remains(t, b, keys)
  BY <1>5, <1>12, <1>13 DEF Remains
<1>15. Pairs(t, g)
  BY <1>14, KeptPairs
<1> QED BY <1>11, <1>15

\* Cardinality in KeyMap is that of FiniteSets.
LEMMA SameCardinality == \A S : Map!Cardinality(S) = Cardinality(S)
BY DEF Map!Cardinality, Cardinality

\* The keys of the first k elements whose value is v.
Gone(b, k, v) == {x \in Nat : \E i \in 1 .. k : b[i][1] = x /\ b[i][2] = v}

\* a has the other ones of the first k elements.
Filtered(a, b, k, v) ==
  /\ Increasing(a)
  /\ \A n \in 1 .. Len(a) : \E i \in 1 .. k : a[n] = b[i] /\ b[i][2] # v
  /\ \A i \in 1 .. k : b[i][2] # v => \E n \in 1 .. Len(a) : a[n] = b[i]
  /\ IsFiniteSet(Gone(b, k, v))
  /\ Cardinality(Gone(b, k, v)) \in Nat
  /\ Len(a) + Cardinality(Gone(b, k, v)) = k

\* A turn of the loop of erase_if.
LEMMA FilterTurn ==
  ASSUME NEW b, Increasing(b), NEW k \in 1 .. Len(b), NEW v, NEW j, j = k - 1, NEW a, Filtered(a, b, j, v), NEW x, x = b[k],
         NEW c, c = (IF x[2] = v THEN a ELSE Append(a, x))
  PROVE  Filtered(c, b, k, v)
<1>1. b \in Seq(Entries) /\ a \in Seq(Entries) /\ Increasing(a)
  BY DEF Increasing, Filtered
<1>2. Len(b) \in Nat /\ Len(a) \in Nat /\ k \in Nat /\ j \in Nat /\ k = j + 1 /\ x \in Entries
  BY <1>1
<1>3. x[1] \in Nat /\ \A i \in 1 .. Len(b) : b[i][1] \in Nat
  BY <1>1, <1>2, EntryAt, EntryIs
<1>4. \A i \in 1 .. j : b[i][1] < x[1] /\ i \in 1 .. k /\ i \in 1 .. Len(b) /\ b[i][1] \in Nat
  <2>1. \A i \in 1 .. j : i \in 1 .. (k - 1)
    OBVIOUS
  <2>2. \A i \in 1 .. j : b[i][1] < x[1]
    BY <2>1 DEF Increasing
  <2>3. \A i \in 1 .. j : i \in 1 .. k /\ i \in 1 .. Len(b)
    BY <1>2
  <2> QED BY <1>3, <2>2, <2>3
<1>5. k \in 1 .. k /\ \A i \in 1 .. k : i \in 1 .. j \/ i = k
  BY <1>2
<1>6. \A n \in 1 .. Len(a) : \E i \in 1 .. j : a[n] = b[i] /\ b[i][2] # v
  BY DEF Filtered
<1>7. \A i \in 1 .. j : b[i][2] # v => \E n \in 1 .. Len(a) : a[n] = b[i]
  BY DEF Filtered
<1>8. IsFiniteSet(Gone(b, j, v)) /\ Cardinality(Gone(b, j, v)) \in Nat /\ Len(a) + Cardinality(Gone(b, j, v)) = j
  BY DEF Filtered
<1>9. CASE x[2] = v
  <2>1. c = a
    BY <1>9
  <2>2. Gone(b, k, v) = Gone(b, j, v) \cup {x[1]}
    BY <1>3, <1>4, <1>5, <1>9 DEF Gone
  <2>3. x[1] \notin Gone(b, j, v)
    BY <1>3, <1>4 DEF Gone
  <2>4. IsFiniteSet(Gone(b, k, v)) /\ Cardinality(Gone(b, k, v)) = Cardinality(Gone(b, j, v)) + 1
    <3>1. PICK G, y : G = Gone(b, j, v) /\ y = x[1]
      OBVIOUS
    <3>2. IsFiniteSet(G) /\ y \notin G
      BY <1>8, <2>3, <3>1
    <3>3. IsFiniteSet(G \cup {y}) /\ Cardinality(G \cup {y}) = Cardinality(G) + 1
      BY <3>2, FS_AddElement
    <3> QED BY <2>2, <3>1, <3>3
  <2>5. Cardinality(Gone(b, k, v)) \in Nat /\ Len(c) + Cardinality(Gone(b, k, v)) = k
    BY <1>2, <1>8, <2>1, <2>4
  <2>6. \A n \in 1 .. Len(c) : \E i \in 1 .. k : c[n] = b[i] /\ b[i][2] # v
    <3> SUFFICES ASSUME NEW n \in 1 .. Len(a) PROVE \E i \in 1 .. k : a[n] = b[i] /\ b[i][2] # v
      BY <2>1
    <3>1. PICK i \in 1 .. j : a[n] = b[i] /\ b[i][2] # v
      BY <1>6
    <3>2. i \in 1 .. k
      BY <1>4
    <3> QED BY <3>1, <3>2
  <2>7. \A i \in 1 .. k : b[i][2] # v => \E n \in 1 .. Len(c) : c[n] = b[i]
    BY <1>5, <1>7, <1>9, <2>1
  <2> QED BY <1>1, <2>1, <2>4, <2>5, <2>6, <2>7 DEF Filtered
<1>10. CASE x[2] # v
  <2>1. c = Append(a, x)
    BY <1>10
  <2>2. WithEntry(c, a, Len(a) + 1, x)
    BY <1>1, <1>2, <2>1, AppendOpens
  <2>3. Len(c) = Len(a) + 1 /\ c \in Seq(Entries) /\ c[Len(a) + 1] = x
    BY <2>2 DEF WithEntry
  <2>4. \A n \in 1 .. Len(a) : n \in 1 .. Len(c) /\ c[n] = a[n]
    <3> SUFFICES ASSUME NEW n \in 1 .. Len(a) PROVE n \in 1 .. Len(c) /\ c[n] = a[n]
      OBVIOUS
    <3>1. n \in 1 .. Len(c) /\ n < Len(a) + 1
      BY <1>2, <2>3
    <3> QED BY <2>2, <3>1 DEF WithEntry
  <2>5. Between(a, Len(a) + 1, x[1])
    <3>1. \A i \in 1 .. ((Len(a) + 1) - 1) : i \in 1 .. Len(a)
      BY <1>2
    <3>2. \A i \in 1 .. Len(a) : a[i][1] < x[1]
      BY <1>4, <1>6
    <3>3. \A i \in (Len(a) + 1) .. Len(a) : x[1] < a[i][1]
      BY <1>2
    <3> QED BY <3>1, <3>2, <3>3 DEF Between
  <2>6. Increasing(c)
    <3>1. Len(a) + 1 \in 1 .. (Len(a) + 1)
      BY <1>2
    <3> QED BY <1>1, <1>2, <2>2, <2>5, <3>1, IncreasingOpened
  <2>7. Gone(b, k, v) = Gone(b, j, v)
    BY <1>4, <1>5, <1>10 DEF Gone
  <2>8. Len(c) + Cardinality(Gone(b, k, v)) = k
    BY <1>2, <1>8, <2>3, <2>7
  <2>9. ASSUME NEW n \in 1 .. Len(c) PROVE \E i \in 1 .. k : c[n] = b[i] /\ b[i][2] # v
    <3>1. CASE n = Len(a) + 1
      <4>1. c[n] = b[k] /\ b[k][2] # v
        BY <1>10, <2>3, <3>1
      <4> QED BY <1>5, <4>1
    <3>2. CASE n # Len(a) + 1
      <4>1. n \in 1 .. Len(a)
        BY <1>2, <2>3, <3>2
      <4>2. PICK i \in 1 .. j : a[n] = b[i] /\ b[i][2] # v
        BY <1>6, <4>1
      <4>3. i \in 1 .. k /\ c[n] = a[n]
        BY <1>4, <2>4, <4>1
      <4> QED BY <4>2, <4>3
    <3> QED BY <3>1, <3>2
  <2>10. ASSUME NEW i \in 1 .. k, b[i][2] # v PROVE \E n \in 1 .. Len(c) : c[n] = b[i]
    <3>1. CASE i = k
      <4>1. Len(a) + 1 \in 1 .. Len(c)
        BY <1>2, <2>3
      <4> QED BY <2>3, <3>1, <4>1
    <3>2. CASE i # k
      <4>1. i \in 1 .. j
        BY <1>5, <3>2
      <4>2. PICK n \in 1 .. Len(a) : a[n] = b[i]
        BY <1>7, <2>10, <4>1
      <4> QED BY <2>4, <4>2
    <3> QED BY <3>1, <3>2
  <2> QED BY <1>8, <2>6, <2>7, <2>8, <2>9, <2>10 DEF Filtered
<1> QED BY <1>9, <1>10

\* erase_if removes the keys of a value, and counts them.
LEMMA EraseIfIs ==
  ASSUME NEW b, Increasing(b), NEW f, Pairs(b, f), NEW v, NEW t, t = WithoutValue(b, v),
         NEW keys, keys = {k \in DOMAIN f : f[k] = v}, NEW g, g = Kept(f, keys)
  PROVE  Increasing(t) /\ Pairs(t, g) /\ Len(b) - Len(t) = Cardinality(keys)
<1>1. b \in Seq(Entries) /\ f \in Maps
  BY DEF Pairs
<1>2. PICK m \in Nat : m = Len(b)
  BY <1>1
<1>3. PICK r : WithoutValueRun(r, m, b, v, t)
  BY <1>1, <1>2, WithoutValueFold
<1>4. r[0] = <<>> /\ r[m] = t
  BY <1>3 DEF WithoutValueRun
<1> DEFINE T == {k \in Nat : Filtered(r[k], b, k, v)}
<1>5. 0 \in T
  <2>1. Gone(b, 0, v) = {}
    BY DEF Gone
  <2>2. IsFiniteSet({}) /\ Cardinality({}) = 0
    BY FS_EmptySet
  <2>3. Len(<<>>) = 0 /\ <<>> \in Seq(Entries)
    OBVIOUS
  <2>4. Increasing(<<>>)
    BY <2>3 DEF Increasing
  <2>5. Filtered(<<>>, b, 0, v)
    <3>1. 1 .. Len(<<>>) = {} /\ 1 .. 0 = {}
      BY <2>3
    <3>2. Len(<<>>) + Cardinality(Gone(b, 0, v)) = 0 /\ Cardinality(Gone(b, 0, v)) \in Nat
      BY <2>1, <2>2, <2>3
    <3> QED BY <2>1, <2>2, <2>4, <3>1, <3>2 DEF Filtered
  <2>6. Filtered(r[0], b, 0, v)
    BY <1>4, <2>5
  <2> QED BY <2>6
<1>6. ASSUME NEW k \in 1 .. m, k - 1 \in T PROVE k \in T
  <2>1. PICK j, a, x, c : j = k - 1 /\ a = r[j] /\ x = b[k] /\ c = r[k]
    OBVIOUS
  <2>2. Filtered(a, b, j, v)
    BY <1>6, <2>1
  <2>3. c = (IF x[2] = v THEN a ELSE Append(a, x))
    BY <1>3, <2>1 DEF WithoutValueRun
  <2>4. k \in 1 .. Len(b)
    BY <1>2
  <2>5. Filtered(c, b, k, v)
    BY <2>1, <2>2, <2>3, <2>4, FilterTurn
  <2> QED BY <2>1, <2>5
<1>7. m \in T
  <2> HIDE DEF T
  <2> QED BY <1>5, <1>6, BoundedInduction
<1>8. Filtered(t, b, m, v)
  BY <1>4, <1>7
<1>9. Increasing(t) /\ t \in Seq(Entries)
  BY <1>8 DEF Filtered, Increasing
<1>10. \A i \in 1 .. Len(b) : b[i][1] \in Nat /\ b[i][1] \in DOMAIN f /\ b[i][2] = f[b[i][1]]
  BY <1>1, EntryAt DEF Pairs
<1>11. \A i \in 1 .. Len(b) : b[i][2] = v <=> b[i][1] \in keys
  BY <1>10
<1>12. keys = Gone(b, m, v)
  <2>1. ASSUME NEW k \in keys PROVE k \in Gone(b, m, v)
    <3>1. PICK i \in 1 .. Len(b) : b[i][1] = k
      BY <2>1 DEF Pairs
    <3> QED BY <1>2, <1>10, <1>11, <2>1, <3>1 DEF Gone
  <2>2. ASSUME NEW k \in Gone(b, m, v) PROVE k \in keys
    <3>1. PICK i \in 1 .. m : b[i][1] = k /\ b[i][2] = v
      BY <2>2 DEF Gone
    <3> QED BY <1>2, <1>11, <3>1
  <2> QED BY <2>1, <2>2
<1>13. Remains(t, b, keys)
  <2>1. \A n \in 1 .. Len(t) : \E i \in 1 .. Len(b) : t[n] = b[i] /\ b[i][1] \notin keys
    BY <1>2, <1>8, <1>11 DEF Filtered
  <2>2. \A i \in 1 .. Len(b) : b[i][1] \notin keys => \E n \in 1 .. Len(t) : t[n] = b[i]
    BY <1>2, <1>8, <1>11 DEF Filtered
  <2> QED BY <1>9, <2>1, <2>2 DEF Remains
<1>14. Pairs(t, g)
  BY <1>13, KeptPairs
<1>15. Len(b) - Len(t) = Cardinality(keys)
  <2>1. Len(t) + Cardinality(keys) = m /\ Cardinality(keys) \in Nat
    BY <1>8, <1>12 DEF Filtered
  <2>2. Len(t) \in Nat
    BY <1>9
  <2> QED BY <1>2, <2>1, <2>2
<1> QED BY <1>9, <1>14, <1>15

\* The range of a key is from p to q.
Spans(b, k, p, q) == equal_range(b, k) = <<p, q>>

\* equal_range is the element with the key, or empty.
LEMMA RangeIs ==
  ASSUME NEW b, Increasing(b), NEW f, Pairs(b, f), NEW k \in Nat, NEW p, p = lower_bound(b, k),
         NEW q, q = (IF k \in DOMAIN f THEN p + 1 ELSE p)
  PROVE  /\ Spans(b, k, p, q) /\ p \in 1 .. (Len(b) + 1)
         /\ k \in DOMAIN f => p \in 1 .. Len(b) /\ b[p][1] = k
<1>1. /\ p \in 1 .. (Len(b) + 1)
      /\ (p = End(b) \/ k < b[p][1]) => Between(b, p, k) /\ k \notin DOMAIN f
      /\ ~(p = End(b) \/ k < b[p][1]) => p \in 1 .. Len(b) /\ b[p][1] = k /\ k \in DOMAIN f
  BY LowerSplits
<1>2. CASE p = End(b) \/ k < b[p][1]
  <2>1. equal_range(b, k) = <<p, p>>
    BY <1>2 DEF equal_range
  <2> QED BY <1>1, <1>2, <2>1 DEF Spans
<1>3. CASE ~(p = End(b) \/ k < b[p][1])
  <2>1. equal_range(b, k) = <<p, p + 1>>
    BY <1>3 DEF equal_range
  <2> QED BY <1>1, <1>3, <2>1 DEF Spans
<1> QED BY <1>2, <1>3

\* The map of a sorted body.
LEMMA StateIs ==
  ASSUME Increasing(body)
  PROVE  Pairs(body, AsMap) /\ AsMap \in Maps /\ body \in Seq(Entries)
<1>1. AsMap = MapOf(body)
  BY DEF AsMap, MapOf
<1>2. Pairs(body, MapOf(body))
  BY MapOfIs
<1> QED BY <1>1, <1>2 DEF Pairs

\* An operation that leaves increasing elements is one on the map.
LEMMA DoesStep ==
  ASSUME NEW b, NEW g, Increasing(b), Pairs(b, g), NEW w, NEW r, Does(w, b, r)
  PROVE  Increasing(body)' /\ Map!Does(w, g, r)
<1>1. called' = w /\ body' = b /\ ret' = r
  BY DEF Does
<1>2. g = MapOf(b)
  BY MapOfIs
<1>3. AsMap' = MapOf(body')
  BY DEF AsMap, MapOf
<1>4. AsMap' = g
  BY <1>1, <1>2, <1>3
<1>5. Increasing(body)'
  BY <1>1
<1> QED BY <1>1, <1>4, <1>5 DEF Map!Does

\* One that only reads.
LEMMA ReadsStep ==
  ASSUME Increasing(body), NEW w, NEW r, Reads(w, r)
  PROVE  Increasing(body)' /\ Map!Reads(w, r)
<1>1. PICK b, g : b = body /\ g = AsMap
  OBVIOUS
<1>2. Increasing(b) /\ Pairs(b, g)
  BY <1>1, StateIs
<1>3. Does(w, b, r)
  BY <1>1 DEF Reads
<1>4. Increasing(body)' /\ Map!Does(w, g, r)
  BY <1>2, <1>3, DoesStep
<1> QED BY <1>1, <1>4 DEF Map!Reads

\* insert, emplace and try_emplace.
LEMMA EmplaceStep ==
  ASSUME Increasing(body), NEW e \in Entries, NEW p, Emplaces(p, AsMap, e), Inserts(<<"insert", e>>, p)
  PROVE  Increasing(body)' /\ Map!Insert(e)
<1>1. PICK f : f = AsMap
  OBVIOUS
<1>2. PICK s, i, no : no \in BOOLEAN /\ p = Placed(s, i, no) /\ EmplacedIn(s, i, no, f, e)
  BY <1>1 DEF Emplaces
<1>3. p.body = s /\ p.at = i /\ p.inserted = no
  BY <1>2 DEF Placed
<1>4. PICK g : g = Map!Add(f, e)
  OBVIOUS
<1>5. Increasing(s) /\ Pairs(s, g) /\ i \in 1 .. Len(s) /\ s[i][1] = e[1]
  BY <1>2, <1>4 DEF EmplacedIn
<1>6. no = (e[1] \notin DOMAIN f)
  <2>1. no = TRUE \/ no = FALSE
    BY <1>2
  <2>2. no = TRUE => e[1] \notin DOMAIN f
    BY <1>2 DEF EmplacedIn
  <2>3. no = FALSE => e[1] \in DOMAIN f
    BY <1>2 DEF EmplacedIn
  <2>4. CASE no = TRUE
    BY <2>2, <2>4
  <2>5. CASE no = FALSE
    BY <2>3, <2>5
  <2> QED BY <2>1, <2>4, <2>5
<1>7. s[i] = <<e[1], g[e[1]]>>
  <2>1. s[i] \in Entries
    BY <1>5 DEF Pairs
  <2>2. s[i] = <<s[i][1], s[i][2]>>
    BY <2>1, EntryIs
  <2>3. s[i][2] = g[s[i][1]]
    BY <1>5 DEF Pairs
  <2> QED BY <1>5, <2>2, <2>3
<1>8. PICK w, r : w = <<"insert", e>> /\ r = <<<<e[1], g[e[1]]>>, e[1] \notin DOMAIN f>>
  OBVIOUS
<1>9. Does(w, s, r)
  BY <1>3, <1>6, <1>7, <1>8 DEF Inserts
<1>10. Increasing(body)' /\ Map!Does(w, g, r)
  BY <1>5, <1>9, DoesStep
<1>11. Map!Insert(e)
  BY <1>1, <1>4, <1>8, <1>10 DEF Map!Insert
<1> QED BY <1>10, <1>11

\* insert_or_assign.
LEMMA InsertOrAssignStep ==
  ASSUME Increasing(body), NEW e \in Entries, NEW p, Emplaces(p, AsMap, e),
         Inserts(<<"insert_or_assign", e>>, insert_or_assign(p, e))
  PROVE  Increasing(body)' /\ Map!InsertOrAssign(e)
<1>1. PICK f, k, v : f = AsMap /\ k = e[1] /\ v = e[2]
  OBVIOUS
<1>2. f \in Maps /\ k \in Keys /\ v \in Values /\ e = <<k, v>>
  BY <1>1, StateIs, EntryIs
<1>3. PICK s, i, no : no \in BOOLEAN /\ p = Placed(s, i, no) /\ EmplacedIn(s, i, no, f, e)
  BY <1>1 DEF Emplaces
<1>4. p.body = s /\ p.at = i /\ p.inserted = no
  BY <1>3 DEF Placed
<1>5. PICK g, h : g = Map!Add(f, e) /\ h = Map!Set(f, k, v)
  OBVIOUS
<1>6. Increasing(s) /\ Pairs(s, g) /\ i \in 1 .. Len(s) /\ s[i][1] = k
  BY <1>1, <1>3, <1>5 DEF EmplacedIn
<1>7. PICK w, r : w = <<"insert_or_assign", e>> /\ r = <<e, k \notin DOMAIN f>>
  OBVIOUS
<1>8. PICK q : q = insert_or_assign(p, e)
  OBVIOUS
<1>9. \E t : Increasing(t) /\ Pairs(t, h) /\ Does(w, t, r)
  <2>1. CASE no = TRUE
    <3>1. k \notin DOMAIN f /\ s[i] = e
      BY <1>1, <1>3, <2>1 DEF EmplacedIn
    <3>2. g = h
      BY <1>1, <1>5, <3>1 DEF Map!Add
    <3>3. q = p
      BY <1>4, <1>8, <2>1 DEF insert_or_assign
    <3>4. (k \notin DOMAIN f) = TRUE
      BY <3>1
    <3>5. Does(w, s, r)
      BY <1>4, <1>7, <1>8, <2>1, <3>1, <3>3, <3>4 DEF Inserts
    <3> QED BY <1>6, <3>2, <3>5
  <2>2. CASE no = FALSE
    <3>1. k \in DOMAIN f
      BY <1>1, <1>3, <2>2 DEF EmplacedIn
    <3>2. g = f
      BY <1>1, <1>5, <3>1 DEF Map!Add
    <3>3. PICK t : t = [s EXCEPT ![i][2] = v]
      OBVIOUS
    <3>4. q.body = t /\ q.at = i /\ q.inserted = FALSE
      <4>1. q = [p EXCEPT !.body[p.at][2] = v]
        BY <1>1, <1>4, <1>8, <2>2 DEF insert_or_assign
      <4> QED BY <1>3, <2>2, <3>3, <4>1 DEF Placed
    <3>5. Increasing(t) /\ Pairs(t, h) /\ t[i] = <<k, v>>
      <4>1. Pairs(s, f) /\ k = s[i][1] /\ h = Map!Set(f, k, v) /\ v \in Values
        BY <1>2, <1>5, <1>6, <3>2
      <4>2. s \in Seq(Entries)
        BY <4>1 DEF Pairs
      <4>3. Valued(t, s, i, v)
        BY <1>6, <3>3, <4>1, <4>2, ValuedIs
      <4>4. Increasing(t) /\ Pairs(t, h)
        BY <1>6, <4>1, <4>3, ValuedSets
      <4> QED BY <4>1, <4>3, <4>4 DEF Valued
    <3>6. (k \notin DOMAIN f) = FALSE
      BY <3>1
    <3>7. Does(w, t, r)
      BY <1>2, <1>7, <1>8, <3>4, <3>5, <3>6 DEF Inserts
    <3> QED BY <3>5, <3>7
  <2> QED BY <1>3, <2>1, <2>2
<1>10. Increasing(body)' /\ Map!Does(w, h, r)
  BY <1>9, DoesStep
<1>11. Map!InsertOrAssign(e)
  BY <1>1, <1>5, <1>7, <1>10 DEF Map!InsertOrAssign
<1> QED BY <1>10, <1>11

\* All of them, whatever the hint.
LEMMA InsertOneStep ==
  ASSUME Increasing(body), NEW e \in Entries, InsertOne(e)
  PROVE  Increasing(body)' /\ (Map!Insert(e) \/ Map!InsertOrAssign(e))
<1>1. PICK b, f : b = body /\ f = AsMap
  OBVIOUS
<1>2. Increasing(b) /\ Pairs(b, f) /\ b \in Seq(Entries)
  BY <1>1, StateIs
<1>3. PICK hint, p :
        /\ hint \in 0 .. End(b)
        /\ p = (IF hint = 0 THEN emplace_key_args(b, e) ELSE emplace_hint_key_args(b, hint, e))
        /\ Inserts(<<"insert", e>>, p) \/ Inserts(<<"insert_or_assign", e>>, insert_or_assign(p, e))
  BY <1>1 DEF InsertOne
<1>4. Emplaces(p, f, e)
  <2>1. CASE hint = 0
    <3>1. p = emplace_key_args(b, e)
      BY <1>3, <2>1
    <3> QED BY <1>2, <3>1, EmplaceKey
  <2>2. CASE hint # 0
    <3>1. p = emplace_hint_key_args(b, hint, e)
      BY <1>3, <2>2
    <3>2. hint \in 1 .. (Len(b) + 1)
      <4>1. Len(b) \in Nat
        BY <1>2
      <4> QED BY <1>3, <2>2, <4>1 DEF End
    <3> QED BY <1>2, <3>1, <3>2, EmplaceHint
  <2> QED BY <2>1, <2>2
<1>5. Emplaces(p, AsMap, e)
  BY <1>1, <1>4
<1> QED BY <1>3, <1>5, EmplaceStep, InsertOrAssignStep

\* lower_bound finds the element of the key, or the place where it would go.
LEMMA LowerFinds ==
  ASSUME NEW b, Increasing(b), NEW f, Pairs(b, f), NEW k \in Nat
  PROVE  /\ lower_bound(b, k) \in 1 .. (Len(b) + 1)
         /\ (lower_bound(b, k) = End(b) \/ k < b[lower_bound(b, k)][1])
              => Between(b, lower_bound(b, k), k) /\ k \notin DOMAIN f
         /\ ~(lower_bound(b, k) = End(b) \/ k < b[lower_bound(b, k)][1])
              => /\ lower_bound(b, k) \in 1 .. Len(b) /\ b[lower_bound(b, k)][1] = k
                 /\ k \in DOMAIN f
<1>1. PICK p : p = lower_bound(b, k)
  OBVIOUS
<1>2. /\ p \in 1 .. (Len(b) + 1)
      /\ (p = End(b) \/ k < b[p][1]) => Between(b, p, k) /\ k \notin DOMAIN f
      /\ ~(p = End(b) \/ k < b[p][1]) => p \in 1 .. Len(b) /\ b[p][1] = k /\ k \in DOMAIN f
  BY <1>1, LowerSplits
<1> QED BY <1>1, <1>2

\* operator[] finds the element, or inserts one with the default value.
LEMMA FoundIs ==
  ASSUME NEW b, Increasing(b), NEW f, Pairs(b, f), NEW k \in Keys, NEW s, s = Found(b, k),
         NEW at, at = lower_bound(s, k)
  PROVE  \E g : /\ Increasing(s) /\ Pairs(s, g) /\ at \in 1 .. Len(s) /\ s[at][1] = k
                /\ \A v : Map!Set(g, k, v) = Map!Set(f, k, v)
                /\ s[at][2] = (IF k \in DOMAIN f THEN f[k] ELSE Default)
<1>1. k \in Nat /\ Default \in Values /\ f \in Maps
  BY FlatMapAssumption DEF Pairs
<1>2. PICK p : p = lower_bound(b, k)
  OBVIOUS
<1>3. /\ p \in 1 .. (Len(b) + 1)
      /\ (p = End(b) \/ k < b[p][1]) => Between(b, p, k) /\ k \notin DOMAIN f
      /\ ~(p = End(b) \/ k < b[p][1]) => p \in 1 .. Len(b) /\ b[p][1] = k /\ k \in DOMAIN f
  BY <1>1, <1>2, LowerSplits
<1>4. CASE p = End(b) \/ k < b[p][1]
  <2>1. PICK x : x = <<k, Default>>
    OBVIOUS
  <2>2. x \in Entries /\ k = x[1] /\ x[2] = Default
    BY <1>1, <2>1 DEF Entries
  <2>3. PICK g : g = Map!Add(f, x)
    OBVIOUS
  <2>4. s = InsertAt(b, p, x)
    BY <1>2, <1>4, <2>1 DEF Found
  <2>5. Increasing(s) /\ Pairs(s, g) /\ k \notin DOMAIN f
    BY <1>3, <1>4, <2>2, <2>3, <2>4, InsertNew
  <2>6. g = Map!Set(f, k, Default)
    BY <2>2, <2>3, <2>5 DEF Map!Add
  <2>7. SetTo(g, f, k, Default)
    BY <1>1, <2>6, SetIs
  <2>8. k \in DOMAIN g /\ g[k] = Default
    BY <2>7 DEF SetTo
  <2>9. at \in 1 .. Len(s) /\ s[at][1] = k
    <3>1. ~(at = End(s) \/ k < s[at][1]) => at \in 1 .. Len(s) /\ s[at][1] = k
      BY <1>1, <2>5, LowerFinds
    <3>2. (at = End(s) \/ k < s[at][1]) => k \notin DOMAIN g
      BY <1>1, <2>5, LowerFinds
    <3> QED BY <2>8, <3>1, <3>2
  <2>10. s[at][2] = Default
    <3>1. s[at][2] = g[s[at][1]]
      BY <2>5, <2>9 DEF Pairs
    <3> QED BY <2>8, <2>9, <3>1
  <2>11. \A v : Map!Set(g, k, v) = Map!Set(f, k, v)
    <3> SUFFICES ASSUME NEW v PROVE Map!Set(g, k, v) = Map!Set(f, k, v)
      OBVIOUS
    <3>1. DOMAIN g \cup {k} = DOMAIN f \cup {k} /\ \A y \in DOMAIN f : y # k => g[y] = f[y]
      BY <2>7 DEF SetTo
    <3> QED BY <3>1 DEF Map!Set
  <2>12. s[at][2] = (IF k \in DOMAIN f THEN f[k] ELSE Default)
    BY <2>5, <2>10
  <2> WITNESS g
  <2> QED BY <2>5, <2>9, <2>11, <2>12
<1>5. CASE ~(p = End(b) \/ k < b[p][1])
  <2>1. s = b
    BY <1>2, <1>5 DEF Found
  <2>2. at = p
    BY <1>2, <2>1
  <2>3. at \in 1 .. Len(s) /\ s[at][1] = k /\ k \in DOMAIN f
    BY <1>3, <1>5, <2>1, <2>2
  <2>4. s[at][2] = f[k]
    BY <2>1, <2>3 DEF Pairs
  <2>5. s[at][2] = (IF k \in DOMAIN f THEN f[k] ELSE Default)
    BY <2>3, <2>4
  <2>6. Increasing(s) /\ Pairs(s, f)
    BY <2>1
  <2> WITNESS f
  <2> QED BY <2>3, <2>5, <2>6
<1> QED BY <1>4, <1>5

\* operator[] and the assignment to what it returns.
LEMMA SubscriptStep ==
  ASSUME Increasing(body), NEW k \in Keys, NEW v \in Values, Subscript(k, v)
  PROVE  Increasing(body)' /\ Map!Subscript(k, v)
<1>1. PICK b, f, s, at, t : /\ b = body /\ f = AsMap /\ s = Found(b, k) /\ at = lower_bound(s, k)
                            /\ t = [s EXCEPT ![at][2] = v]
  OBVIOUS
<1>2. Increasing(b) /\ Pairs(b, f)
  BY <1>1, StateIs
<1>3. PICK g : /\ Increasing(s) /\ Pairs(s, g) /\ at \in 1 .. Len(s) /\ s[at][1] = k
               /\ \A x : Map!Set(g, k, x) = Map!Set(f, k, x)
               /\ s[at][2] = (IF k \in DOMAIN f THEN f[k] ELSE Default)
  BY <1>1, <1>2, FoundIs
<1>4. PICK h : h = Map!Set(g, k, v)
  OBVIOUS
<1>5. Increasing(t) /\ Pairs(t, h)
  <2>1. s \in Seq(Entries) /\ k = s[at][1]
    BY <1>3 DEF Pairs
  <2>2. Valued(t, s, at, v)
    BY <1>1, <1>3, <2>1, ValuedIs
  <2> QED BY <1>3, <1>4, <2>1, <2>2, ValuedSets
<1>6. PICK w, r : w = <<"[]", k, v>> /\ r = s[at][2]
  OBVIOUS
<1>7. Does(w, t, r)
  BY <1>1, <1>6 DEF Subscript
<1>8. Increasing(body)' /\ Map!Does(w, h, r)
  BY <1>5, <1>7, DoesStep
<1>9. h = Map!Set(f, k, v)
  BY <1>3, <1>4
<1>10. r = (IF k \in DOMAIN f THEN f[k] ELSE Default)
  BY <1>3, <1>6
<1>11. Map!Subscript(k, v)
  BY <1>1, <1>6, <1>8, <1>9, <1>10 DEF Map!Subscript
<1> QED BY <1>8, <1>11

\* The constructors and operator=.
LEMMA AssignStep ==
  ASSUME NEW es \in Seq(Entries), Assign(es)
  PROVE  Increasing(body)' /\ Map!Assign(es)
<1>1. PICK g : g = Map!AddAll(<<>>, es)
  OBVIOUS
<1>2. PICK w, r : w = <<"=", es>> /\ r = None
  OBVIOUS
<1>3. \E t : Increasing(t) /\ Pairs(t, g) /\ Does(w, t, r)
  <2>1. called' = w /\ ret' = r
    BY <1>2 DEF Assign
  <2>2. CASE body' = SortAndUnique(es, 1)
    <3>1. PICK t : t = SortAndUnique(es, 1)
      OBVIOUS
    <3>2. Increasing(t) /\ Pairs(t, g)
      BY <1>1, <3>1, AssignsRange
    <3>3. Does(w, t, r)
      BY <2>1, <2>2, <3>1 DEF Does
    <3> QED BY <3>2, <3>3
  <2>3. CASE (\A i \in 1 .. (Len(es) - 1) : es[i][1] < es[i + 1][1]) /\ body' = es
    <3>1. Increasing(es)
      BY <2>3, StepsIncrease
    <3>2. Pairs(es, g)
      BY <1>1, <3>1, AssignsSorted
    <3>3. Does(w, es, r)
      BY <2>1, <2>3 DEF Does
    <3> QED BY <3>1, <3>2, <3>3
  <2> QED BY <2>2, <2>3 DEF Assign
<1>4. Increasing(body)' /\ Map!Does(w, g, r)
  BY <1>3, DoesStep
<1>5. Map!Assign(es)
  BY <1>1, <1>2, <1>4 DEF Map!Assign
<1> QED BY <1>4, <1>5

\* insert of a range.
LEMMA InsertRangeStep ==
  ASSUME Increasing(body), NEW es \in Seq(Entries), Does(<<"insert_range", es>>, InsertMany(body, es), None)
  PROVE  Increasing(body)' /\ Map!InsertRange(es)
<1>1. PICK b, f, t, g : b = body /\ f = AsMap /\ t = InsertMany(b, es) /\ g = Map!AddAll(f, es)
  OBVIOUS
<1>2. Increasing(b) /\ Pairs(b, f)
  BY <1>1, StateIs
<1>3. Increasing(t) /\ Pairs(t, g)
  BY <1>1, <1>2, InsertsRange
<1>4. PICK w, r : w = <<"insert_range", es>> /\ r = None
  OBVIOUS
<1>5. Does(w, t, r)
  BY <1>1, <1>4
<1>6. Increasing(body)' /\ Map!Does(w, g, r)
  BY <1>3, <1>5, DoesStep
<1>7. Map!InsertRange(es)
  BY <1>1, <1>4, <1>6 DEF Map!InsertRange
<1> QED BY <1>6, <1>7

\* erase of a key.
LEMMA EraseKeyStep ==
  ASSUME Increasing(body), NEW k \in Keys, EraseKey(k)
  PROVE  Increasing(body)' /\ Map!EraseKey(k)
<1>1. PICK b, f, p, w : b = body /\ f = AsMap /\ p = lower_bound(b, k) /\ w = <<"erase", k>>
  OBVIOUS
<1>2. Increasing(b) /\ Pairs(b, f) /\ b \in Seq(Entries) /\ k \in Nat
  BY <1>1, StateIs, FlatMapAssumption
<1>3. PICK q : q = (IF k \in DOMAIN f THEN p + 1 ELSE p)
  OBVIOUS
<1>4. PICK m \in Nat : m = Len(b)
  BY <1>2
<1>5. Spans(b, k, p, q) /\ p \in 1 .. (Len(b) + 1) /\ (k \in DOMAIN f => p \in 1 .. Len(b) /\ b[p][1] = k)
  BY <1>1, <1>2, <1>3, RangeIs
<1>6. equal_range(b, k) = <<p, q>>
  BY <1>5 DEF Spans
<1>7. p \in 1 .. (m + 1) /\ q \in p .. (m + 1) /\ q - p = (IF k \in DOMAIN f THEN 1 ELSE 0)
  BY <1>3, <1>4, <1>5
<1>8. PICK t, r : t = EraseRange(b, p, q) /\ r = q - p
  OBVIOUS
<1>9. Does(w, t, r)
  BY <1>1, <1>6, <1>8 DEF EraseKey
<1>10. PICK keys, g : keys = {b[x][1] : x \in p .. (q - 1)} /\ g = Kept(f, keys)
  OBVIOUS
<1>11. Increasing(t) /\ Pairs(t, g)
  <2>1. p \in 1 .. (Len(b) + 1) /\ q \in p .. (Len(b) + 1)
    BY <1>4, <1>7
  <2> QED BY ONLY <1>2, <1>8, <1>10, <2>1, EraseIs
<1>12. g = Kept(f, {k})
  <2>1. CASE k \in DOMAIN f
    <3>1. p .. (q - 1) = {p}
      BY <1>3, <1>4, <1>7, <2>1
    <3>2. keys = {k}
      BY <1>5, <1>10, <2>1, <3>1
    <3> QED BY <1>10, <3>2
  <2>2. CASE k \notin DOMAIN f
    <3>1. p .. (q - 1) = {}
      BY <1>3, <1>4, <1>7, <2>2
    <3>2. keys = {}
      BY <1>10, <3>1
    <3>3. DOMAIN f \ keys = DOMAIN f \ {k}
      BY <2>2, <3>2
    <3> QED BY <1>10, <3>3 DEF Kept
  <2> QED BY <2>1, <2>2
<1>13. Increasing(body)' /\ Map!Does(w, g, r)
  BY <1>9, <1>11, DoesStep
<1>14. g = Map!Without({k})
  BY <1>1, <1>12 DEF Map!Without, Kept
<1>15. r = (IF k \in DOMAIN AsMap THEN 1 ELSE 0)
  BY <1>1, <1>7, <1>8
<1>16. Map!EraseKey(k)
  BY <1>1, <1>13, <1>14, <1>15 DEF Map!EraseKey
<1> QED BY <1>13, <1>16

\* EraseIf.
LEMMA EraseIfStep ==
  ASSUME Increasing(body), NEW v, EraseIf(v)
  PROVE  Increasing(body)' /\ Map!EraseIf(v)
<1>1. PICK b, f, w, t, r : /\ b = body /\ f = AsMap /\ w = <<"EraseIf", v>> /\ t = WithoutValue(b, v)
                           /\ r = Len(b) - Len(t)
  OBVIOUS
<1>2. Increasing(b) /\ Pairs(b, f)
  BY <1>1, StateIs
<1>3. PICK keys, g : keys = {k \in DOMAIN f : f[k] = v} /\ g = Kept(f, keys)
  OBVIOUS
<1>4. Increasing(t) /\ Pairs(t, g) /\ r = Cardinality(keys)
  BY <1>1, <1>2, <1>3, EraseIfIs
<1>5. Does(w, t, r)
  BY <1>1 DEF EraseIf
<1>6. Increasing(body)' /\ Map!Does(w, g, r)
  BY <1>4, <1>5, DoesStep
<1>7. g = Map!Without(keys)
  BY <1>1, <1>3 DEF Map!Without, Kept
<1>8. r = Map!Cardinality(keys)
  BY <1>4, SameCardinality
<1>9. keys = {k \in DOMAIN AsMap : AsMap[k] = v}
  BY <1>1, <1>3
<1>10. Map!Does(<<"EraseIf", v>>, Map!Without(keys), Map!Cardinality(keys))
  BY <1>1, <1>6, <1>7, <1>8
<1>11. Map!EraseIf(v)
  BY <1>9, <1>10 DEF Map!EraseIf
<1> QED BY <1>6, <1>11

\* keys are those of the elements from position p on.
KeysFrom(keys, b, f, p) ==
  keys \in SUBSET (DOMAIN f) /\ \A i \in 1 .. Len(b) : b[i][1] \in keys <=> p <= i

\* An iterator points to the element with the first of the keys from it on.
LEMMA FirstFrom ==
  ASSUME Increasing(body), NEW p \in 1 .. (Len(body) + 1), NEW keys, KeysFrom(keys, body, AsMap, p)
  PROVE  Map!First(keys) = Element(p)
<1>1. PICK b, f : b = body /\ f = AsMap
  OBVIOUS
<1>2. Increasing(b) /\ Pairs(b, f) /\ f \in Maps /\ b \in Seq(Entries)
  BY <1>1, StateIs
<1>3. keys \in SUBSET (DOMAIN f) /\ \A i \in 1 .. Len(b) : b[i][1] \in keys <=> p <= i
  BY <1>1 DEF KeysFrom
<1>4. Len(b) \in Nat /\ p \in 1 .. (Len(b) + 1) /\ \A i \in 1 .. Len(b) : b[i][1] \in Nat
  BY <1>1, <1>2, EntryAt
<1>5. \A k \in keys : \E i \in 1 .. Len(b) : b[i][1] = k
  BY <1>2, <1>3 DEF Pairs
<1>6. CASE p = End(b)
  <2>1. keys = {}
    <3> SUFFICES ASSUME NEW k \in keys PROVE FALSE
      OBVIOUS
    <3>1. PICK i \in 1 .. Len(b) : b[i][1] = k
      BY <1>5
    <3>2. p <= i
      BY <1>3, <3>1
    <3> QED BY <1>4, <1>6, <3>2 DEF End
  <2> QED BY <1>1, <1>6, <2>1 DEF Map!First, Element
<1>7. CASE p # End(b)
  <2>1. p \in 1 .. Len(b) /\ p <= p
    BY <1>4, <1>7 DEF End
  <2>2. PICK k, v : k = b[p][1] /\ v = b[p][2]
    OBVIOUS
  <2>3. k \in keys /\ v = f[k] /\ b[p] = <<k, v>>
    <3>1. b[p] \in Entries
      BY <1>2, <2>1
    <3>2. b[p] = <<b[p][1], b[p][2]>>
      BY <3>1, EntryIs
    <3>3. b[p][2] = f[b[p][1]]
      BY <1>2, <2>1 DEF Pairs
    <3> QED BY <1>3, <2>1, <2>2, <3>2, <3>3
  <2>4. ASSUME NEW y \in keys PROVE k <= y
    <3>1. PICK i \in 1 .. Len(b) : b[i][1] = y
      BY <1>5
    <3>2. p <= i
      BY <1>3, <3>1
    <3>3. CASE i = p
      BY <1>4, <2>2, <3>1, <3>3
    <3>4. CASE i # p
      <4>1. p \in 1 .. (i - 1)
        BY <1>4, <2>1, <3>2, <3>4
      <4>2. b[p][1] < b[i][1]
        BY <1>2, <4>1 DEF Increasing
      <4> QED BY <1>4, <2>1, <2>2, <3>1, <4>2
    <3> QED BY <3>3, <3>4
  <2>5. keys \in SUBSET Nat /\ keys # {} /\ k \in Nat
    <3>1. DOMAIN f \subseteq Nat
      BY <1>2, MapIs
    <3> QED BY <1>3, <2>3, <3>1
  <2>6. Min(keys) \in keys /\ \A y \in keys : Min(keys) <= y
    BY <2>5, LeastIs
  <2>7. Min(keys) = k
    <3>1. Min(keys) <= k /\ k <= Min(keys) /\ Min(keys) \in Nat
      BY <2>3, <2>4, <2>5, <2>6
    <3> QED BY <2>5, <3>1
  <2>8. Map!Min(keys) = Min(keys)
    BY DEF Map!Min, Min
  <2>9. Map!First(keys) = <<k, f[k]>>
    BY <1>1, <2>5, <2>7, <2>8 DEF Map!First, Map!Element
  <2>10. Element(p) = b[p]
    BY <1>1, <1>7 DEF Element
  <2> QED BY <2>3, <2>9, <2>10
<1> QED BY <1>6, <1>7

\* The element of a key.
LEMMA ElementIs ==
  ASSUME Increasing(body), NEW p \in 1 .. Len(body), NEW k, k = body[p][1]
  PROVE  Map!Element(k) = Element(p) /\ k \in DOMAIN AsMap
<1>1. Pairs(body, AsMap) /\ body \in Seq(Entries)
  BY StateIs
<1>2. body[p] \in Entries /\ k \in DOMAIN AsMap /\ body[p][2] = AsMap[k]
  BY <1>1 DEF Pairs
<1>3. body[p] = <<body[p][1], body[p][2]>>
  BY <1>2, EntryIs
<1>4. p # End(body)
  <2>1. Len(body) \in Nat
    BY <1>1
  <2> QED BY <2>1 DEF End
<1>5. Element(p) = body[p]
  BY <1>4 DEF Element
<1> QED BY <1>2, <1>3, <1>5 DEF Map!Element

\* erase of a position or of a range of them.
LEMMA ErasePositionsStep ==
  ASSUME Increasing(body), NEW i \in 1 .. End(body), NEW j \in i .. End(body), ErasePositions(i, j)
  PROVE  Increasing(body)' /\ \E keys \in SUBSET Keys : Map!EraseKeys(keys)
<1>1. PICK b, f : b = body /\ f = AsMap
  OBVIOUS
<1>2. Increasing(b) /\ Pairs(b, f) /\ b \in Seq(Entries) /\ f \in Maps
  BY <1>1, StateIs
<1>3. PICK m \in Nat : m = Len(b)
  BY <1>2
<1>4. /\ i \in 1 .. (Len(b) + 1) /\ j \in i .. (Len(b) + 1) /\ j \in 1 .. (Len(b) + 1)
      /\ i \in Nat /\ j \in Nat /\ i <= j /\ 1 <= i /\ j <= m + 1
  BY <1>1, <1>3 DEF End
<1>5. PICK keys, g, t : keys = {b[x][1] : x \in i .. (j - 1)} /\ g = Kept(f, keys) /\ t = EraseRange(b, i, j)
  OBVIOUS
<1>6. Increasing(t) /\ Pairs(t, g)
  BY <1>2, <1>4, <1>5, EraseIs
<1>7. PICK w, r : w = <<"erase_range", keys>> /\ r = Element(j)
  OBVIOUS
<1>8. Does(w, t, r)
  BY <1>1, <1>5, <1>7 DEF ErasePositions
<1>9. Increasing(body)' /\ Map!Does(w, g, r)
  BY <1>6, <1>8, DoesStep
<1>10. g = Map!Without(keys)
  BY <1>1, <1>5 DEF Map!Without, Kept
<1>11. \A x \in 1 .. Len(b) : b[x][1] \in Nat /\ b[x][1] \in DOMAIN f
  BY <1>2, EntryAt DEF Pairs
<1>12. \A x \in 1 .. Len(b) : \A y \in 1 .. Len(b) : x < y => b[x][1] < b[y][1]
  <2> SUFFICES ASSUME NEW x \in 1 .. Len(b), NEW y \in 1 .. Len(b), x < y PROVE b[x][1] < b[y][1]
    OBVIOUS
  <2>1. x \in 1 .. (y - 1)
    BY <1>3
  <2> QED BY <1>2, <2>1 DEF Increasing
<1>13. \A x \in i .. (j - 1) : x \in 1 .. Len(b)
  BY <1>3, <1>4
<1>14. keys \in SUBSET (DOMAIN f) /\ DOMAIN f \in SUBSET Keys
  BY <1>2, <1>5, <1>11, <1>13, MapIs
<1>15. ASSUME NEW x \in keys, NEW y \in keys, NEW k \in DOMAIN f, x < k, k < y PROVE k \in keys
  <2>1. PICK u \in i .. (j - 1), w2 \in i .. (j - 1) : b[u][1] = x /\ b[w2][1] = y
    BY <1>5, <1>15
  <2>2. PICK n \in 1 .. Len(b) : b[n][1] = k
    BY <1>2 DEF Pairs
  <2>3. u \in 1 .. Len(b) /\ w2 \in 1 .. Len(b) /\ x \in Nat /\ y \in Nat /\ k \in Nat
    BY <1>11, <1>13, <2>1, <2>2
  <2>4. ~(n < u) /\ n # u
    BY <1>11, <1>12, <1>15, <2>1, <2>2, <2>3
  <2>5. ~(w2 < n) /\ n # w2
    BY <1>11, <1>12, <1>15, <2>1, <2>2, <2>3
  <2>6. n \in i .. (j - 1)
    BY <1>3, <1>4, <2>1, <2>2, <2>4, <2>5
  <2> QED BY <1>5, <2>2, <2>6
<1>16. ASSUME keys # {} PROVE r = Map!First({k \in DOMAIN f : \A x \in keys : k > x})
  <2> DEFINE above == {k \in DOMAIN f : \A x \in keys : k > x}
  <2>1. i <= j - 1 /\ j - 1 \in i .. (j - 1) /\ j - 1 \in 1 .. Len(b)
    <3>1. PICK x \in i .. (j - 1) : TRUE
      BY <1>5, <1>16
    <3> QED BY <1>3, <1>4, <3>1
  <2>2. ASSUME NEW n \in 1 .. Len(b) PROVE b[n][1] \in above <=> j <= n
    <3>1. ASSUME j <= n PROVE b[n][1] \in above
      <4> SUFFICES ASSUME NEW x \in keys PROVE b[n][1] > x
        BY <1>11
      <4>1. PICK u \in i .. (j - 1) : b[u][1] = x
        BY <1>5
      <4>2. u \in 1 .. Len(b) /\ u < n
        BY <1>3, <1>4, <1>13, <3>1
      <4> QED BY <1>11, <1>12, <4>1, <4>2
    <3>2. ASSUME b[n][1] \in above PROVE j <= n
      <4>1. b[j - 1][1] \in keys
        BY <1>5, <2>1
      <4>2. b[n][1] > b[j - 1][1]
        BY <3>2, <4>1
      <4>3. ~(n < j - 1) /\ n # j - 1
        BY <1>11, <1>12, <2>1, <4>2
      <4> QED BY <1>3, <1>4, <4>3
    <3> QED BY <3>1, <3>2
  <2>3. PICK a : a = above
    OBVIOUS
  <2>4. KeysFrom(a, body, AsMap, j)
    BY <1>1, <2>2, <2>3 DEF KeysFrom
  <2>5. Map!First(a) = Element(j)
    BY <1>1, <1>4, <2>4, FirstFrom
  <2> QED BY <1>7, <2>3, <2>5
<1>17. CASE keys # {}
  <2>1. Map!Does(<<"erase_range", keys>>, Map!Without(keys), Map!First({k \in DOMAIN AsMap : \A x \in keys : k > x}))
    BY <1>1, <1>7, <1>9, <1>10, <1>16, <1>17
  <2>2. Map!EraseKeys(keys)
    BY <1>1, <1>14, <1>15, <1>17, <2>1 DEF Map!EraseKeys
  <2> QED BY <1>9, <1>14, <2>2
<1>18. CASE keys = {}
  <2>1. g = f
    <3>1. DOMAIN f \ keys = DOMAIN f /\ f = [x \in DOMAIN f |-> f[x]]
      BY <1>2, <1>18, MapIs
    <3> QED BY <1>5, <3>1 DEF Kept
  <2>2. \E k \in DOMAIN f \cup {None} : r = (IF k = None THEN None ELSE Map!Element(k))
    <3>1. CASE j = End(b)
      <4>1. r = None
        BY <1>1, <1>7, <3>1 DEF Element
      <4> QED BY <4>1
    <3>2. CASE j # End(b)
      <4>1. j \in 1 .. Len(b)
        BY <1>3, <1>4, <3>2 DEF End
      <4>2. PICK k : k = b[j][1]
        OBVIOUS
      <4>3. r = Map!Element(k) /\ k \in DOMAIN f
        BY <1>1, <1>7, <4>1, <4>2, ElementIs
      <4>4. k # None
        BY <1>14, <4>3, FlatMapAssumption
      <4> QED BY <4>3, <4>4
    <3> QED BY <3>1, <3>2
  <2>3. \E k \in DOMAIN AsMap \cup {None} :
          Map!Does(<<"erase_range", keys>>, AsMap, IF k = None THEN None ELSE Map!Element(k))
    BY <1>1, <1>7, <1>9, <2>1, <2>2
  <2>4. Map!EraseKeys(keys)
    BY <1>1, <1>14, <1>15, <1>18, <2>3 DEF Map!EraseKeys
  <2> QED BY <1>9, <1>14, <2>4
<1> QED BY <1>17, <1>18

\* find, contains, lower_bound and upper_bound.
LEMMA LookupStep ==
  ASSUME Increasing(body), NEW k \in Keys, Lookup(k)
  PROVE  /\ Increasing(body)'
         /\ Map!Find(k) \/ Map!HasKey(k) \/ Map!LowerBound(k) \/ Map!UpperBound(k)
<1>1. PICK b, f : b = body /\ f = AsMap
  OBVIOUS
<1>2. Increasing(b) /\ Pairs(b, f) /\ b \in Seq(Entries) /\ f \in Maps /\ k \in Nat
  BY <1>1, StateIs, FlatMapAssumption
<1>3. PICK p, q, u : p = lower_bound(b, k) /\ q = (IF k \in DOMAIN f THEN p + 1 ELSE p) /\ u = upper_bound(b, k)
  OBVIOUS
<1>4. /\ p \in 1 .. (Len(b) + 1) /\ Len(b) \in Nat
      /\ \A i \in 1 .. Len(b) : b[i][1] \in Nat /\ (i < p => b[i][1] < k) /\ (p < i => k < b[i][1])
      /\ p \in 1 .. Len(b) => k <= b[p][1]
      /\ (p = End(b) \/ k < b[p][1]) => Between(b, p, k) /\ k \notin DOMAIN f
      /\ ~(p = End(b) \/ k < b[p][1]) => p \in 1 .. Len(b) /\ b[p][1] = k /\ k \in DOMAIN f
  BY <1>2, <1>3, LowerSplits
<1>5. CASE Reads(<<"find", k>>, Element(find(body, k)))
  <2>1. Spans(b, k, p, q)
    BY <1>2, <1>3, RangeIs
  <2>2. find(b, k) = (IF p = q THEN End(b) ELSE p)
    BY <2>1 DEF Spans, find
  <2>3. Element(find(b, k)) = (IF k \in DOMAIN f THEN Map!Element(k) ELSE None)
    <3>1. CASE k \in DOMAIN f
      <4>1. p \in 1 .. Len(b) /\ b[p][1] = k /\ p # q
        BY <1>3, <1>4, <3>1
      <4>2. Map!Element(k) = Element(p)
        BY <1>1, <1>2, <4>1, ElementIs
      <4> QED BY <2>2, <3>1, <4>1, <4>2
    <3>2. CASE k \notin DOMAIN f
      BY <1>1, <1>3, <2>2, <3>2 DEF Element
    <3> QED BY <3>1, <3>2
  <2>4. PICK w, r : w = <<"find", k>> /\ r = Element(find(b, k))
    OBVIOUS
  <2>5. Increasing(body)' /\ Map!Reads(w, r)
    BY <1>1, <1>5, <2>4, ReadsStep
  <2>6. Map!Find(k)
    BY <1>1, <2>3, <2>4, <2>5 DEF Map!Find
  <2> QED BY <2>5, <2>6
<1>6. CASE Reads(<<"contains", k>>, contains(body, k))
  <2>1. contains(b, k) = (k \in DOMAIN f)
    <3>1. contains(b, k) <=> ~(p = End(b) \/ k < b[p][1])
      BY <1>3 DEF contains
    <3>2. contains(b, k) \in BOOLEAN
      BY DEF contains
    <3> QED BY <1>4, <3>1, <3>2
  <2>2. PICK w, r : w = <<"contains", k>> /\ r = contains(b, k)
    OBVIOUS
  <2>3. Increasing(body)' /\ Map!Reads(w, r)
    BY <1>1, <1>6, <2>2, ReadsStep
  <2>4. Map!HasKey(k)
    BY <1>1, <2>1, <2>2, <2>3 DEF Map!HasKey
  <2> QED BY <2>3, <2>4
<1>7. CASE Reads(<<"lower_bound", k>>, Element(lower_bound(body, k)))
  <2>1. PICK keys : keys = {x \in DOMAIN f : x >= k}
    OBVIOUS
  <2>2. ASSUME NEW i \in 1 .. Len(b) PROVE b[i][1] \in keys <=> p <= i
    <3>1. b[i][1] \in DOMAIN f /\ b[i][1] \in Nat
      BY <1>2, <1>4 DEF Pairs
    <3>2. i < p => b[i][1] < k
      BY <1>4
    <3>3. p < i => k < b[i][1]
      BY <1>4
    <3>4. i = p => k <= b[i][1]
      BY <1>4
    <3>5. i < p \/ i = p \/ p < i
      BY <1>4
    <3> QED BY <1>2, <1>4, <2>1, <3>1, <3>2, <3>3, <3>4, <3>5
  <2>3. KeysFrom(keys, body, AsMap, p)
    BY <1>1, <2>1, <2>2 DEF KeysFrom
  <2>4. Map!First(keys) = Element(p)
    BY <1>1, <1>4, <2>3, FirstFrom
  <2>5. PICK w, r : w = <<"lower_bound", k>> /\ r = Element(p)
    OBVIOUS
  <2>6. Increasing(body)' /\ Map!Reads(w, r)
    BY <1>1, <1>3, <1>7, <2>5, ReadsStep
  <2>7. Map!LowerBound(k)
    BY <1>1, <2>1, <2>4, <2>5, <2>6 DEF Map!LowerBound
  <2> QED BY <2>6, <2>7
<1>8. CASE Reads(<<"upper_bound", k>>, Element(upper_bound(body, k)))
  <2>1. PICK keys : keys = {x \in DOMAIN f : x > k}
    OBVIOUS
  <2>2. u \in 1 .. (Len(b) + 1) /\ \A i \in 1 .. Len(b) : (i < u => b[i][1] <= k) /\ (u <= i => k < b[i][1])
    BY <1>2, <1>3, UpperSplits
  <2>3. ASSUME NEW i \in 1 .. Len(b) PROVE b[i][1] \in keys <=> u <= i
    <3>1. b[i][1] \in DOMAIN f /\ b[i][1] \in Nat
      BY <1>2, <1>4 DEF Pairs
    <3>2. (i < u => b[i][1] <= k) /\ (u <= i => k < b[i][1])
      BY <2>2
    <3>3. i < u \/ u <= i
      BY <1>4, <2>2
    <3> QED BY <1>2, <2>1, <3>1, <3>2, <3>3
  <2>4. KeysFrom(keys, body, AsMap, u)
    BY <1>1, <2>1, <2>3 DEF KeysFrom
  <2>5. Map!First(keys) = Element(u)
    BY <1>1, <2>2, <2>4, FirstFrom
  <2>6. PICK w, r : w = <<"upper_bound", k>> /\ r = Element(u)
    OBVIOUS
  <2>7. Increasing(body)' /\ Map!Reads(w, r)
    BY <1>1, <1>3, <1>8, <2>6, ReadsStep
  <2>8. Map!UpperBound(k)
    BY <1>1, <2>1, <2>5, <2>6, <2>7 DEF Map!UpperBound
  <2> QED BY <2>7, <2>8
<1> QED BY <1>5, <1>6, <1>7, <1>8 DEF Lookup

\* An operation of the tree is one of the map.
LEMMA PerformsStep ==
  ASSUME Increasing(body), Performs
  PROVE  Increasing(body)' /\ Map!Call
<1>n. Map!Call <=>
  \/ \E k \in Keys : Map!Find(k) \/ Map!HasKey(k) \/ Map!LowerBound(k) \/ Map!UpperBound(k) \/ Map!EraseKey(k)
  \/ \E e \in Keys \X Values : Map!Insert(e) \/ Map!InsertOrAssign(e) \/ Map!Subscript(e[1], e[2])
  \/ \E es \in Map!Ranges : Map!InsertRange(es) \/ Map!Assign(es)
  \/ \E keys \in SUBSET Keys : Map!EraseKeys(keys)
  \/ \E v \in Values : Map!EraseIf(v)
  BY DEF Map!Call
<1>1. ASSUME NEW e \in Keys \X Values, InsertOne(e) PROVE Increasing(body)' /\ Map!Call
  <2>1. e \in Entries
    BY DEF Entries
  <2>2. Increasing(body)' /\ (Map!Insert(e) \/ Map!InsertOrAssign(e))
    BY <1>1, <2>1, InsertOneStep
  <2> QED BY <1>n, <2>2
<1>2. ASSUME NEW e \in Keys \X Values, Subscript(e[1], e[2]) PROVE Increasing(body)' /\ Map!Call
  <2>1. PICK k \in Keys, v \in Values : k = e[1] /\ v = e[2]
    OBVIOUS
  <2>2. Subscript(k, v)
    BY <1>2, <2>1
  <2>3. Increasing(body)' /\ Map!Subscript(k, v)
    BY <2>2, SubscriptStep
  <2>4. Map!Subscript(e[1], e[2])
    BY <2>1, <2>3
  <2> QED BY <1>n, <2>3, <2>4
<1>3. ASSUME NEW es \in SeqOf(Keys \X Values, MaxRange), Assign(es) PROVE Increasing(body)' /\ Map!Call
  <2>1. es \in Seq(Entries) /\ es \in Map!Ranges
    BY RangesAre
  <2>2. Increasing(body)' /\ Map!Assign(es)
    BY <1>3, <2>1, AssignStep
  <2> QED BY <1>n, <2>1, <2>2
<1>4. ASSUME NEW es \in SeqOf(Keys \X Values, MaxRange),
             Does(<<"insert_range", es>>, InsertMany(body, es), None)
      PROVE Increasing(body)' /\ Map!Call
  <2>1. es \in Seq(Entries) /\ es \in Map!Ranges
    BY RangesAre
  <2>2. Increasing(body)' /\ Map!InsertRange(es)
    BY <1>4, <2>1, InsertRangeStep
  <2> QED BY <1>n, <2>1, <2>2
<1>5. ASSUME NEW k \in Keys, EraseKey(k) PROVE Increasing(body)' /\ Map!Call
  <2>1. Increasing(body)' /\ Map!EraseKey(k)
    BY <1>5, EraseKeyStep
  <2> QED BY <1>n, <2>1
<1>6. ASSUME NEW k \in Keys, Lookup(k) PROVE Increasing(body)' /\ Map!Call
  <2>1. Increasing(body)' /\ (Map!Find(k) \/ Map!HasKey(k) \/ Map!LowerBound(k) \/ Map!UpperBound(k))
    BY <1>6, LookupStep
  <2> QED BY <1>n, <2>1
<1>7. ASSUME NEW i \in 1 .. End(body), NEW j \in i .. End(body), ErasePositions(i, j)
      PROVE Increasing(body)' /\ Map!Call
  <2>1. Increasing(body)' /\ \E keys \in SUBSET Keys : Map!EraseKeys(keys)
    BY <1>7, ErasePositionsStep
  <2> QED BY <1>n, <2>1
<1>8. ASSUME NEW v \in Values, EraseIf(v) PROVE Increasing(body)' /\ Map!Call
  <2>1. Increasing(body)' /\ Map!EraseIf(v)
    BY <1>8, EraseIfStep
  <2> QED BY <1>n, <2>1
<1> QED BY <1>1, <1>2, <1>3, <1>4, <1>5, <1>6, <1>7, <1>8 DEF Performs

\* So is its return; what is not an operation leaves both alone.
LEMMA MapStep ==
  ASSUME Increasing(body), [MapNext]_mapVars
  PROVE  Increasing(body)' /\ [Map!Next]_(Map!vars)
<1>1. ASSUME called = None, Performs PROVE Increasing(body)' /\ [Map!Next]_(Map!vars)
  <2>1. Increasing(body)' /\ Map!Call
    BY <1>1, PerformsStep
  <2>2. CASE UNCHANGED Map!vars
    BY <2>1, <2>2
  <2>3. CASE ~UNCHANGED Map!vars
    BY <1>1, <2>1, <2>3 DEF Map!Next
  <2> QED BY <2>2, <2>3
<1>2. ASSUME MapReturn PROVE Increasing(body)' /\ Map!Next
  <2>1. called # None /\ called' = None /\ ret' = None /\ body' = body
    BY <1>2 DEF MapReturn
  <2>2. AsMap' = AsMap
    BY <2>1 DEF AsMap
  <2>3. Increasing(body)'
    BY <2>1
  <2> QED BY <2>1, <2>2, <2>3 DEF Map!Next, Map!Return
<1>3. ASSUME UNCHANGED mapVars PROVE Increasing(body)' /\ UNCHANGED Map!vars
  <2>1. body' = body /\ called' = called /\ ret' = ret
    BY <1>3 DEF mapVars
  <2>2. AsMap' = AsMap
    BY <2>1 DEF AsMap
  <2>3. Increasing(body)'
    BY <2>1
  <2> QED BY <2>1, <2>2, <2>3 DEF Map!vars
<1> QED BY <1>1, <1>2, <1>3 DEF MapNext

\* The empty tree is the empty map.
LEMMA MapInitIs ==
  ASSUME MapInit
  PROVE  Increasing(body) /\ Map!Init
<1>1. body = <<>> /\ called = None /\ ret = None
  BY DEF MapInit
<1>2. Firsts(<<>>, <<>>)
  BY FirstsEmpty
<1>3. Increasing(<<>>)
  <2>1. <<>> \in Seq(Entries) /\ Len(<<>>) = 0
    OBVIOUS
  <2> QED BY <2>1 DEF Increasing
<1>4. Pairs(<<>>, <<>>)
  BY <1>2, <1>3, PairsAre
<1>5. <<>> = MapOf(<<>>)
  BY <1>3, <1>4, MapOfIs
<1>6. AsMap = <<>>
  BY <1>1, <1>5 DEF AsMap, MapOf
<1> QED BY <1>1, <1>3, <1>6 DEF Map!Init

\* The body of a flat_tree is always sorted by key, without two equal keys, whatever
\* is inserted, with which hint, and erased: what every search relies on.
THEOREM BodyIncreases == MapSpec => []Increasing(body)
<1>1. MapInit => Increasing(body)
  BY MapInitIs
<1>2. Increasing(body) /\ [MapNext]_mapVars => Increasing(body)'
  BY MapStep
<1> QED BY <1>1, <1>2, PTL DEF MapSpec

\* flat_map implements a map from keys to values.
THEOREM FlatMapImplementsMap == MapSpec => ImplementsMap
<1>1. MapInit => Map!Init
  BY MapInitIs
<1>2. Increasing(body) /\ [MapNext]_mapVars => [Map!Next]_(Map!vars)
  BY MapStep
<1> QED BY <1>1, <1>2, BodyIncreases, PTL DEF MapSpec, ImplementsMap, Map!Spec

=============================================================================
