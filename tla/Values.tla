-------------------------------- MODULE Values --------------------------------
(***************************************************************************)
(* DictValue: a flat_map from keys to Values, each of which has a cell of  *)
(* its own, so that a pointer to a Value outlives what is done to the      *)
(* others.  The dictionaries that the program has as variables are the     *)
(* roots.  A key is a string without a dot and may be empty; a path is the *)
(* sequence of what is between its dots.  DCHECKs are off: with them the   *)
(* program stops in ExtractByDottedPath at a path that ends with a dot.    *)
(***************************************************************************)
EXTENDS Integers, SequencesExt, FiniteSetsExt

CONSTANTS
  Roots,
  Cells,    \* numbers, the addresses of Values on the heap
  Keys,
  EmptyKey,
  Leaves,   \* what a Value is that is not a dictionary
  List,     \* the one of them that is an empty list
  Null,
  Paths     \* what is passed as a path

ASSUME ValuesAssumption ==
  /\ EmptyKey \in Keys /\ List \in Leaves /\ "dict" \notin Leaves
  /\ Roots \cap Cells = {} /\ Null \notin Cells
  /\ Paths \subseteq Seq(Keys) \ {<<>>, <<EmptyKey>>}

VARIABLE heap \* what each cell and root holds

Free == [kind |-> "free"]
LeafOf(l) == [kind |-> "leaf", leaf |-> l]
DictOf(entries) == [kind |-> "dict", entries |-> entries]
NoEntries == [k \in {} |-> Null]

-----------------------------------------------------------------------------
(* The heap                                                                *)

IsDict(h, c) == h[c].kind = "dict"
EntriesOf(h, c) == IF IsDict(h, c) THEN h[c].entries ELSE NoEntries
Find(h, d, key) == IF key \in DOMAIN h[d].entries THEN h[d].entries[key] ELSE Null
FindDict(h, d, key) ==
  LET c == Find(h, d, key) IN IF c # Null /\ IsDict(h, c) THEN c ELSE Null

RECURSIVE Owned(_, _)
Owned(h, c) == {c} \cup UNION {Owned(h, e) : e \in Range(EntriesOf(h, c))}
FreeCells(h) == {c \in Cells : h[c] = Free}
Destroyed(h, cells) == [c \in DOMAIN h |-> IF c \in cells THEN Free ELSE h[c]]
NewCell(h) == Min(FreeCells(h))

\* storage_.insert_or_assign, which destroys the Value it replaces.
Assigned(h, d, key, c) ==
  LET old == Find(h, d, key)
      rest == IF old = Null THEN h ELSE Destroyed(h, Owned(h, old))
  IN [rest EXCEPT ![d].entries = [k \in DOMAIN @ \cup {key} |-> IF k = key THEN c ELSE @[k]]]
\* Set: the Value is made in a new cell.
Set(h, d, key, value) == Assigned([h EXCEPT ![NewCell(h)] = value], d, key, NewCell(h))

\* storage_.erase.
Erased(h, d, key) ==
  [h EXCEPT ![d].entries = [k \in DOMAIN @ \ {key} |-> @[k]], ![Find(h, d, key)] = Free]

\* The entries are moved to r, and those that r had are destroyed.
MovedTo(h, entries, r) ==
  [Destroyed(h, Owned(h, r) \ {r}) EXCEPT ![r] = DictOf(entries)]
\* r has been moved from.
Emptied(h, r) == [h EXCEPT ![r] = DictOf(NoEntries)]

\* What EnsureDict returns and the intermediate dictionaries of SetByDottedPath:
\* the dictionary that is there, or a new one.
WithDict(h, d, key) ==
  IF FindDict(h, d, key) # Null THEN h ELSE Set(h, d, key, DictOf(NoEntries))

-----------------------------------------------------------------------------
(* Paths                                                                   *)

\* PathSplitter has no next component behind a dot that ends the path.
Splitter(path) == IF Len(path) > 1 /\ Last(path) = EmptyKey THEN Front(path) ELSE path

RECURSIVE FoundAt(_, _, _)
FoundAt(h, d, components) ==
  LET c == Find(h, d, Head(components))
  IN IF Len(components) = 1 \/ c = Null THEN c
     ELSE IF IsDict(h, c) THEN FoundAt(h, c, Tail(components)) ELSE Null
FindByDottedPath(h, d, path) == FoundAt(h, d, Splitter(path))

\* The heap, and the dictionary and the key that are set, if none of the values
\* on the way is something else.
RECURSIVE Descended(_, _, _)
Descended(h, d, components) ==
  LET key == Head(components)
      c == Find(h, d, key)
      next == WithDict(h, d, key)
  IN IF Len(components) = 1 THEN [heap |-> h, dict |-> d, key |-> key]
     ELSE IF c # Null /\ ~IsDict(h, c) THEN [heap |-> h, dict |-> Null, key |-> key]
     ELSE Descended(next, Find(next, d, key), Tail(components))

\* Extract and ExtractByDottedPath, which takes the path apart by itself: the heap
\* and the value, of which a dictionary has its entries still.  A dictionary that
\* becomes empty is removed.
Nothing(h) == [heap |-> h, value |-> Null]
Extracted(h, d, key) ==
  LET c == Find(h, d, key)
  IN IF c = Null THEN Nothing(h) ELSE [heap |-> Erased(h, d, key), value |-> h[c]]
RemovesEmptyMutant(h, c, value) == h[c].entries = NoEntries
RemovesEmpty(h, c, value) == value # Null /\ h[c].entries = NoEntries
RECURSIVE ExtractByDottedPath(_, _, _)
ExtractByDottedPath(h, d, path) ==
  IF Len(path) = 1 THEN Extracted(h, d, path[1])
  ELSE LET next == FindDict(h, d, path[1])
           rest == ExtractByDottedPath(h, next, Tail(path))
       IN IF next = Null THEN Nothing(h)
          ELSE [rest EXCEPT !.heap = IF RemovesEmpty(@, next, rest.value)
                                     THEN Erased(@, d, path[1]) ELSE @]

-----------------------------------------------------------------------------
(* Merge and Clone                                                         *)

\* The entries are those of the dictionary that is merged, which has been moved:
\* their cells become those of d, or are merged into those of d and destroyed.
MergesNestedMutant(g, c, nested) == FALSE
MergesNested(g, c, nested) == c # Null /\ IsDict(g, nested)
RECURSIVE MergedInto(_, _, _)
MergedInto(h, d, entries) ==
  LET step(g, key) ==
        LET c == FindDict(g, d, key)
            nested == entries[key]
        IN IF MergesNested(g, c, nested)
           THEN Destroyed(MergedInto(g, c, g[nested].entries), {nested})
           ELSE Assigned(g, d, key, nested)
  IN IF h[d].entries = NoEntries THEN [h EXCEPT ![d] = DictOf(entries)]
     ELSE FoldLeft(step, h, SetToSeq(DOMAIN entries))

\* The heap with a copy of c in the cell to.
RECURSIVE Copied(_, _, _)
Copied(h, c, to) ==
  LET step(g, key) ==
        Copied([g EXCEPT ![to].entries = [k \in DOMAIN @ \cup {key} |-> IF k = key THEN NewCell(g) ELSE @[k]]],
               h[c].entries[key], NewCell(g))
  IN IF IsDict(h, c)
     THEN FoldLeft(step, [h EXCEPT ![to] = DictOf(NoEntries)], SetToSeq(DOMAIN h[c].entries))
     ELSE [h EXCEPT ![to] = h[c]]

-----------------------------------------------------------------------------
(* The operations.  b is the path in r of the dictionary that they are     *)
(* called for, and s another root, which is moved or assigned.             *)

RECURSIVE PathsTo(_, _)
PathsTo(h, c) ==
  {<<>>} \cup UNION {{<<k>> \o p : p \in PathsTo(h, h[c].entries[k])} : k \in DOMAIN EntriesOf(h, c)}
CellAt(h, c, path) == FoldLeft(LAMBDA d, k : h[d].entries[k], c, path)
DictPaths(r) == {b \in PathsTo(heap, r) : IsDict(heap, CellAt(heap, r, b))}

ValuesInit == heap = [c \in Roots \cup Cells |-> IF c \in Roots THEN DictOf(NoEntries) ELSE Free]

\* The program has room for n more Values.
HasRoom(n) == Cardinality(FreeCells(heap)) >= n

SetLeaf(r, b, key, l) ==
  HasRoom(1) /\ heap' = Set(heap, CellAt(heap, r, b), key, LeafOf(l))
\* Set(key, std::move(s)): s is empty then.
SetMoved(r, b, key, s) ==
  /\ r # s /\ HasRoom(1)
  /\ heap' = Set(Emptied(heap, s), CellAt(heap, r, b), key, heap[s])

EnsureDict(r, b, key) == HasRoom(1) /\ heap' = WithDict(heap, CellAt(heap, r, b), key)
EnsureList(r, b, key) ==
  LET c == Find(heap, CellAt(heap, r, b), key)
  IN /\ c # Null => heap[c] # LeafOf(List)
     /\ SetLeaf(r, b, key, List)

SetByDottedPath(h, r, b, path, value) ==
  LET at == Descended(h, CellAt(h, r, b), Splitter(path))
  IN [set |-> at.dict # Null,
      heap |-> IF at.dict = Null THEN h ELSE Set(at.heap, at.dict, at.key, value)]
SetLeafByDottedPath(r, b, path, l) ==
  HasRoom(Len(path)) /\ heap' = SetByDottedPath(heap, r, b, path, LeafOf(l)).heap
\* The overload for a DictValue makes a Value of it first, which is destroyed when
\* a value that is no dictionary is on the way.
SetMovedByDottedPath(r, b, path, s) ==
  LET after == SetByDottedPath(Emptied(heap, s), r, b, path, heap[s])
  IN /\ r # s /\ HasRoom(Len(path))
     /\ heap' = IF after.set THEN after.heap ELSE MovedTo(heap, NoEntries, s)

\* Remove(key) and RemoveByDottedPath(path): the value is destroyed.
RemoveByDottedPath(r, b, path) ==
  LET removed == ExtractByDottedPath(heap, CellAt(heap, r, b), path)
      children == IF removed.value # Null /\ removed.value.kind = "dict"
                  THEN Range(removed.value.entries) ELSE {}
  IN heap' = Destroyed(removed.heap, UNION {Owned(removed.heap, c) : c \in children})
\* s = *Extract(key)->TakeDict(), and the like with a path.
ExtractTo(r, b, path, s) ==
  LET removed == ExtractByDottedPath(heap, CellAt(heap, r, b), path)
  IN /\ removed.value # Null /\ removed.value.kind = "dict"
     /\ heap' = MovedTo(removed.heap, removed.value.entries, s)

\* Merge(std::move(s)).
Merge(r, b, s) ==
  r # s /\ heap' = MergedInto(Emptied(heap, s), CellAt(heap, r, b), heap[s].entries)

\* s = Clone(): the copy is complete before what s had is destroyed.
Clone(r, b, s) ==
  LET d == CellAt(heap, r, b)
      temporary == NewCell(heap)
      copied == Copied(heap, d, temporary)
  IN /\ HasRoom(Cardinality(Owned(heap, d)))
     /\ heap' = MovedTo(Destroyed(copied, {temporary}), copied[temporary].entries, s)
Clear(r, b) ==
  LET d == CellAt(heap, r, b)
  IN heap' = [Destroyed(heap, Owned(heap, d)) EXCEPT ![d] = DictOf(NoEntries)]

ValuesNext ==
  \E r \in Roots : \E b \in DictPaths(r) :
    \/ \E key \in Keys :
         \/ \E l \in Leaves : SetLeaf(r, b, key, l)
         \/ EnsureDict(r, b, key) \/ EnsureList(r, b, key)
         \/ \E s \in Roots : SetMoved(r, b, key, s)
    \/ \E path \in Paths :
         \/ \E l \in Leaves : SetLeafByDottedPath(r, b, path, l)
         \/ \E s \in Roots : SetMovedByDottedPath(r, b, path, s)
    \/ \E path \in Paths \cup {<<EmptyKey>>} :
         RemoveByDottedPath(r, b, path) \/ \E s \in Roots : ExtractTo(r, b, path, s)
    \/ \E s \in Roots : Merge(r, b, s) \/ Clone(r, b, s)
    \/ Clear(r, b)

ValuesSpec == ValuesInit /\ [][ValuesNext]_heap

-----------------------------------------------------------------------------
TreeOf(h, r) ==
  [p \in PathsTo(h, r) |->
     LET c == CellAt(h, r, p) IN IF IsDict(h, c) THEN "dict" ELSE h[c].leaf]
Trees == [r \in Roots |-> TreeOf(heap, r)]

\* Each operation does to the dictionaries what some operation does to trees: Merge
\* is recursive where both entries are dictionaries, a copy is deep, and what is
\* moved is gone.  (values.cc, values.h.)
Tree == INSTANCE DictTree WITH tree <- Trees
ImplementsTree == Tree!Spec

\* SetByDottedPath makes the dictionaries that are missing, and fails, having
\* changed nothing, if and only if another value is on the way.  (values.h, "Will
\* fail if any non-last component of the path refers to an already-existing entry
\* that is not a dictionary".)
SetsByPath ==
  \A r \in Roots : \A b \in DictPaths(r) : \A path \in Paths : HasRoom(Len(path)) =>
    LET result == SetByDottedPath(heap, r, b, path, LeafOf(List))
        x == b \o Splitter(path)
    IN IF Tree!Blocked(Trees[r], x) THEN ~result.set /\ result.heap = heap
       ELSE /\ result.set
            /\ TreeOf(result.heap, r) = Tree!Graft(Trees[r], x, Tree!Leaf(List))

\* ExtractByDottedPath and RemoveByDottedPath take what is at the path, and with it
\* the dictionaries that it leaves empty, all the way up; where nothing is at the
\* path, a dictionary on the way stays even if it is empty.  (values.cc, "removing
\* dictionaries that become empty if a value matching path is extracted".)
ExtractsByPath ==
  \A r \in Roots : \A b \in DictPaths(r) : \A path \in Paths :
    LET result == ExtractByDottedPath(heap, CellAt(heap, r, b), path)
        t == Trees[r]
        x == b \o path
    IN IF x \notin DOMAIN t THEN result = Nothing(heap)
       ELSE /\ result.value = heap[CellAt(heap, r, x)]
            /\ TreeOf(result.heap, r) =
                 Tree!Pruned(t, Tree!Below(t, x) \cup Tree!Emptied(t, b, x))

\* A Value belongs to one dictionary, and none is lost.
OwnedOnce ==
  \A c \in Cells :
    Cardinality({<<d, k>> \in (Roots \cup Cells) \X Keys :
                   k \in DOMAIN EntriesOf(heap, d) /\ heap[d].entries[k] = c}) =
      IF heap[c] = Free THEN 0 ELSE 1

\* A pointer that Set, Find or EnsureDict returned is good until its own entry or
\* one above it is assigned or removed: nothing else moves a Value, and a merged
\* dictionary stays where it is.  (values.h, storage_: callers rely on the stability
\* of pointers.)
Assigns(r, p) ==
  \/ \E q \in Roots : \E b \in DictPaths(q) :
       Clone(q, b, r) \/ \E path \in Paths \cup {<<EmptyKey>>} : ExtractTo(q, b, path, r)
  \/ \E s \in Roots : \E b \in DictPaths(r) :
       \/ \E key \in Keys :
            /\ IsPrefix(Append(b, key), p)
            /\ \/ SetMoved(r, b, key, s)
               \/ \E l \in Leaves : SetLeaf(r, b, key, l)
               \/ FindDict(heap, CellAt(heap, r, b), key) = Null /\ EnsureDict(r, b, key)
       \/ \E path \in Paths :
            /\ IsPrefix(b \o Splitter(path), p)
            /\ \/ SetMovedByDottedPath(r, b, path, s)
               \/ \E l \in Leaves : SetLeafByDottedPath(r, b, path, l)
       \/ /\ \E q \in PathsTo(heap, s) :
               /\ IsPrefix(b \o q, p)
               /\ b \o q \notin DictPaths(r) \/ q \notin DictPaths(s)
          /\ Merge(r, b, s)
PointersStay ==
  [][\A r \in Roots : \A p \in (PathsTo(heap, r) \cap PathsTo(heap', r)) \ {<<>>} :
       CellAt(heap', r, p) # CellAt(heap, r, p) => Assigns(r, p)]_heap


\* Each Value has one owner, and what paths set and extract is what they name.
PathsAreExact == OwnedOnce /\ SetsByPath /\ ExtractsByPath

\* The dictionaries are those of DictTree, and what callers point to stays.
TreesWithStablePointers == ImplementsTree /\ PointersStay
=============================================================================
