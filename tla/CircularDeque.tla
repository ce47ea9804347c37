---------------------------- MODULE CircularDeque ----------------------------
(***************************************************************************)
(* base::circular_deque over a VectorBuffer: a ring of slots, some holding *)
(* an element and some raw memory.  Operations are pure operators on the   *)
(* deque, translated statement by statement where the order of two slots   *)
(* or of two statements matters; an action performs one of them and says   *)
(* what becomes of the program's iterator.  DCHECKs are on.                *)
(***************************************************************************)
EXTENDS Elements, Integers, FiniteSets, SequencesExt

CONSTANTS
  Raw,             \* a slot with no element
  InitialCapacity, \* kCircularBufferInitialCapacity
  MaxSize,         \* how many elements the program stores
  KeepsIterators   \* whether it uses iterators after reserve or shrink_to_fit

ASSUME DequeAssumption ==
  /\ Raw \notin Values
  /\ InitialCapacity \in Nat \ {0} /\ MaxSize \in Nat
  /\ KeepsIterators \in BOOLEAN
\* No iterator is not an iterator, nor a position.
ASSUME NoIteratorAssumption ==
  None \notin Nat \cup [index : Nat, cap : Nat, begin : Nat, end : Nat, freed : BOOLEAN]

VARIABLES
  deque,  \* buffer_, begin_, end_; touched: generation_ was incremented, moved:
          \* buffer_ was replaced, both by the operation at hand; ub: a slot was
          \* constructed that held an element, or destroyed that held none
  it,     \* the program's iterator: what it caches, and whether its buffer_ has
          \* been freed; None also when its generation is not the deque's, for
          \* then every use of it fails a DCHECK
  op      \* the operation that was performed, until it returns, or None

dequeVars == <<deque, it, op>>

-----------------------------------------------------------------------------
(* VectorBuffer                                                            *)

RawBuffer(n) == [i \in 0..(n - 1) |-> Raw]
Cap(d) == Cardinality(DOMAIN d.buf)

\* The slots from b up to e, around the end of the buffer.
Slots(d, b, e) ==
  [k \in 1..(IF b <= e THEN e - b ELSE Cap(d) - b + e) |-> (b + k - 1) % Cap(d)]

Construct(d, i, x) == [d EXCEPT !.buf[i] = x, !.ub = @ \/ d.buf[i] # Raw]
ConstructAll(d, i, xs) ==
  FoldLeft(LAMBDA e, k : Construct(e, (i + k - 1) % Cap(d), xs[k]), d,
           [k \in 1..Len(xs) |-> k])

\* MoveConstructRange of one element.
MoveSlot(d, src, dest) ==
  LET e == Construct(d, dest, d.buf[src])
  IN [e EXCEPT !.buf[src] = Raw, !.ub = @ \/ d.buf[src] = Raw]

\* MoveSlot in a loop: from the slots src to the slots dest, in this order.
MoveEach(d, src, dest) ==
  FoldLeft(LAMBDA e, k : MoveSlot(e, src[k], dest[k]), d, [k \in 1..Len(src) |-> k])

DestructRange(d, b, e) ==
  LET range == ToSet(Slots(d, b, e))
  IN [d EXCEPT !.buf = [i \in DOMAIN d.buf |-> IF i \in range THEN Raw ELSE d.buf[i]],
               !.ub = @ \/ \E i \in range : d.buf[i] = Raw]

-----------------------------------------------------------------------------
(* Accessors and capacity                                                  *)

EmptyDeque == [buf |-> RawBuffer(0), begin |-> 0, end |-> 0,
               touched |-> FALSE, moved |-> FALSE, ub |-> FALSE]

Size(d) == IF d.begin <= d.end THEN d.end - d.begin ELSE Cap(d) - d.begin + d.end
Capacity(d) == IF Cap(d) = 0 THEN 0 ELSE Cap(d) - 1
At(d, i) ==
  LET right_size == Cap(d) - d.begin
  IN IF d.begin <= d.end \/ i < right_size THEN d.buf[d.begin + i]
     ELSE d.buf[i - right_size]
Contents(d) == [k \in 1..Size(d) |-> At(d, k - 1)]

IncrementGeneration(d) == [d EXCEPT !.touched = TRUE]

\* The elements from begin_ to end_ in order: the right side, then the left.
MoveBufferMutant(d) ==
  IF d.begin <= d.end THEN Slots(d, d.begin, d.end)
  ELSE Slots(d, 0, d.end) \o Slots(d, d.begin, Cap(d))
MoveBuffer(d) == Slots(d, d.begin, d.end)
SetCapacityTo(d, n) ==
  LET from == MoveBuffer(d)
  IN [d EXCEPT !.buf = [i \in 0..n |-> IF i < Len(from) THEN d.buf[from[i + 1]] ELSE Raw],
               !.begin = 0, !.end = Len(from), !.moved = TRUE]

Largest(a, b) == IF a >= b THEN a ELSE b
ExpandCapacityIfNecessary(d, n) ==
  LET need == Size(d) + n
  IN IF Capacity(d) >= need THEN d
     ELSE SetCapacityTo(d, Largest(Largest(need, InitialCapacity),
                                   Capacity(d) + Capacity(d) \div 4))

ShrinkCapacityIfNecessary(d) ==
  LET wanted == Largest(InitialCapacity, Size(d) + Size(d) \div 4)
  IN IF /\ Capacity(d) > InitialCapacity
        /\ Capacity(d) - Size(d) >= Size(d)
        /\ wanted < Capacity(d)
     THEN SetCapacityTo(d, wanted) ELSE d

Reserve(d, n) == IF n > Capacity(d) THEN SetCapacityTo(d, n) ELSE d
NewBuffer(d) == [d EXCEPT !.buf = RawBuffer(0), !.moved = TRUE]
ShrinkToFit(d) ==
  IF Size(d) > 0 THEN SetCapacityTo(d, Size(d))
  ELSE IF Cap(d) > 0 THEN NewBuffer(d) ELSE d
ClearRetainCapacity(d) ==
  IncrementGeneration([DestructRange(d, d.begin, d.end) EXCEPT !.begin = 0, !.end = 0])

-----------------------------------------------------------------------------
(* Operations at the ends, and on the whole deque                          *)

EmplaceBack(d, x) ==
  LET e == ExpandCapacityIfNecessary(d, 1)
  IN IncrementGeneration([Construct(e, e.end, x) EXCEPT
                            !.end = IF @ = Cap(e) - 1 THEN 0 ELSE @ + 1])
EmplaceFront(d, x) ==
  LET e == ExpandCapacityIfNecessary(d, 1)
      first == IF e.begin = 0 THEN Cap(e) - 1 ELSE e.begin - 1
  IN Construct(IncrementGeneration([e EXCEPT !.begin = first]), first, x)

PopFront(d) ==
  LET e == [DestructRange(d, d.begin, d.begin + 1) EXCEPT
              !.begin = IF @ + 1 = Cap(d) THEN 0 ELSE @ + 1]
  IN IncrementGeneration(ShrinkCapacityIfNecessary(e))
PopBack(d) ==
  LET last == IF d.end = 0 THEN Cap(d) - 1 ELSE d.end - 1
      e == DestructRange([d EXCEPT !.end = last], last, last + 1)
  IN IncrementGeneration(ShrinkCapacityIfNecessary(e))

EmplaceEach(d, xs) == FoldLeft(EmplaceBack, d, xs)
EmplaceEachFront(d, xs) == FoldLeft(EmplaceFront, d, xs)
Copies(n, x) == [i \in 1..n |-> x]

Resize(d, n, x) ==
  LET new_end == (d.begin + n) % Cap(d)
  IN IncrementGeneration(
       IF n > Size(d)
       THEN EmplaceEach(ExpandCapacityIfNecessary(d, n - Size(d)), Copies(n - Size(d), x))
       ELSE IF n < Size(d)
       THEN ShrinkCapacityIfNecessary([DestructRange(d, new_end, d.end) EXCEPT !.end = new_end])
       ELSE d)

\* operator= of a const&, a list or a range; and assign(count, value), which
\* reserves when it has cleared.
AssignRange(d, xs) ==
  IncrementGeneration(EmplaceEach(ClearRetainCapacity(Reserve(d, Len(xs))), xs))
AssignCopies(d, n, x) ==
  IncrementGeneration(EmplaceEach(Reserve(ClearRetainCapacity(d), n), Copies(n, x)))

\* operator= of a deque&&, and swap, where the other one is a copy of xs.
CopyOf(xs) == AssignRange([EmptyDeque EXCEPT !.buf = RawBuffer(Len(xs) + 1)], xs)
MoveAssign(d, xs) ==
  IncrementGeneration([ClearRetainCapacity(d) EXCEPT
    !.buf = CopyOf(xs).buf, !.begin = CopyOf(xs).begin, !.end = CopyOf(xs).end,
    !.moved = TRUE])

Clear(d) == NewBuffer(ClearRetainCapacity(d))

-----------------------------------------------------------------------------
(* Insertion and erasure at an index of the buffer                         *)

OffsetFromBegin(d, i) == IF i >= d.begin THEN i - d.begin ELSE Cap(d) - d.begin + i

\* The slots of the elements after the hole, in the order they are moved.
ShiftMutant(n) == [k \in 1..n |-> n + 1 - k]
Shift(n) == [k \in 1..n |-> k]

\* The deque with a hole of n slots at index i, and where the hole is now.
MakeRoomFor(d, n, i) ==
  LET e == ExpandCapacityIfNecessary(d, n)
      cap == Cap(e)
      offset == OffsetFromBegin(d, i)
      last == (e.end + n) % cap
      order == Shift(Size(d) - offset)
  IN IF n = 0 THEN [d |-> d, at |-> i]
     ELSE [d |-> MoveEach([e EXCEPT !.end = last],
                          [k \in DOMAIN order |-> (e.end + cap - order[k]) % cap],
                          [k \in DOMAIN order |-> (last + cap - order[k]) % cap]),
           at |-> (e.begin + offset) % cap]

Fill(d, i, xs) ==
  LET room == MakeRoomFor(d, Len(xs), i)
  IN ConstructAll(room.d, room.at, xs)

InsertCopies(d, i, n, x) ==
  IF i = d.begin
  THEN EmplaceEachFront(ExpandCapacityIfNecessary(d, n), Copies(n, x))
  ELSE IncrementGeneration(Fill(d, i, Copies(n, x)))

InsertRange(d, i, xs) ==
  LET e == ExpandCapacityIfNecessary(d, Len(xs))
      begin == (e.begin + Cap(e) - Len(xs)) % Cap(e)
  IN IF xs = <<>> THEN d
     ELSE IncrementGeneration(IF i = d.begin
                              THEN ConstructAll([e EXCEPT !.begin = begin], begin, xs)
                              ELSE Fill(d, i, xs))

Emplace(d, i, x) ==
  IF i = d.begin THEN EmplaceFront(d, x) ELSE Fill(IncrementGeneration(d), i, <<x>>)

Erase(d, i, j) ==
  LET e == DestructRange(IncrementGeneration(d), i, j)
      cap == Cap(d)
      behind == Len(Slots(d, j, d.end))
  IN IF i = j THEN IncrementGeneration(d)
     ELSE IF i = d.begin THEN [e EXCEPT !.begin = j]
     ELSE MoveEach([e EXCEPT !.end = (i + behind) % cap],
                   [k \in 1..behind |-> (j + k - 1) % cap],
                   [k \in 1..behind |-> (i + k - 1) % cap])
\* The index of the iterator that erase and emplace return.
AfterErase(d, i, j) == IF i = d.begin THEN j ELSE i
AfterEmplace(d, i, x) ==
  IF i = d.begin THEN EmplaceFront(d, x).begin
  ELSE MakeRoomFor(IncrementGeneration(d), 1, i).at

\* Erase(deque, value): std::ranges::remove assigns the elements that are kept
\* to the first slots, then the rest is erased.
AssignEach(d, slots, xs) ==
  FoldLeft(LAMBDA e, k : [e EXCEPT !.buf[slots[k]] = xs[k]], d, [k \in 1..Len(xs) |-> k])
EraseValue(d, x) ==
  LET kept == Without(Contents(d), x)
  IN Erase(AssignEach(d, Slots(d, d.begin, d.end), kept), (d.begin + Len(kept)) % Cap(d), d.end)

-----------------------------------------------------------------------------
(* Iterators                                                               *)

Iterator(d, i) ==
  [index |-> i, cap |-> Cap(d), begin |-> d.begin, end |-> d.end, freed |-> FALSE]

CheckValidIndex(d, i) ==
  IF d.begin <= d.end THEN i >= d.begin /\ i < d.end
  ELSE (i >= d.begin /\ i < Cap(d)) \/ i < d.end
CheckValidIndexOrEnd(d, i) == i # d.end => CheckValidIndex(d, i)

\* With what the iterator cached, not with the deque's own members.
Offset(i) == IF i.index >= i.begin THEN i.index - i.begin ELSE i.cap - i.begin + i.index
SizeThen(i) == IF i.begin <= i.end THEN i.end - i.begin ELSE i.cap - i.begin + i.end

Increment(i) == IF i.index + 1 = i.cap THEN 0 ELSE i.index + 1
Decrement(i) == IF i.index = 0 THEN i.cap - 1 ELSE i.index - 1
Add(i, delta) == (Offset(i) + delta + i.begin) % i.cap

\* What is left of the iterator after an operation.
Keep(d) == IF it = None \/ d.touched THEN None ELSE [it EXCEPT !.freed = @ \/ d.moved]
Settled(d) == [d EXCEPT !.touched = FALSE, !.moved = FALSE]

Perform(what, d) ==
  /\ Size(d) <= MaxSize
  /\ deque' = Settled(d) /\ it' = Keep(d) /\ op' = what
PerformAt(what, d, i) ==
  /\ Size(d) <= MaxSize
  /\ deque' = Settled(d) /\ it' = Iterator(d, i) /\ op' = what
Reallocate(d) ==
  /\ deque' = Settled(d) /\ op' = <<"reallocate">>
  /\ it' = IF KeepsIterators THEN Keep(d) ELSE None
Walk(what, i) == op' = what /\ UNCHANGED deque /\ it' = [it EXCEPT !.index = i]

-----------------------------------------------------------------------------
DequeInit == deque = EmptyDeque /\ it = None /\ op = None

Ranges == SeqOf(Values, MaxRange)

Whole ==
  \/ \E x \in Values :
       \/ Perform(<<"push_back", x>>, EmplaceBack(deque, x))
       \/ Perform(<<"push_front", x>>, EmplaceFront(deque, x))
       \/ Size(deque) > 0 /\ Perform(<<"Erase", x>>, EraseValue(deque, x))
       \/ \E n \in 0..MaxSize : Perform(<<"resize", n, x>>, Resize(deque, n, x))
       \/ \E n \in 0..MaxRange : Perform(<<"assign", Copies(n, x)>>, AssignCopies(deque, n, x))
  \/ Size(deque) > 0 /\ Perform(<<"pop_back">>, PopBack(deque))
  \/ Size(deque) > 0 /\ Perform(<<"pop_front">>, PopFront(deque))
  \/ Perform(<<"clear">>, Clear(deque))
  \/ \E xs \in Ranges : \/ Perform(<<"assign", xs>>, AssignRange(deque, xs))
                        \/ Perform(<<"assign", xs>>, MoveAssign(deque, xs))
  \/ \E n \in 0..MaxSize : Reallocate(Reserve(deque, n))
  \/ Reallocate(ShrinkToFit(deque))

\* ValidateIterator has passed: the iterator is of the deque's generation.
AtIterator ==
  /\ it # None
  /\ \/ \E n \in 0..MaxRange, x \in Values :
          Perform(<<"insert", Copies(n, x)>>, InsertCopies(deque, it.index, n, x))
     \/ \E xs \in Ranges : Perform(<<"insert", xs>>, InsertRange(deque, it.index, xs))
     \/ \E x \in Values : PerformAt(<<"emplace", x>>, Emplace(deque, it.index, x),
                                    AfterEmplace(deque, it.index, x))
     \/ \E n \in 0..(SizeThen(it) - Offset(it)) :
          LET j == IF n = 0 THEN it.index ELSE Add(it, n)
          IN PerformAt(<<"erase", n>>, Erase(deque, it.index, j),
                       AfterErase(deque, it.index, j))

\* The checks of Increment, Decrement and Add are the guards: where they do not
\* hold the program is stopped.
Iterate ==
  \/ it' = Iterator(deque, deque.begin) /\ op' = <<"point", 0>> /\ UNCHANGED deque
  \/ it' = Iterator(deque, deque.end) /\ op' = <<"point", 1>> /\ UNCHANGED deque
  \/ /\ it # None
     /\ \/ /\ CheckValidIndex(deque, it.index) /\ it.index # it.end
           /\ Walk(<<"step", 1>>, Increment(it))
        \/ /\ CheckValidIndexOrEnd(deque, it.index) /\ it.index # it.begin
           /\ Walk(<<"step", -1>>, Decrement(it))
        \/ \E delta \in (-Offset(it))..(SizeThen(it) - Offset(it)) :
             /\ IF delta > 0 THEN CheckValidIndex(deque, it.index)
                ELSE CheckValidIndexOrEnd(deque, it.index)
             /\ Walk(<<"step", delta>>, IF delta = 0 THEN it.index ELSE Add(it, delta))

Return == op # None /\ op' = None /\ UNCHANGED <<deque, it>>
DequeNext == (op = None /\ (Whole \/ AtIterator \/ Iterate)) \/ Return
DequeSpec == DequeInit /\ [][DequeNext]_dequeVars

-----------------------------------------------------------------------------
\* The deque is the sequence of its elements, through every reallocation and
\* however the ring is wrapped, and a usable iterator stays at its position.
Sequence == INSTANCE Deque WITH
  s <- Contents(deque),
  cursor <- IF it = None THEN None ELSE OffsetFromBegin(deque, it.index)
ImplementsSequence == Sequence!Spec

\* The slots that hold an element are those from begin_ to end_, and no element
\* was overwritten or destroyed twice on the way: none leaks.
SlotsExact ==
  /\ ~deque.ub
  /\ {i \in DOMAIN deque.buf : deque.buf[i] # Raw} = ToSet(Slots(deque, deque.begin, deque.end))

\* An iterator whose use passes CheckUnstableUsage points into the buffer of the
\* deque, and what it cached of the deque is what the deque has (the comment on
\* generation_: it is incremented for all that could invalidate iterators).
IteratorsAreSound ==
  it # None =>
    /\ ~it.freed
    /\ it.cap = Cap(deque) /\ it.begin = deque.begin /\ it.end = deque.end
    /\ CheckValidIndexOrEnd(deque, it.index)
=============================================================================
