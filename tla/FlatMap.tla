------------------------------- MODULE FlatMap -------------------------------
(***************************************************************************)
(* base::internal::flat_tree and base::flat_map: a vector of <<key,        *)
(* value>> elements, sorted by key, without two equal keys.  A position is *)
(* an index into it, end() is one past the last.  flat_set is the same     *)
(* tree with elements that are their own keys.                             *)
(***************************************************************************)
EXTENDS Elements, Integers, FiniteSets, SequencesExt, FiniteSetsExt

CONSTANTS
  Keys,   \* of the map, in their order
  Default \* mapped_type()

ASSUME FlatMapAssumption == Keys \subseteq Nat /\ None \notin Keys /\ Default \in Values

VARIABLES
  body,   \* body_
  called, \* the operation that was performed, until it returns
  ret     \* what it returns: an element for an iterator, and a flag or a number

mapVars == <<body, called, ret>>

-----------------------------------------------------------------------------
(* The standard algorithms that flat_tree uses, on sorted sequences.       *)

End(b) == Len(b) + 1
\* std::lower_bound and std::upper_bound among the first n elements.
LowerIn(b, n, k) == Min({i \in 1..n : b[i][1] >= k} \cup {n + 1})
UpperIn(b, n, k) == Min({i \in 1..n : b[i][1] > k} \cup {n + 1})
\* std::stable_sort, by insertion; std::inplace_merge of [first, mid) with the
\* rest, whose elements go behind equal ones.
Sorted(s, x) == InsertAt(s, UpperIn(s, Len(s), x[1]), x)
Merged(s, xs) == FoldLeft(Sorted, s, xs)
StableSort(s) == Merged(<<>>, s)
InplaceMerge(b, first, mid) ==
  SubSeq(b, 1, first - 1) \o Merged(SubSeq(b, first, mid - 1), SubSeq(b, mid, Len(b)))
\* std::unique keeps an element that is greater than the one kept before.
KeepGreater(kept, x) ==
  IF kept # <<>> /\ ~(Last(kept)[1] < x[1]) THEN kept ELSE Append(kept, x)
Unique(s) == FoldLeft(KeepGreater, <<>>, s)
\* std::erase_if, of the elements with the value v.
WithoutValue(s, v) ==
  FoldLeft(LAMBDA kept, x : IF x[2] = v THEN kept ELSE Append(kept, x), <<>>, s)

-----------------------------------------------------------------------------
lower_bound(b, k) == LowerIn(b, Len(b), k)
upper_bound(b, k) == UpperIn(b, Len(b), k)
equal_range(b, k) ==
  LET lower == lower_bound(b, k)
  IN IF lower = End(b) \/ k < b[lower][1] THEN <<lower, lower>> ELSE <<lower, lower + 1>>
find(b, k) ==
  LET range == equal_range(b, k) IN IF range[1] = range[2] THEN End(b) ELSE range[1]
contains(b, k) ==
  LET lower == lower_bound(b, k) IN lower # End(b) /\ ~(k < b[lower][1])

\* From position first on, up to the end: the rest of the body is left alone.
SortAndUnique(b, first) ==
  SubSeq(b, 1, first - 1) \o Unique(StableSort(SubSeq(b, first, Len(b))))

EraseRange(b, i, j) == SubSeq(b, 1, i - 1) \o SubSeq(b, j, Len(b))

\* The body after an insertion, where the element is, and whether it is new.
Placed(b, i, inserted) == [body |-> b, at |-> i, inserted |-> inserted]

emplace_key_args(b, e) ==
  LET lower == lower_bound(b, e[1])
  IN IF lower = End(b) \/ e[1] < b[lower][1]
     THEN Placed(InsertAt(b, lower, e), lower, TRUE)
     ELSE Placed(b, lower, FALSE)

\* A hint is good when the key belongs right before it.
FollowsMutant(b, hint, k) == hint = 1 \/ ~(k < b[hint - 1][1])
Follows(b, hint, k) == hint = 1 \/ b[hint - 1][1] < k
emplace_hint_key_args(b, hint, e) ==
  IF Follows(b, hint, e[1]) /\ (hint = End(b) \/ e[1] < b[hint][1])
  THEN Placed(InsertAt(b, hint, e), hint, TRUE)
  ELSE IF Follows(b, hint, e[1]) /\ ~(b[hint][1] < e[1])
  THEN Placed(b, hint, FALSE)
  ELSE emplace_key_args(b, e)

\* insert(first, last): new elements are appended, and pos is the first position
\* that one of them belongs to; then they are sorted and merged in.
FirstNew(pos, at) == Min({pos, at})
append_unique(size, acc, e) ==
  LET at == LowerIn(acc.body, size, e[1])
  IN IF at = size + 1 \/ e[1] < acc.body[at][1]
     THEN [body |-> Append(acc.body, e), pos |-> FirstNew(acc.pos, at)]
     ELSE acc
Grown(b, es) ==
  FoldLeft(LAMBDA acc, e : append_unique(Len(b), acc, e), [body |-> b, pos |-> End(b)], es)
InsertMany(b, es) ==
  IF es = <<>> THEN b
  ELSE IF Len(es) = 1 THEN emplace_hint_key_args(b, End(b), es[1]).body
  ELSE LET grown == Grown(b, es)
       IN InplaceMerge(SortAndUnique(grown.body, End(b)), grown.pos, End(b))

insert_or_assign(p, e) ==
  IF p.inserted THEN p ELSE [p EXCEPT !.body[p.at][2] = e[2]]

\* operator[]: the body with the key in it.
Found(b, k) ==
  LET at == lower_bound(b, k)
  IN IF at = End(b) \/ k < b[at][1] THEN InsertAt(b, at, <<k, Default>>) ELSE b

-----------------------------------------------------------------------------
Does(what, b, r) == called' = what /\ body' = b /\ ret' = r
Reads(what, r) == Does(what, body, r)
Element(i) == IF i = End(body) THEN None ELSE body[i]
Inserts(what, p) == Does(what, p.body, <<p.body[p.at], p.inserted>>)

MapInit == body = <<>> /\ called = None /\ ret = None
MapReturn == called # None /\ called' = None /\ ret' = None /\ UNCHANGED body

\* insert, emplace and try_emplace, insert_or_assign, all also with a hint.
InsertOne(e) ==
  \E hint \in 0..End(body) :
    LET p == IF hint = 0 THEN emplace_key_args(body, e)
             ELSE emplace_hint_key_args(body, hint, e)
    IN \/ Inserts(<<"insert", e>>, p)
       \/ Inserts(<<"insert_or_assign", e>>, insert_or_assign(p, e))

Subscript(k, v) ==
  LET b == Found(body, k)
      at == lower_bound(b, k)
  IN Does(<<"[]", k, v>>, [b EXCEPT ![at][2] = v], b[at][2])

\* The constructors from a range or a container, operator= of a list; and
\* replace and the sorted_unique constructors, which require a sorted body.
Assign(es) ==
  /\ \/ body' = SortAndUnique(es, 1)
     \/ /\ \A i \in 1..(Len(es) - 1) : es[i][1] < es[i + 1][1]
        /\ body' = es
  /\ called' = <<"=", es>> /\ ret' = None

EraseKey(k) ==
  LET range == equal_range(body, k)
  IN Does(<<"erase", k>>, EraseRange(body, range[1], range[2]), range[2] - range[1])

\* erase(first, last), and erase(position) as the range of one; an iterator to
\* what comes next is returned.
ErasePositions(i, j) ==
  Does(<<"erase_range", {body[x][1] : x \in i..(j - 1)}>>, EraseRange(body, i, j), Element(j))

EraseIf(v) ==
  LET kept == WithoutValue(body, v)
  IN Does(<<"EraseIf", v>>, kept, Len(body) - Len(kept))

Lookup(k) ==
  \/ Reads(<<"find", k>>, Element(find(body, k)))
  \/ Reads(<<"contains", k>>, contains(body, k))
  \/ Reads(<<"lower_bound", k>>, Element(lower_bound(body, k)))
  \/ Reads(<<"upper_bound", k>>, Element(upper_bound(body, k)))

Performs ==
  \/ \E e \in Keys \X Values : InsertOne(e) \/ Subscript(e[1], e[2])
  \/ \E es \in SeqOf(Keys \X Values, MaxRange) :
       Assign(es) \/ Does(<<"insert_range", es>>, InsertMany(body, es), None)
  \/ \E k \in Keys : EraseKey(k) \/ Lookup(k)
  \/ \E i \in 1..End(body) : \E j \in i..End(body) : ErasePositions(i, j)
  \/ \E v \in Values : EraseIf(v)

MapNext == (called = None /\ Performs) \/ MapReturn
MapSpec == MapInit /\ [][MapNext]_mapVars

-----------------------------------------------------------------------------
\* The tree is the map of its elements: of equal keys the first one stays,
\* hints and the batch insertion change nothing but the time it takes, and what
\* is returned points to the element it should.
AsMap == [k \in {body[i][1] : i \in DOMAIN body} |->
            (CHOOSE e \in ToSet(body) : e[1] = k)[2]]
Map == INSTANCE KeyMap WITH m <- AsMap, op <- called
ImplementsMap == Map!Spec
=============================================================================
