------------------------------- MODULE KeyMap -------------------------------
(***************************************************************************)
(* What base::flat_map promises, without its vector: a function from keys  *)
(* to values.  op is the operation that was performed, until it returns;   *)
(* ret is what it returns: an element or None for end(), and a flag or a   *)
(* number.                                                                 *)
(***************************************************************************)
EXTENDS Integers, Sequences, SequencesExt, FiniteSetsExt

CONSTANTS Keys, Values, Default, None, MaxRange

VARIABLES m, op, ret
vars == <<m, op, ret>>

Ranges == SeqOf(Keys \X Values, MaxRange)
Init == m = <<>> /\ op = None /\ ret = None

Set(f, k, v) == [x \in DOMAIN f \cup {k} |-> IF x = k THEN v ELSE f[x]]
\* The first of two elements with equal keys is the one that stays.
Add(f, e) == IF e[1] \in DOMAIN f THEN f ELSE Set(f, e[1], e[2])
AddAll(f, es) == FoldLeft(Add, f, es)
Without(keys) == [x \in DOMAIN m \ keys |-> m[x]]

Element(k) == <<k, m[k]>>
First(keys) == IF keys = {} THEN None ELSE Element(Min(keys))

\* An operation is called, and returns before the next one is.
Does(what, f, r) == op' = what /\ m' = f /\ ret' = r
Reads(what, r) == Does(what, m, r)
Return == op # None /\ op' = None /\ ret' = None /\ UNCHANGED m

Insert(e) ==
  Does(<<"insert", e>>, Add(m, e), <<<<e[1], Add(m, e)[e[1]]>>, e[1] \notin DOMAIN m>>)
InsertRange(es) == Does(<<"insert_range", es>>, AddAll(m, es), None)
InsertOrAssign(e) ==
  Does(<<"insert_or_assign", e>>, Set(m, e[1], e[2]), <<e, e[1] \notin DOMAIN m>>)
\* map[k] = v; returns what a reader of map[k] would have seen.
Subscript(k, v) ==
  Does(<<"[]", k, v>>, Set(m, k, v), IF k \in DOMAIN m THEN m[k] ELSE Default)
Assign(es) == Does(<<"=", es>>, AddAll(<<>>, es), None)
EraseKey(k) == Does(<<"erase", k>>, Without({k}), IF k \in DOMAIN m THEN 1 ELSE 0)
EraseKeys(keys) ==
  /\ keys \subseteq DOMAIN m
  /\ \A x, y \in keys : \A k \in DOMAIN m : x < k /\ k < y => k \in keys
  /\ keys # {} => Does(<<"erase_range", keys>>, Without(keys),
                       First({k \in DOMAIN m : \A x \in keys : k > x}))
  /\ keys = {} => \E k \in DOMAIN m \cup {None} :
                    Does(<<"erase_range", keys>>, m, IF k = None THEN None ELSE Element(k))
EraseIf(v) ==
  LET keys == {k \in DOMAIN m : m[k] = v}
  IN Does(<<"EraseIf", v>>, Without(keys), Cardinality(keys))
Find(k) == Reads(<<"find", k>>, IF k \in DOMAIN m THEN Element(k) ELSE None)
HasKey(k) == Reads(<<"contains", k>>, k \in DOMAIN m)
LowerBound(k) == Reads(<<"lower_bound", k>>, First({x \in DOMAIN m : x >= k}))
UpperBound(k) == Reads(<<"upper_bound", k>>, First({x \in DOMAIN m : x > k}))

Call ==
  \/ \E k \in Keys : Find(k) \/ HasKey(k) \/ LowerBound(k) \/ UpperBound(k) \/ EraseKey(k)
  \/ \E e \in Keys \X Values : Insert(e) \/ InsertOrAssign(e) \/ Subscript(e[1], e[2])
  \/ \E es \in Ranges : InsertRange(es) \/ Assign(es)
  \/ \E keys \in SUBSET Keys : EraseKeys(keys)
  \/ \E v \in Values : EraseIf(v)

\* A call that changes nothing is a stutter.
Next == Return \/ (op = None /\ ~UNCHANGED vars /\ Call)

Spec == Init /\ [][Next]_vars
=============================================================================
