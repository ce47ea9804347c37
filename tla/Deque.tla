------------------------------- MODULE Deque -------------------------------
(***************************************************************************)
(* What base::circular_deque promises, without its buffer: a sequence, and *)
(* an iterator that is a position in it until the sequence is modified.    *)
(* op is the operation that was performed, until it returns.               *)
(***************************************************************************)
EXTENDS Elements, Integers, Sequences, SequencesExt

CONSTANT MaxSize

VARIABLES s, cursor, op
vars == <<s, cursor, op>>

Ranges == SeqOf(Values, MaxRange)
Copies(n, x) == [i \in 1..n |-> x]
Take(n) == SubSeq(s, 1, n)
Drop(n) == SubSeq(s, n + 1, Len(s))

Init == s = <<>> /\ cursor = None /\ op = None

\* An operation is called, and returns before the next one is.
Does(what) == op' = what
Return == op # None /\ op' = None /\ UNCHANGED <<s, cursor>>
Modify(t) == s' = t /\ cursor' = None
ModifyAt(t, i) == s' = t /\ cursor' = i

PushBack(x) == Does(<<"push_back", x>>) /\ Modify(Append(s, x))
PushFront(x) == Does(<<"push_front", x>>) /\ Modify(<<x>> \o s)
PopBack == Does(<<"pop_back">>) /\ s # <<>> /\ Modify(Front(s))
PopFront == Does(<<"pop_front">>) /\ s # <<>> /\ Modify(Tail(s))
Resize(n, x) ==
  /\ Does(<<"resize", n, x>>)
  /\ Modify(IF n <= Len(s) THEN Take(n) ELSE s \o Copies(n - Len(s), x))
Assign(xs) == Does(<<"assign", xs>>) /\ Modify(xs)
EraseValue(x) == Does(<<"Erase", x>>) /\ Modify(Without(s, x))
Clear == Does(<<"clear">>) /\ Modify(<<>>)
\* Where elements are stored changes, not what they are.
Reallocate == Does(<<"reallocate">>) /\ Modify(s)

\* Inserting nothing may leave the iterator as it is.
Insert(xs) ==
  /\ cursor # None
  /\ Does(<<"insert", xs>>)
  /\ \/ Modify(Take(cursor) \o xs \o Drop(cursor))
     \/ xs = <<>> /\ UNCHANGED <<s, cursor>>
Emplace(x) ==
  /\ cursor # None
  /\ Does(<<"emplace", x>>) /\ ModifyAt(Take(cursor) \o <<x>> \o Drop(cursor), cursor)
Erase(n) ==
  /\ cursor # None /\ cursor + n <= Len(s)
  /\ Does(<<"erase", n>>) /\ ModifyAt(Take(cursor) \o Drop(cursor + n), cursor)

\* begin(), end(), and iterators moved from where they are.
Point(i) == Does(<<"point", i>>) /\ UNCHANGED s /\ cursor' = IF i = 0 THEN 0 ELSE Len(s)
Step(k) ==
  /\ cursor # None /\ cursor + k \in 0..Len(s)
  /\ Does(<<"step", k>>) /\ UNCHANGED s /\ cursor' = cursor + k

Next ==
  \/ Return
  \/ /\ op = None
     /\ \/ \E x \in Values : PushBack(x) \/ PushFront(x) \/ Emplace(x) \/ EraseValue(x)
        \/ PopBack \/ PopFront \/ Clear \/ Reallocate
        \/ \E n \in 0..MaxSize, x \in Values : Resize(n, x)
        \/ \E xs \in Ranges : Assign(xs) \/ Insert(xs)
        \/ \E n \in 0..MaxSize : Erase(n)
        \/ \E i \in 0..1 : Point(i)
        \/ \E k \in -MaxSize..MaxSize : Step(k)

Spec == Init /\ [][Next]_vars
=============================================================================
