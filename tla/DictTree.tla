------------------------------- MODULE DictTree -------------------------------
(***************************************************************************)
(* What dictionaries of Values promise: each is a tree, a function from    *)
(* the paths of keys that lead to a value to what is there.  The empty     *)
(* path leads to the dictionary itself.                                    *)
(***************************************************************************)
EXTENDS Integers, Functions, SequencesExt

CONSTANTS
  Roots, \* the dictionaries that the program has as variables
  Leaves

Dict == "dict"
Leaf(v) == [p \in {<<>>} |-> v]
EmptyDict == Leaf(Dict)

VARIABLE tree

-----------------------------------------------------------------------------
Below(t, x) == {p \in DOMAIN t : IsPrefix(x, p)}
Subtree(t, x) == [q \in {SubSeq(p, Len(x) + 1, Len(p)) : p \in Below(t, x)} |-> t[x \o q]]
Pruned(t, paths) == Restrict(t, DOMAIN t \ paths)

\* t with u at x, and a dictionary at each path on the way to x.
Graft(t, x, u) ==
  [p \in (DOMAIN t \ Below(t, x)) \cup {x \o q : q \in DOMAIN u} \cup
         {SubSeq(x, 1, n) : n \in 0..(Len(x) - 1)} |->
     IF IsPrefix(x, p) THEN u[SubSeq(p, Len(x) + 1, Len(p))]
     ELSE IF p \in DOMAIN t THEN t[p] ELSE Dict]

\* Whether a value that is not a dictionary is on the way to x.
Blocked(t, x) == \E p \in DOMAIN t : IsStrictPrefix(p, x) /\ t[p] # Dict

\* t with the entries of u, which are merged with those of t where both are
\* dictionaries and take the place of them elsewhere.
Merged(t, u) ==
  LET kept == {p \in DOMAIN t : \A q \in DOMAIN u : IsPrefix(q, p) => t[q] = Dict /\ u[q] = Dict}
  IN [p \in kept \cup DOMAIN u |-> IF p \in DOMAIN u THEN u[p] ELSE t[p]]

\* The dictionaries between b and x that have nothing else than what leads to x.
Emptied(t, b, x) ==
  {p \in DOMAIN t : /\ IsStrictPrefix(b, p) /\ IsStrictPrefix(p, x)
                    /\ \A q \in Below(t, p) : IsPrefix(q, x) \/ IsPrefix(x, q)}

DictsOf(t) == {p \in DOMAIN t : t[p] = Dict}

-----------------------------------------------------------------------------
(* The operations are relations between the trees before, t, and after, u.  *)

\* What is assigned is a leaf, a new dictionary, or another one, which is then
\* empty.  Nothing is assigned if a value is in the way, and what was to be moved
\* is lost.
SetPath(t, u, r, x, v) ==
  ~Blocked(t[r], x) /\ u = [t EXCEPT ![r] = Graft(@, x, v)]
SetTree(t, u, r, x, s) ==
  /\ s # r /\ ~Blocked(t[r], x)
  /\ u = [t EXCEPT ![r] = Graft(@, x, t[s]), ![s] = EmptyDict]
LoseTree(t, u, r, s) ==
  /\ s # r /\ DictsOf(t[r]) # DOMAIN t[r]
  /\ u = [t EXCEPT ![s] = EmptyDict]
RemovePath(t, u, r, b, x) ==
  /\ x \in DOMAIN t[r]
  /\ u = [t EXCEPT ![r] = Pruned(@, Below(@, x) \cup Emptied(@, b, x))]
Extract(t, u, r, b, x, s) ==
  /\ x \in DictsOf(t[r])
  /\ u = [t EXCEPT ![r] = Pruned(@, Below(@, x) \cup Emptied(@, b, x)),
                   ![s] = Subtree(t[r], x)]
Merge(t, u, r, b, s) ==
  /\ s # r
  /\ u = [t EXCEPT ![r] = Graft(@, b, Merged(Subtree(@, b), t[s])), ![s] = EmptyDict]
Clone(t, u, r, b, s) == u = [t EXCEPT ![s] = Subtree(t[r], b)]
Clear(t, u, r, b) == u = [t EXCEPT ![r] = Graft(@, b, EmptyDict)]

Step(t, u) ==
  \E r \in Roots :
    \/ \E x \in DOMAIN u[r] \ {<<>>} :
         \/ \E v \in {Leaf(l) : l \in Leaves} \cup {EmptyDict} : SetPath(t, u, r, x, v)
         \/ \E s \in Roots : SetTree(t, u, r, x, s)
    \/ \E s \in Roots : LoseTree(t, u, r, s)
    \/ \E b \in DictsOf(t[r]) :
         \/ \E x \in Below(t[r], b) \ {b} :
              RemovePath(t, u, r, b, x) \/ \E s \in Roots : Extract(t, u, r, b, x, s)
         \/ \E s \in Roots : Merge(t, u, r, b, s) \/ Clone(t, u, r, b, s)
         \/ Clear(t, u, r, b)

Init == tree = [r \in Roots |-> EmptyDict]
\* Each of the two is evaluated once.
Next == \E t \in {tree}, u \in {tree'} : Step(t, u)
Spec == Init /\ [][Next]_tree
=============================================================================
