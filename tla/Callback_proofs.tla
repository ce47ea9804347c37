--------------------------- MODULE Callback_proofs ---------------------------
(***************************************************************************)
(* What every bind state has, is where it is referred to from.  The        *)
(* invariant is therefore about places: a variable, a member of a bind     *)
(* state, or a scoped_refptr in a frame of a call stack, each with what it *)
(* refers to.  A step of the code moves a reference from place to place.   *)
(***************************************************************************)
EXTENDS Callback, TLAPS

Levels == Nat

\* The frame at a level of a stack, and how deep the stack is.
NoFrame == [at |-> "none", bs |-> Null, hold |-> Null, a |-> Null, b |-> Null]
Depth(t) == Len(frames[t])
Fr(t, i) == IF i \in 1 .. Depth(t) THEN frames[t][i] ELSE NoFrame

VarPlace(v) == <<"var", v>>
MemberPlace(o, k) == <<k, o>>
FramePlace(t, i, k) == <<"frame", t, i, k>>
AllPlaces ==
  {VarPlace(v) : v \in Vars}
  \cup {MemberPlace(o, k) : o \in BindStates, k \in {"first", "second"}}
  \cup {FramePlace(t, i, k) : t \in Threads, i \in Levels, k \in {"hold", "a", "b"}}

\* What a place refers to; a and b of a frame may be variables as well.
Referred(x) == IF x \in BindStates THEN x ELSE Null
Content(p) ==
  IF p[1] = "var" THEN var[p[2]]
  ELSE IF p[1] = "frame" THEN Referred(Fr(p[2], p[3])[p[4]])
  ELSE bind[p[2]][p[1]]

-----------------------------------------------------------------------------
\* The members that a frame has at each point of a call.
Shape(f) ==
  /\ f.at \in {"invoke", "winner"} => f.bs \in BindStates /\ f.hold = f.bs /\ f.a = Null /\ f.b = Null
  /\ f.at \in {"body", "return"} =>
       f.bs \in BindStates /\ f.hold = f.bs /\ f.a \in OrNull(BindStates) /\ f.b = Null
  /\ f.at = "c1" =>
       f.bs \in BindStates /\ f.hold = f.bs /\ f.a \in OrNull(BindStates) /\ f.b \in BindStates
  /\ f.at = "c2" => f.bs \in BindStates /\ f.hold = f.bs /\ f.a = Null /\ f.b \in BindStates
  /\ f.at = "release" => f.a = Null /\ f.b = Null
  /\ f.at = "destroy" => f.bs \in BindStates /\ f.hold = Null /\ f.a = Null /\ f.b = Null
  /\ f.at = "take" => f.hold = Null /\ f.a \in Runners /\ f.b \in Runners /\ f.a # f.b
Shapes == \A t \in Threads, i \in Levels : Shape(Fr(t, i))

DestroyedIsDying ==
  \A t \in Threads, i \in Levels :
    Fr(t, i).at = "destroy" => bind[Fr(t, i).bs].life \in {"dying", "dead"}

\* What the ways to make a bind state have in common.
MadeOf(r) ==
  /\ r.life = "none" => r.fun = "user" /\ r.first = Null /\ r.second = Null
  /\ r.fun \in {"user", "weak"} => r.first = Null
  /\ r.fun # "then" => r.second = Null
  /\ r.fun = "runner" => r.once
  /\ r.fun = "split" => ~r.once
AsMade == \A o \in BindStates : MadeOf(bind[o]) /\ (bind[o].life = "none" => runs[o] = 0)

\* What can be copied holds nothing that cannot.
IsOnce(o) == o \in BindStates /\ bind[o].once
CopiesAreRepeating ==
  /\ \A v \in RepeatingVars : ~IsOnce(var[v])
  /\ \A o \in BindStates :
       ~bind[o].once /\ bind[o].fun # "split" => ~IsOnce(bind[o].first) /\ ~IsOnce(bind[o].second)

\* A bind state made by BindOnce is referred to from one place.
OnePlace ==
  \A p, q \in AllPlaces : Content(p) = Content(q) /\ IsOnce(Content(p)) => p = q

Held(o) == \E p \in AllPlaces : Content(p) = o
LiveIsHeld == \A o \in BindStates : bind[o].life = "live" <=> Held(o)

\* The places from which the functor may still be called.
MayRun(p) == p[1] = "frame" /\ p[4] = "hold" => Fr(p[2], p[3]).at = "invoke"
Intact(o) ==
  /\ bind[o].fun = "callback" => bind[o].first # Null
  /\ bind[o].fun = "then" => bind[o].second # Null
Unspent(o) == (bind[o].once => runs[o] = 0) /\ Intact(o)
SpentOnlyOnce ==
  \A p \in AllPlaces : Content(p) \in BindStates /\ MayRun(p) => Unspent(Content(p))

\* One half of a split callback wins, and the original is there until it runs.
Winner(t, i) == Fr(t, i).at = "winner"
HasOriginal(o) == bind[o].fun = "split" /\ bind[o].first # Null
WinnersRun ==
  /\ \A t \in Threads, i \in Levels :
       Winner(t, i) => HasOriginal(Fr(t, i).bs) /\ bind[Fr(t, i).bs].has_run
  /\ \A t, u \in Threads : \A i, j \in Levels :
       Winner(t, i) /\ Winner(u, j) /\ Fr(t, i).bs = Fr(u, j).bs => t = u /\ i = j
OriginalsWait ==
  \A o \in BindStates :
    bind[o].fun = "split" /\ bind[o].life = "live" /\ ~bind[o].has_run => bind[o].first # Null

\* The places from which a closure given to a runner is going to be called.
WillRun(p) ==
  \/ p[1] = "var" /\ p[2] \in Runners
  \/ p[1] = "first" /\ bind[p[2]].fun = "runner"
  \/ /\ p[1] = "frame"
     /\ \/ p[4] = "hold" /\ Fr(p[2], p[3]).at = "invoke"
        \/ p[4] = "a" /\ Fr(p[2], p[3]).at \in {"body", "return"}
ScopedAreAhead ==
  \A o \in scoped :
    /\ bind[o].life # "none"
    /\ bind[o].fun = "user" /\ runs[o] = 0 => \E p \in AllPlaces : Content(p) = o /\ WillRun(p)

CancelledAreInvalid ==
  \A o \in cancelled : bind[o].life # "none" /\ bind[o].fun = "weak" /\ ~valid

OriginalThere == crash # "null original"

IInv ==
  /\ TypeOK /\ Shapes /\ DestroyedIsDying /\ AsMade /\ CopiesAreRepeating
  /\ OnePlace /\ LiveIsHeld /\ SpentOnlyOnce /\ RunsOnce
  /\ WinnersRun /\ OriginalsWait /\ ScopedAreAhead /\ CancelledAreInvalid /\ OriginalThere

-----------------------------------------------------------------------------
(* Places                                                                  *)

\* Places of different kinds, owners or levels are different.
LEMMA PlacesAreDistinct ==
  /\ \A v, w \in Vars : VarPlace(v) = VarPlace(w) => v = w
  /\ \A o, p \in BindStates : \A k, l \in {"first", "second"} :
       MemberPlace(o, k) = MemberPlace(p, l) => o = p /\ k = l
  /\ \A t, u \in Threads : \A i, j \in Levels : \A k, l \in {"hold", "a", "b"} :
       FramePlace(t, i, k) = FramePlace(u, j, l) => t = u /\ i = j /\ k = l
  /\ \A v \in Vars, o \in BindStates, k \in {"first", "second"} : VarPlace(v) # MemberPlace(o, k)
  /\ \A v \in Vars, t \in Threads, i \in Levels, k \in {"hold", "a", "b"} :
       VarPlace(v) # FramePlace(t, i, k)
  /\ \A o \in BindStates, l \in {"first", "second"}, t \in Threads, i \in Levels,
        k \in {"hold", "a", "b"} : MemberPlace(o, l) # FramePlace(t, i, k)
BY DEF VarPlace, MemberPlace, FramePlace

\* Every place is one of the three kinds.
LEMMA PlaceKinds ==
  /\ \A v \in Vars : VarPlace(v) \in AllPlaces
  /\ \A o \in BindStates, k \in {"first", "second"} : MemberPlace(o, k) \in AllPlaces
  /\ \A t \in Threads, i \in Levels, k \in {"hold", "a", "b"} : FramePlace(t, i, k) \in AllPlaces
  /\ \A p \in AllPlaces :
       \/ \E v \in Vars : p = VarPlace(v)
       \/ \E o \in BindStates, k \in {"first", "second"} : p = MemberPlace(o, k)
       \/ \E t \in Threads, i \in Levels, k \in {"hold", "a", "b"} : p = FramePlace(t, i, k)
BY DEF AllPlaces

\* What each kind of place refers to.
LEMMA ContentOf ==
  /\ \A v \in Vars : Content(VarPlace(v)) = var[v]
  /\ \A o \in BindStates, k \in {"first", "second"} : Content(MemberPlace(o, k)) = bind[o][k]
  /\ \A t \in Threads, i \in Levels, k \in {"hold", "a", "b"} :
       Content(FramePlace(t, i, k)) = Referred(Fr(t, i)[k])
BY DEF Content, VarPlace, MemberPlace, FramePlace

\* The same after a step.
LEMMA NextContentOf ==
  /\ \A v \in Vars : Content(VarPlace(v))' = var'[v]
  /\ \A o \in BindStates, k \in {"first", "second"} : Content(MemberPlace(o, k))' = bind'[o][k]
  /\ \A t \in Threads, i \in Levels, k \in {"hold", "a", "b"} :
       Content(FramePlace(t, i, k))' = Referred(Fr(t, i)'[k])
BY DEF Content, VarPlace, MemberPlace, FramePlace

\* Which places of each kind may, and will, lead to a call.
LEMMA RunsFrom ==
  /\ \A v \in Vars : MayRun(VarPlace(v)) /\ (WillRun(VarPlace(v)) <=> v \in Runners)
  /\ \A o \in BindStates, k \in {"first", "second"} :
       /\ MayRun(MemberPlace(o, k))
       /\ WillRun(MemberPlace(o, k)) <=> k = "first" /\ bind[o].fun = "runner"
  /\ \A t \in Threads, i \in Levels, k \in {"hold", "a", "b"} :
       /\ MayRun(FramePlace(t, i, k)) <=> (k = "hold" => Fr(t, i).at = "invoke")
       /\ WillRun(FramePlace(t, i, k)) <=>
            \/ k = "hold" /\ Fr(t, i).at = "invoke"
            \/ k = "a" /\ Fr(t, i).at \in {"body", "return"}
BY DEF MayRun, WillRun, VarPlace, MemberPlace, FramePlace

\* The same after a step.
LEMMA NextRunsFrom ==
  /\ \A v \in Vars : MayRun(VarPlace(v))' /\ (WillRun(VarPlace(v))' <=> v \in Runners)
  /\ \A o \in BindStates, k \in {"first", "second"} :
       /\ MayRun(MemberPlace(o, k))'
       /\ WillRun(MemberPlace(o, k))' <=> k = "first" /\ bind'[o].fun = "runner"
  /\ \A t \in Threads, i \in Levels, k \in {"hold", "a", "b"} :
       /\ MayRun(FramePlace(t, i, k))' <=> (k = "hold" => Fr(t, i)'.at = "invoke")
       /\ WillRun(FramePlace(t, i, k))' <=>
            \/ k = "hold" /\ Fr(t, i)'.at = "invoke"
            \/ k = "a" /\ Fr(t, i)'.at \in {"body", "return"}
BY DEF MayRun, WillRun, VarPlace, MemberPlace, FramePlace

-----------------------------------------------------------------------------
(* Stacks                                                                  *)

AnyFrame == FrameType \cup {NoFrame}

\* The frames after a step: f and g are the ones of t at level n and above.
Changed(t, n, f, g) ==
  \A u \in Threads, i \in Levels :
    Fr(u, i)' = IF u = t /\ i = n THEN f ELSE IF u = t /\ i = n + 1 THEN g ELSE Fr(u, i)

\* The frames of a typed stack.
LEMMA FrameTyped ==
  ASSUME TypeOK, NEW t \in Threads
  PROVE  /\ Depth(t) \in Nat
         /\ \A i \in Levels : Fr(t, i) \in AnyFrame
         /\ \A i \in 1 .. Depth(t) : Fr(t, i) \in FrameType
         /\ \A i \in Levels : i \notin 1 .. Depth(t) => Fr(t, i) = NoFrame
         /\ frames[t] # <<>> => Depth(t) \in 1 .. Depth(t) /\ Top(t) = Fr(t, Depth(t))
         /\ frames[t] = <<>> <=> Depth(t) = 0
<1>1. frames[t] \in Seq(FrameType)
  BY DEF TypeOK
<1>2. Depth(t) \in Nat /\ (frames[t] = <<>> <=> Depth(t) = 0)
  BY <1>1 DEF Depth
<1>3. \A i \in 1 .. Depth(t) : Fr(t, i) \in FrameType
  BY <1>1 DEF Fr, Depth
<1>4. \A i \in Levels : i \notin 1 .. Depth(t) => Fr(t, i) = NoFrame
  BY DEF Fr
<1>5. frames[t] # <<>> => Depth(t) \in 1 .. Depth(t) /\ Top(t) = Fr(t, Depth(t))
  BY <1>1, <1>2 DEF Top, Last, Fr, Depth
<1> QED BY <1>2, <1>3, <1>4, <1>5 DEF AnyFrame

\* The stacks after a step, given the one of t.
LEMMA StackChanged ==
  ASSUME TypeOK, NEW t \in Threads, NEW s \in Seq(FrameType),
         frames' = [frames EXCEPT ![t] = s]
  PROVE  /\ frames' \in [Threads -> Seq(FrameType)]
         /\ Depth(t)' = Len(s)
         /\ \A i \in Levels : Fr(t, i)' = IF i \in 1 .. Len(s) THEN s[i] ELSE NoFrame
         /\ \A u \in Threads, i \in Levels : u # t => Fr(u, i)' = Fr(u, i)
<1>1. frames \in [Threads -> Seq(FrameType)]
  BY DEF TypeOK
<1>2. frames'[t] = s /\ \A u \in Threads : u # t => frames'[u] = frames[u]
  BY <1>1
<1> QED BY <1>1, <1>2 DEF Fr, Depth

\* A stack without its topmost frame.
LEMMA WithoutLast ==
  ASSUME NEW S, NEW s \in Seq(S), Len(s) \in Nat \ {0}
  PROVE  /\ Front(s) \in Seq(S) /\ Len(Front(s)) = Len(s) - 1
         /\ \A i \in 1 .. Len(s) - 1 : Front(s)[i] = s[i]
<1> DEFINE n == Len(s) - 1
           r == SubSeq(s, 1, n)
<1>1. n \in Nat /\ \A i \in 1 .. n : s[i] \in S
  OBVIOUS
<1>2. DOMAIN r = 1 .. n /\ \A i \in 1 .. n : r[i] = s[i]
  BY <1>1
<1>3. r \in Seq(S)
  BY <1>1, <1>2
<1> HIDE DEF r
<1>4. Len(r) = n
  BY <1>1, <1>2, <1>3
<1>5. Front(s) = r
  BY DEF Front, r
<1> QED BY <1>2, <1>3, <1>4, <1>5

\* The frames after each way to change a stack.
LEMMA PushView ==
  ASSUME TypeOK, NEW t \in Threads, NEW f \in FrameType, Push(t, f)
  PROVE  /\ frames' \in [Threads -> Seq(FrameType)] /\ Depth(t) \in Levels
         /\ Changed(t, Depth(t), Fr(t, Depth(t)), f)
<1> DEFINE s == Append(frames[t], f)
<1>1. frames[t] \in Seq(FrameType) /\ Depth(t) \in Nat
  BY FrameTyped DEF TypeOK
<1>2. s \in Seq(FrameType) /\ Len(s) = Depth(t) + 1 /\ s[Depth(t) + 1] = f
      /\ \A i \in 1 .. Depth(t) : s[i] = frames[t][i]
  BY <1>1 DEF Depth
<1>3. frames' = [frames EXCEPT ![t] = s]
  BY DEF Push
<1> HIDE DEF s
<1>4. /\ frames' \in [Threads -> Seq(FrameType)]
      /\ \A i \in Levels : Fr(t, i)' = IF i \in 1 .. Len(s) THEN s[i] ELSE NoFrame
      /\ \A u \in Threads, i \in Levels : u # t => Fr(u, i)' = Fr(u, i)
  BY <1>2, <1>3, StackChanged
<1>5. \A i \in Levels : Fr(t, i)' = IF i = Depth(t) + 1 THEN f ELSE Fr(t, i)
  BY <1>1, <1>2, <1>4 DEF Fr, Levels
<1> QED BY <1>1, <1>4, <1>5 DEF Levels, Changed, Fr

\* The topmost frame is replaced.
LEMMA BecomeView ==
  ASSUME TypeOK, NEW t \in Threads, frames[t] # <<>>, NEW f \in FrameType, Become(t, f)
  PROVE  /\ frames' \in [Threads -> Seq(FrameType)] /\ Depth(t) \in Levels
         /\ Changed(t, Depth(t), f, NoFrame)
<1> DEFINE r == Front(frames[t])
           s == Append(r, f)
<1>1. frames[t] \in Seq(FrameType) /\ Depth(t) \in Nat \ {0}
  BY FrameTyped DEF TypeOK
<1>2. r \in Seq(FrameType) /\ Len(r) = Depth(t) - 1 /\ \A i \in 1 .. Depth(t) - 1 : r[i] = frames[t][i]
  BY <1>1, WithoutLast DEF Depth
<1> HIDE DEF r
<1>3. s \in Seq(FrameType) /\ Len(s) = Depth(t) /\ s[Depth(t)] = f
      /\ \A i \in 1 .. Depth(t) - 1 : s[i] = frames[t][i]
  BY <1>1, <1>2
<1>4. frames' = [frames EXCEPT ![t] = s]
  BY DEF Become, r
<1> HIDE DEF s
<1>5. /\ frames' \in [Threads -> Seq(FrameType)]
      /\ \A i \in Levels : Fr(t, i)' = IF i \in 1 .. Len(s) THEN s[i] ELSE NoFrame
      /\ \A u \in Threads, i \in Levels : u # t => Fr(u, i)' = Fr(u, i)
  BY <1>3, <1>4, StackChanged
<1>6. \A i \in Levels : Fr(t, i)' = IF i = Depth(t) THEN f ELSE Fr(t, i)
  BY <1>1, <1>3, <1>5 DEF Fr, Levels
<1> QED BY <1>1, <1>5, <1>6 DEF Levels, Changed, Fr

\* It is replaced, and another one is on top of it.
LEMMA BecomeAndPushView ==
  ASSUME TypeOK, NEW t \in Threads, frames[t] # <<>>, NEW f \in FrameType, NEW g \in FrameType,
         BecomeAndPush(t, f, g)
  PROVE  /\ frames' \in [Threads -> Seq(FrameType)] /\ Depth(t) \in Levels
         /\ Changed(t, Depth(t), f, g)
<1> DEFINE r == Front(frames[t])
           q == Append(r, f)
           s == q \o <<g>>
<1>1. frames[t] \in Seq(FrameType) /\ Depth(t) \in Nat \ {0}
  BY FrameTyped DEF TypeOK
<1>2. r \in Seq(FrameType) /\ Len(r) = Depth(t) - 1 /\ \A i \in 1 .. Depth(t) - 1 : r[i] = frames[t][i]
  BY <1>1, WithoutLast DEF Depth
<1> HIDE DEF r
<1>3. q \in Seq(FrameType) /\ Len(q) = Depth(t) /\ q[Depth(t)] = f
      /\ \A i \in 1 .. Depth(t) - 1 : q[i] = frames[t][i]
  BY <1>1, <1>2
<1> HIDE DEF q
<1>4. s \in Seq(FrameType) /\ Len(s) = Depth(t) + 1 /\ s[Depth(t)] = f /\ s[Depth(t) + 1] = g
      /\ \A i \in 1 .. Depth(t) - 1 : s[i] = frames[t][i]
  BY <1>1, <1>3
<1>5. frames' = [frames EXCEPT ![t] = s]
  BY DEF BecomeAndPush, q, r
<1> HIDE DEF s
<1>6. /\ frames' \in [Threads -> Seq(FrameType)]
      /\ \A i \in Levels : Fr(t, i)' = IF i \in 1 .. Len(s) THEN s[i] ELSE NoFrame
      /\ \A u \in Threads, i \in Levels : u # t => Fr(u, i)' = Fr(u, i)
  BY <1>4, <1>5, StackChanged
<1>7. \A i \in Levels : Fr(t, i)' = IF i = Depth(t) THEN f
                                    ELSE IF i = Depth(t) + 1 THEN g ELSE Fr(t, i)
  BY <1>1, <1>4, <1>6 DEF Fr, Levels
<1> QED BY <1>1, <1>6, <1>7 DEF Levels, Changed, Fr

\* It is gone.
LEMMA PopView ==
  ASSUME TypeOK, NEW t \in Threads, frames[t] # <<>>, Pop(t)
  PROVE  /\ frames' \in [Threads -> Seq(FrameType)] /\ Depth(t) \in Levels
         /\ Changed(t, Depth(t), NoFrame, NoFrame)
<1> DEFINE s == Front(frames[t])
<1>1. frames[t] \in Seq(FrameType) /\ Depth(t) \in Nat \ {0}
  BY FrameTyped DEF TypeOK
<1>2. s \in Seq(FrameType) /\ Len(s) = Depth(t) - 1 /\ \A i \in 1 .. Depth(t) - 1 : s[i] = frames[t][i]
  BY <1>1, WithoutLast DEF Depth
<1>3. frames' = [frames EXCEPT ![t] = s]
  BY DEF Pop
<1> HIDE DEF s
<1>4. /\ frames' \in [Threads -> Seq(FrameType)]
      /\ \A i \in Levels : Fr(t, i)' = IF i \in 1 .. Len(s) THEN s[i] ELSE NoFrame
      /\ \A u \in Threads, i \in Levels : u # t => Fr(u, i)' = Fr(u, i)
  BY <1>2, <1>3, StackChanged
<1>5. \A i \in Levels : Fr(t, i)' = IF i = Depth(t) THEN NoFrame ELSE Fr(t, i)
  BY <1>1, <1>2, <1>4 DEF Fr, Levels
<1> QED BY <1>1, <1>4, <1>5 DEF Levels, Changed, Fr

-----------------------------------------------------------------------------
(* Steps as moves from place to place                                      *)

Nowhere(t) == FramePlace(t, 0, "hold")
Stay == [p \in AllPlaces |-> p]

\* Every place but the new ones gets what from[] had, and nothing is lost but
\* with the last reference.  What can only be moved gets to one place.
Moves(from, new, made) ==
  /\ from \in [AllPlaces -> AllPlaces] /\ new \subseteq AllPlaces
  /\ \A p \in AllPlaces : Content(p)' = IF p \in new THEN made ELSE Content(from[p])
  /\ \A p \in AllPlaces :
       /\ Content(p) \in BindStates /\ bind'[Content(p)].life = "live"
       => \E q \in AllPlaces \ new : Content(from[q]) = Content(p)
  /\ \A p, q \in AllPlaces \ new : from[p] = from[q] /\ IsOnce(Content(from[p])) => p = q
  /\ new # {} =>
       /\ made \in BindStates /\ bind[made].life = "none" /\ bind'[made].life = "live"
       /\ \A p, q \in new : p = q \/ ~bind'[made].once
  /\ \A o \in BindStates :
       \/ o = made /\ new # {}
       \/ /\ bind'[o].once = bind[o].once
          /\ \/ bind'[o].life = bind[o].life
             \/ bind'[o].life # "live" /\ \A p \in AllPlaces : Content(p)' # o

\* A place refers to a bind state or to nothing.
LEMMA ContentTyped ==
  ASSUME TypeOK
  PROVE  \A p \in AllPlaces : Content(p) \in OrNull(BindStates)
<1>1. \A v \in Vars : var[v] \in OrNull(BindStates)
  BY DEF TypeOK
<1>2. \A o \in BindStates, k \in {"first", "second"} : bind[o][k] \in OrNull(BindStates)
  BY DEF TypeOK, BindType
<1>3. \A x : Referred(x) \in OrNull(BindStates)
  BY DEF Referred, OrNull
<1> QED BY <1>1, <1>2, <1>3, PlaceKinds, ContentOf

\* Moves neither lose nor duplicate what must not be.
LEMMA MovesKeep ==
  ASSUME TypeOK, OnePlace, LiveIsHeld, NEW from, NEW new, NEW made, Moves(from, new, made)
  PROVE  OnePlace' /\ LiveIsHeld'
<1>0. \A p \in AllPlaces : Content(p) \in OrNull(BindStates)
  BY ContentTyped
<1>1. ASSUME NEW p \in AllPlaces, NEW q \in AllPlaces, NEW o \in BindStates,
             Content(p)' = o, Content(q)' = o, bind'[o].once
      PROVE  p = q
  <2>1. CASE p \in new /\ q \in new
    BY <1>1, <2>1 DEF Moves
  <2>2. CASE p \in new /\ q \notin new
    <3>1. Content(from[q]) = o /\ o = made /\ from[q] \in AllPlaces
      BY <1>1, <2>2 DEF Moves
    <3>2. bind[o].life = "none"
      BY <2>2, <3>1 DEF Moves
    <3> QED BY <3>1, <3>2 DEF LiveIsHeld, Held
  <2>3. CASE p \notin new /\ q \in new
    <3>1. Content(from[p]) = o /\ o = made /\ from[p] \in AllPlaces
      BY <1>1, <2>3 DEF Moves
    <3>2. bind[o].life = "none"
      BY <2>3, <3>1 DEF Moves
    <3> QED BY <3>1, <3>2 DEF LiveIsHeld, Held
  <2>4. CASE p \notin new /\ q \notin new
    <3>1. Content(from[p]) = o /\ Content(from[q]) = o /\ from[p] \in AllPlaces /\ from[q] \in AllPlaces
      BY <1>1, <2>4 DEF Moves
    <3>2. ~(o = made /\ new # {})
      BY <3>1 DEF Moves, LiveIsHeld, Held
    <3>3. bind[o].once
      BY <1>1, <3>2 DEF Moves
    <3>4. from[p] = from[q]
      BY <3>1, <3>3 DEF OnePlace, IsOnce
    <3> QED BY <2>4, <3>1, <3>3, <3>4 DEF Moves, IsOnce
  <2> QED BY <2>1, <2>2, <2>3, <2>4
<1>2. OnePlace'
  BY <1>1 DEF OnePlace, IsOnce
<1>3. ASSUME NEW o \in BindStates
      PROVE  bind'[o].life = "live" <=> \E p \in AllPlaces : Content(p)' = o
  <2>1. CASE o = made /\ new # {}
    BY <2>1 DEF Moves
  <2>2. CASE ~(o = made /\ new # {})
    <3>1. ASSUME NEW p \in AllPlaces, Content(p)' = o
          PROVE  bind'[o].life = "live"
      <4>1. Content(from[p]) = o /\ from[p] \in AllPlaces
        BY <2>2, <3>1 DEF Moves
      <4>2. bind[o].life = "live"
        BY <4>1 DEF LiveIsHeld, Held
      <4> QED BY <2>2, <3>1, <4>2 DEF Moves
    <3>2. ASSUME bind'[o].life = "live"
          PROVE  \E p \in AllPlaces : Content(p)' = o
      <4>1. bind[o].life = "live"
        BY <2>2, <3>2 DEF Moves
      <4>2. PICK p \in AllPlaces : Content(p) = o
        BY <4>1 DEF LiveIsHeld, Held
      <4>3. PICK q \in AllPlaces \ new : Content(from[q]) = o
        BY <3>2, <4>2 DEF Moves
      <4> QED BY <4>3 DEF Moves
    <3> QED BY <3>1, <3>2
  <2> QED BY <2>1, <2>2
<1>4. LiveIsHeld'
  BY <1>3 DEF LiveIsHeld, Held
<1> QED BY <1>2, <1>4

\* A step that leaves the stacks alone.
LEMMA SameView ==
  ASSUME TypeOK, NEW t \in Threads, UNCHANGED frames
  PROVE  /\ frames' \in [Threads -> Seq(FrameType)] /\ Depth(t) \in Levels
         /\ Changed(t, Depth(t), Fr(t, Depth(t)), NoFrame)
<1>1. Depth(t) \in Nat /\ Fr(t, Depth(t) + 1) = NoFrame
  BY FrameTyped DEF Levels
<1>2. \A u \in Threads, i \in Levels : Fr(u, i)' = Fr(u, i)
  BY DEF Fr, Depth
<1> QED BY <1>1, <1>2 DEF TypeOK, Changed, Levels

-----------------------------------------------------------------------------
(* What most steps leave alone                                             *)

\* The frames keep their shape, and no new one is a winner or destroys.
LEMMA FramesKept ==
  ASSUME Shapes, DestroyedIsDying, NEW t \in Threads, NEW n \in Levels, NEW f, NEW g,
         Changed(t, n, f, g), Shape(f), Shape(g),
         f = Fr(t, n) \/ f.at \notin {"winner", "destroy"}, g.at \notin {"winner", "destroy"},
         \A o \in BindStates : bind[o].life \in {"dying", "dead"} => bind'[o].life \in {"dying", "dead"}
  PROVE  /\ Shapes' /\ DestroyedIsDying'
         /\ \A u \in Threads, i \in Levels : Winner(u, i)' => Winner(u, i) /\ Fr(u, i)' = Fr(u, i)
<1>1. Shapes'
  <2> SUFFICES ASSUME NEW u \in Threads, NEW i \in Levels PROVE Shape(Fr(u, i)')
    BY DEF Shapes, Shape
  <2> QED BY DEF Shapes, Changed
<1>2. \A u \in Threads, i \in Levels :
        Fr(u, i).at = "destroy" => Fr(u, i).bs \in BindStates
  BY DEF Shapes, Shape
<1>3. DestroyedIsDying'
  BY <1>2 DEF DestroyedIsDying, Changed
<1>4. ASSUME NEW u \in Threads, NEW i \in Levels, Winner(u, i)'
      PROVE  Winner(u, i) /\ Fr(u, i)' = Fr(u, i)
  BY <1>4 DEF Winner, Changed
<1> QED BY <1>1, <1>3, <1>4

\* Only references move.
Quiet == UNCHANGED <<bind, valid, runs, cancelled, crash>>

\* Moves that leave the bind states alone keep what is said of them.
LEMMA QuietKeeps ==
  ASSUME IInv, Quiet, NEW t \in Threads, NEW n \in Levels, NEW f, NEW g,
         Changed(t, n, f, g), Shape(f), Shape(g),
         f = Fr(t, n) \/ f.at \notin {"winner", "destroy"}, g.at \notin {"winner", "destroy"},
         NEW from, Moves(from, {}, Null),
         \A p \in AllPlaces : Content(from[p]) \in BindStates /\ MayRun(p)' => MayRun(from[p])
  PROVE  /\ Shapes' /\ DestroyedIsDying' /\ AsMade' /\ OnePlace' /\ LiveIsHeld' /\ SpentOnlyOnce'
         /\ RunsOnce' /\ WinnersRun' /\ OriginalsWait' /\ CancelledAreInvalid' /\ OriginalThere'
<1> USE DEF IInv, Quiet
<1>1. /\ Shapes' /\ DestroyedIsDying'
      /\ \A u \in Threads, i \in Levels : Winner(u, i)' => Winner(u, i) /\ Fr(u, i)' = Fr(u, i)
  BY FramesKept
<1>2. OnePlace' /\ LiveIsHeld'
  BY MovesKeep
<1>3. AsMade' /\ RunsOnce' /\ OriginalsWait' /\ CancelledAreInvalid' /\ OriginalThere'
  BY DEF AsMade, MadeOf, RunsOnce, OriginalsWait, CancelledAreInvalid, OriginalThere
<1>4. WinnersRun'
  BY <1>1 DEF WinnersRun, HasOriginal
<1>5. SpentOnlyOnce'
  <2> SUFFICES ASSUME NEW p \in AllPlaces, NEW o \in BindStates, Content(p)' = o, MayRun(p)'
               PROVE  Unspent(o)'
    BY DEF SpentOnlyOnce, Unspent, Intact
  <2>1. Content(from[p]) = o /\ from[p] \in AllPlaces
    BY DEF Moves
  <2>2. Unspent(o)
    BY <2>1 DEF SpentOnlyOnce
  <2> QED BY <2>2 DEF Unspent, Intact
<1> QED BY <1>1, <1>2, <1>3, <1>4, <1>5

Members == {"first", "second"}
Pointers == {"hold", "a", "b"}

\* All but what is said of the scopes of runners.
Apart == /\ Shapes /\ DestroyedIsDying /\ AsMade /\ CopiesAreRepeating /\ OnePlace /\ LiveIsHeld
         /\ SpentOnlyOnce /\ RunsOnce /\ WinnersRun /\ OriginalsWait /\ CancelledAreInvalid
         /\ OriginalThere

\* Where the references of variables, members, and of the two topmost frames
\* of t come from.
Route(t, n, f, g, from, new, made) ==
  /\ Changed(t, n, f, g)
  /\ from \in [AllPlaces -> AllPlaces] /\ new \subseteq {VarPlace(x) : x \in Vars}
  /\ \A x \in Vars : var'[x] = IF VarPlace(x) \in new THEN made ELSE Content(from[VarPlace(x)])
  /\ \A o \in BindStates, k \in Members : bind'[o][k] = Content(from[MemberPlace(o, k)])
  /\ \A k \in Pointers : /\ Referred(f[k]) = Content(from[FramePlace(t, n, k)])
                         /\ Referred(g[k]) = Content(from[FramePlace(t, n + 1, k)])
  /\ \A u \in Threads, i \in Levels, k \in Pointers :
       ~(u = t /\ i = n) /\ ~(u = t /\ i = n + 1) => from[FramePlace(u, i, k)] = FramePlace(u, i, k)

Unchanged(p) == Content(p)' = Content(p)
Complete(from, new) ==
  \A p \in AllPlaces :
    Content(p) \in BindStates /\ bind'[Content(p)].life = "live"
    => \E q \in AllPlaces \ new : Content(from[q]) = Content(p)
Exclusive(from, new) ==
  \A p, q \in AllPlaces \ new : from[p] = from[q] /\ IsOnce(Content(from[p])) => p = q
\* What may be called could be called before.
Callable(t, n, f, g, from, new) ==
  /\ f.at = "invoke" /\ f.hold # Null => MayRun(from[FramePlace(t, n, "hold")])
  /\ g.at = "invoke" /\ g.hold # Null => MayRun(from[FramePlace(t, n + 1, "hold")])
  /\ \A p \in AllPlaces \ new : \/ from[p] = p \/ Content(from[p]) = Null \/ MayRun(from[p])
                                \/ p = FramePlace(t, n, "hold") \/ p = FramePlace(t, n + 1, "hold")
Lives(new, made) ==
  /\ new # {} =>
       /\ made \in BindStates /\ bind[made].life = "none" /\ bind'[made].life = "live"
       /\ \A p, q \in new : p = q \/ ~bind'[made].once
  /\ \A o \in BindStates :
       \/ o = made /\ new # {}
       \/ /\ bind'[o].once = bind[o].once
          /\ \/ bind'[o].life = bind[o].life
             \/ bind'[o].life # "live" /\ \A p \in AllPlaces : Content(p)' # o

\* Where variables, members and frames come from is where places do.
LEMMA RouteMoves ==
  ASSUME NEW t \in Threads, NEW n \in Levels, NEW f, NEW g, NEW from, NEW new, NEW made,
         Route(t, n, f, g, from, new, made)
  PROVE  /\ \A p \in AllPlaces : Content(p)' = IF p \in new THEN made ELSE Content(from[p])
         /\ Complete(from, new) /\ Exclusive(from, new) /\ Lives(new, made)
            => Moves(from, new, made)
         /\ Callable(t, n, f, g, from, new)
            => \A p \in AllPlaces \ new :
                 Content(from[p]) \in BindStates /\ MayRun(p)' => MayRun(from[p])
<1>1. n + 1 \in Levels /\ n + 1 # n /\ Null \notin BindStates
  BY NullAssumption DEF Levels
<1>2. \A u \in Threads, i \in Levels, k \in Pointers : FramePlace(u, i, k) \notin new
  BY PlacesAreDistinct DEF Route, Pointers
<1>3. \A o \in BindStates, k \in Members : MemberPlace(o, k) \notin new
  BY PlacesAreDistinct DEF Route, Members
<1>4. Fr(t, n)' = f /\ Fr(t, n + 1)' = g
      /\ \A u \in Threads, i \in Levels : ~(u = t /\ i = n) /\ ~(u = t /\ i = n + 1) => Fr(u, i)' = Fr(u, i)
  BY <1>1 DEF Route, Changed
<1>5. ASSUME NEW u \in Threads, NEW i \in Levels, NEW k \in Pointers
      PROVE  Content(FramePlace(u, i, k))' = Content(from[FramePlace(u, i, k)])
  <2>1. CASE u = t /\ i = n
    BY <1>4, <2>1, NextContentOf DEF Route, Pointers
  <2>2. CASE u = t /\ i = n + 1
    BY <1>4, <2>2, NextContentOf DEF Route, Pointers
  <2>3. CASE ~(u = t /\ i = n) /\ ~(u = t /\ i = n + 1)
    <3>1. from[FramePlace(u, i, k)] = FramePlace(u, i, k)
      BY <2>3 DEF Route
    <3> QED BY <1>4, <2>3, <3>1, ContentOf, NextContentOf DEF Pointers
  <2> QED BY <2>1, <2>2, <2>3
<1>6. \A p \in AllPlaces : Content(p)' = IF p \in new THEN made ELSE Content(from[p])
  BY <1>2, <1>3, <1>5, PlaceKinds, NextContentOf DEF Route, Pointers, Members
<1>7. Complete(from, new) /\ Exclusive(from, new) /\ Lives(new, made) => Moves(from, new, made)
  <2>1. new \subseteq AllPlaces /\ from \in [AllPlaces -> AllPlaces]
    BY PlaceKinds DEF Route
  <2> QED BY <1>6, <2>1 DEF Moves, Complete, Exclusive, Lives
<1>8. ASSUME Callable(t, n, f, g, from, new), NEW p \in AllPlaces \ new,
             Content(from[p]) \in BindStates, MayRun(p)'
      PROVE  MayRun(from[p])
  <2>1. CASE p = FramePlace(t, n, "hold")
    <3>1. f.at = "invoke" /\ Referred(f.hold) = Content(from[p])
      BY <1>4, <1>8, <2>1, NextRunsFrom DEF Route, Pointers
    <3> QED BY <1>1, <1>8, <2>1, <3>1 DEF Callable, Referred
  <2>2. CASE p = FramePlace(t, n + 1, "hold")
    <3>1. g.at = "invoke" /\ Referred(g.hold) = Content(from[p])
      BY <1>1, <1>4, <1>8, <2>2, NextRunsFrom DEF Route, Pointers
    <3> QED BY <1>1, <1>8, <2>2, <3>1 DEF Callable, Referred
  <2>3. CASE p # FramePlace(t, n, "hold") /\ p # FramePlace(t, n + 1, "hold") /\ from[p] = p
    <3>1. ASSUME NEW u \in Threads, NEW i \in Levels, NEW k \in Pointers, p = FramePlace(u, i, k)
          PROVE  MayRun(p)
      <4>1. k = "hold" => Fr(u, i)' = Fr(u, i)
        BY <1>4, <2>3, <3>1
      <4> QED BY <1>8, <3>1, <4>1, RunsFrom, NextRunsFrom DEF Pointers
    <3> QED BY <2>3, <3>1, PlaceKinds, RunsFrom DEF Pointers
  <2> QED BY <1>1, <1>8, <2>1, <2>2, <2>3 DEF Callable
<1> QED BY <1>6, <1>7, <1>8

\* A step that leaves the bind states alone.
LEMMA QuietMoves ==
  ASSUME IInv, Quiet, NEW t \in Threads, NEW n \in Levels, NEW f, NEW g, NEW from,
         Route(t, n, f, g, from, {}, Null), Callable(t, n, f, g, from, {}),
         Complete(from, {}), Exclusive(from, {}), Shape(f), Shape(g),
         f = Fr(t, n) \/ f.at \notin {"winner", "destroy"}, g.at \notin {"winner", "destroy"},
         CopiesAreRepeating'
  PROVE  Apart' /\ \A p \in AllPlaces : Content(p)' = Content(from[p])
<1>1. /\ Moves(from, {}, Null) /\ Changed(t, n, f, g)
      /\ \A p \in AllPlaces : Content(from[p]) \in BindStates /\ MayRun(p)' => MayRun(from[p])
      /\ \A p \in AllPlaces : Content(p)' = Content(from[p])
  <2>1. Lives({}, Null)
    BY DEF Lives, Quiet
  <2>2. Moves(from, {}, Null)
    BY <2>1, RouteMoves
  <2>3. \A p \in AllPlaces \ {} : Content(from[p]) \in BindStates /\ MayRun(p)' => MayRun(from[p])
    BY RouteMoves
  <2> QED BY <2>2, <2>3 DEF Moves, Route
<1>2. /\ Shapes' /\ DestroyedIsDying' /\ AsMade' /\ OnePlace' /\ LiveIsHeld' /\ SpentOnlyOnce'
      /\ RunsOnce' /\ WinnersRun' /\ OriginalsWait' /\ CancelledAreInvalid' /\ OriginalThere'
  BY <1>1, QuietKeeps
<1>3. Apart'
  BY <1>2 DEF Apart
<1> QED BY <1>1, <1>3

-----------------------------------------------------------------------------
(* Variables are assigned, moved and run                                   *)

LetGo(o) == IF o = Null THEN NoFrame ELSE Frame("release", Null, o, Null, Null)

\* The frames that a step can put on top.
LEMMA NewFrames ==
  /\ \A o \in BindStates : Call(o) \in FrameType /\ Shape(Call(o))
  /\ \A o \in OrNull(BindStates) : Frame("release", Null, o, Null, Null) \in FrameType
  /\ \A o \in OrNull(BindStates) : Shape(Frame("release", Null, o, Null, Null))
  /\ \A o \in OrNull(BindStates) : Shape(LetGo(o)) /\ LetGo(o).at \in {"none", "release"} /\ LetGo(o).hold = o
                                   /\ LetGo(o).a = Null /\ LetGo(o).b = Null
  /\ Shape(NoFrame)
<1>1. Null \notin BindStates
  BY NullAssumption
<1> QED BY <1>1 DEF Call, Kept, Frame, LetGo, NoFrame, FrameType, Shape, OrNull

\* An assignment lets go of the old value on top of the stack.
LEMMA AssignView ==
  ASSUME TypeOK, NEW t \in Threads, NEW w \in [Vars -> OrNull(BindStates)], NEW v \in Vars,
         NEW o \in OrNull(BindStates), Assign(t, w, v, o)
  PROVE  /\ var' = [w EXCEPT ![v] = o] /\ var' \in [Vars -> OrNull(BindStates)]
         /\ frames' \in [Threads -> Seq(FrameType)] /\ Depth(t) \in Levels
         /\ Changed(t, Depth(t), Fr(t, Depth(t)), LetGo(w[v]))
<1>1. var' = [w EXCEPT ![v] = o] /\ var' \in [Vars -> OrNull(BindStates)]
  BY DEF Assign
<1>2. CASE w[v] = Null
  BY <1>1, <1>2, SameView DEF Assign, LetGo
<1>3. CASE w[v] # Null
  <2>1. w[v] \in BindStates
    BY <1>3 DEF OrNull
  <2>2. Frame("release", Null, w[v], Null, Null) \in FrameType
    BY <2>1, NewFrames DEF OrNull
  <2>3. Push(t, Frame("release", Null, w[v], Null, Null))
    BY <1>3 DEF Assign
  <2> QED BY <1>1, <1>3, <2>2, <2>3, PushView DEF LetGo
<1> QED BY <1>2, <1>3

\* Level 0 of a stack is never used: a place to move from that has nothing.
LEMMA NowhereIsNull ==
  ASSUME NEW t \in Threads
  PROVE  Nowhere(t) \in AllPlaces /\ Content(Nowhere(t)) = Null /\ Content(Nowhere(t))' = Null
<1>1. Nowhere(t) \in AllPlaces /\ 0 \in Levels
  BY PlaceKinds DEF Nowhere, Levels
<1>2. Fr(t, 0) = NoFrame /\ Fr(t, 0)' = NoFrame
  <2>1. 0 \notin 1 .. Depth(t) /\ 0 \notin 1 .. Depth(t)'
    OBVIOUS
  <2> QED BY <2>1 DEF Fr
<1>3. Content(Nowhere(t)) = Referred(Null) /\ Content(Nowhere(t))' = Referred(Null)
  BY <1>1, <1>2, ContentOf, NextContentOf DEF Nowhere, NoFrame, Referred
<1> QED BY <1>1, <1>3, NullAssumption DEF Referred

\* What will be called from below the changed frames is still to be.
LEMMA WillRunKept ==
  ASSUME NEW t \in Threads, NEW n \in Levels, NEW f, NEW g, Changed(t, n, f, g),
         \A o \in BindStates : bind'[o].fun = bind[o].fun,
         NEW p \in AllPlaces, WillRun(p),
         \A k \in Pointers : p # FramePlace(t, n + 1, k),
         f = Fr(t, n) \/ \A k \in Pointers : p # FramePlace(t, n, k)
  PROVE  WillRun(p)'
<1>1. ASSUME NEW u \in Threads, NEW i \in Levels, NEW k \in Pointers, p = FramePlace(u, i, k)
      PROVE  WillRun(p)'
  <2>1. Fr(u, i)' = Fr(u, i)
    BY <1>1 DEF Changed
  <2> QED BY <1>1, <2>1, RunsFrom, NextRunsFrom DEF Pointers
<1>2. ASSUME NEW o \in BindStates, NEW k \in Members, p = MemberPlace(o, k) PROVE WillRun(p)'
  BY <1>2, RunsFrom, NextRunsFrom DEF Members
<1>3. ASSUME NEW x \in Vars, p = VarPlace(x) PROVE WillRun(p)'
  BY <1>3, RunsFrom, NextRunsFrom
<1> QED BY <1>1, <1>2, <1>3, PlaceKinds DEF Pointers, Members

\* The two topmost frames are apart from all other places, and from each other.
LEMMA TopFrames ==
  ASSUME TypeOK, NEW t \in Threads, NEW n \in Levels
  PROVE  /\ n + 1 \in Levels /\ n + 1 # n /\ Null \notin BindStates
         /\ \A k \in Pointers : /\ FramePlace(t, n, k) \in AllPlaces /\ FramePlace(t, n + 1, k) \in AllPlaces
                                /\ Content(FramePlace(t, n, k)) = Referred(Fr(t, n)[k])
                                /\ Content(FramePlace(t, n + 1, k)) = Referred(Fr(t, n + 1)[k])
         /\ \A k, l \in Pointers : /\ FramePlace(t, n, k) # FramePlace(t, n + 1, l)
                                   /\ FramePlace(t, n, k) = FramePlace(t, n, l) => k = l
                                   /\ FramePlace(t, n + 1, k) = FramePlace(t, n + 1, l) => k = l
         /\ \A x \in Vars, k \in Pointers :
              VarPlace(x) # FramePlace(t, n, k) /\ VarPlace(x) # FramePlace(t, n + 1, k)
         /\ \A o \in BindStates, j \in Members, k \in Pointers :
              MemberPlace(o, j) # FramePlace(t, n, k) /\ MemberPlace(o, j) # FramePlace(t, n + 1, k)
         /\ n = Depth(t) => Fr(t, n + 1) = NoFrame /\ \A k \in Pointers : Content(FramePlace(t, n + 1, k)) = Null
<1>1. n + 1 \in Levels /\ n + 1 # n /\ Null \notin BindStates
  BY NullAssumption DEF Levels
<1>2. n = Depth(t) => Fr(t, n + 1) = NoFrame
  BY FrameTyped DEF Levels
<1>3. \A k \in Pointers : Referred(NoFrame[k]) = Null
  BY <1>1 DEF Pointers, NoFrame, Referred
<1>4. /\ \A k \in Pointers : /\ FramePlace(t, n, k) \in AllPlaces /\ FramePlace(t, n + 1, k) \in AllPlaces
                             /\ Content(FramePlace(t, n, k)) = Referred(Fr(t, n)[k])
                             /\ Content(FramePlace(t, n + 1, k)) = Referred(Fr(t, n + 1)[k])
  BY <1>1, PlaceKinds, ContentOf DEF Pointers
<1>5. \A k, l \in Pointers : /\ FramePlace(t, n, k) # FramePlace(t, n + 1, l)
                             /\ FramePlace(t, n, k) = FramePlace(t, n, l) => k = l
                             /\ FramePlace(t, n + 1, k) = FramePlace(t, n + 1, l) => k = l
  BY <1>1, PlacesAreDistinct DEF Pointers
<1>6. /\ \A x \in Vars, k \in Pointers :
           VarPlace(x) # FramePlace(t, n, k) /\ VarPlace(x) # FramePlace(t, n + 1, k)
      /\ \A o \in BindStates, j \in Members, k \in Pointers :
           MemberPlace(o, j) # FramePlace(t, n, k) /\ MemberPlace(o, j) # FramePlace(t, n + 1, k)
  BY <1>1, PlacesAreDistinct DEF Pointers, Members
<1> QED BY <1>1, <1>2, <1>3, <1>4, <1>5, <1>6

\* v takes over what s has, and lets go of what it had.
LEMMA VariableTakesOver ==
  ASSUME IInv, Quiet, NEW t \in Threads, NEW v \in Vars, NEW s \in Vars, v # s,
         NEW y \in {var[s], Null}, y = Null \/ s \in RepeatingVars,
         v \in RepeatingVars => ~IsOnce(var[s]),
         Assign(t, [var EXCEPT ![s] = y], v, var[s])
  PROVE  /\ var' \in [Vars -> OrNull(BindStates)] /\ var'[v] = var[s]
         /\ frames' \in [Threads -> Seq(FrameType)]
         /\ Apart'
         /\ \A p \in AllPlaces \ {VarPlace(v), VarPlace(s)} :
              Content(p) \in BindStates /\ WillRun(p) => Unchanged(p) /\ WillRun(p)'
<1>0. PICK n \in Levels : n = Depth(t)
  BY FrameTyped DEF IInv, Levels
<1> DEFINE w == [var EXCEPT ![s] = y]
           top == FramePlace(t, n + 1, "hold")
           left == IF y = Null THEN Nowhere(t) ELSE VarPlace(s)
           from == [Stay EXCEPT ![VarPlace(v)] = VarPlace(s), ![VarPlace(s)] = left, ![top] = VarPlace(v)]
           f == Fr(t, n)
           g == LetGo(var[v])
<1>1. TypeOK /\ var \in [Vars -> OrNull(BindStates)] /\ Null \notin BindStates
  BY NullAssumption DEF IInv, TypeOK
<1>2. w \in [Vars -> OrNull(BindStates)] /\ var[s] \in OrNull(BindStates) /\ var[v] \in OrNull(BindStates)
      /\ w[v] = var[v]
  BY <1>1 DEF OrNull
<1>3. /\ var' = [w EXCEPT ![v] = var[s]] /\ var' \in [Vars -> OrNull(BindStates)]
      /\ frames' \in [Threads -> Seq(FrameType)] /\ Changed(t, n, f, g)
  BY <1>0, <1>1, <1>2, AssignView
<1>4. /\ VarPlace(v) \in AllPlaces /\ VarPlace(s) \in AllPlaces /\ VarPlace(v) # VarPlace(s)
      /\ top \in AllPlaces /\ left \in AllPlaces /\ top # VarPlace(v) /\ top # VarPlace(s)
      /\ Content(VarPlace(v)) = var[v] /\ Content(VarPlace(s)) = var[s] /\ Content(left) = y
      /\ Content(top) = Null /\ MayRun(VarPlace(v)) /\ MayRun(VarPlace(s))
  BY <1>0, <1>1, TopFrames, PlaceKinds, PlacesAreDistinct, ContentOf, NowhereIsNull, RunsFrom DEF Pointers
<1>5. /\ from \in [AllPlaces -> AllPlaces]
      /\ from[VarPlace(v)] = VarPlace(s) /\ from[VarPlace(s)] = left /\ from[top] = VarPlace(v)
      /\ \A p \in AllPlaces \ {VarPlace(v), VarPlace(s), top} : from[p] = p
  BY <1>4 DEF Stay
<1>6. /\ Shape(f) /\ f = Fr(t, n) /\ Shape(g) /\ g.at \in {"none", "release"}
      /\ g.hold = var[v] /\ g.a = Null /\ g.b = Null
  BY <1>2, NewFrames DEF IInv, Shapes
<1> HIDE DEF from, f, g
<1>7. Route(t, n, f, g, from, {}, Null)
  <2>1. ASSUME NEW x \in Vars PROVE var'[x] = Content(from[VarPlace(x)])
    <3>1. CASE x # v /\ x # s
      <4>1. from[VarPlace(x)] = VarPlace(x)
        BY <1>0, <1>1, <1>5, <3>1, PlaceKinds, PlacesAreDistinct, TopFrames DEF Pointers
      <4> QED BY <1>1, <1>3, <3>1, <4>1, ContentOf DEF w
    <3> QED BY <1>1, <1>3, <1>4, <1>5, <3>1 DEF w
  <2>2. \A o \in BindStates, k \in Members : bind'[o][k] = Content(from[MemberPlace(o, k)])
    BY <1>0, <1>1, <1>5, PlaceKinds, PlacesAreDistinct, ContentOf, TopFrames DEF Pointers, Members, Quiet
  <2>3. ASSUME NEW u \in Threads, NEW i \in Levels, NEW k \in Pointers, FramePlace(u, i, k) # top
        PROVE  from[FramePlace(u, i, k)] = FramePlace(u, i, k)
    BY <1>5, <2>3, PlaceKinds, PlacesAreDistinct DEF Pointers
  <2>4. ASSUME NEW k \in Pointers
        PROVE  /\ Referred(f[k]) = Content(from[FramePlace(t, n, k)])
               /\ Referred(g[k]) = Content(from[FramePlace(t, n + 1, k)])
    BY <1>0, <1>1, <1>2, <1>4, <1>5, <1>6, <2>3, TopFrames DEF Pointers, Referred, OrNull
  <2>5. \A u \in Threads, i \in Levels, k \in Pointers :
          ~(u = t /\ i = n + 1) => FramePlace(u, i, k) # top
    BY <1>1, PlacesAreDistinct, TopFrames DEF Pointers
  <2> HIDE DEF top
  <2>6. \A u \in Threads, i \in Levels, k \in Pointers :
          ~(u = t /\ i = n + 1) => from[FramePlace(u, i, k)] = FramePlace(u, i, k)
    BY <2>3, <2>5
  <2> QED BY <1>3, <1>5, <2>1, <2>2, <2>4, <2>6 DEF Route
<1>8. Complete(from, {})
  BY <1>1, <1>4, <1>5 DEF Complete
<1>9. Exclusive(from, {})
  <2>1. ~IsOnce(Null) /\ (y = Null \/ ~IsOnce(y))
    BY <1>1 DEF IsOnce, IInv, CopiesAreRepeating
  <2> QED BY <1>4, <1>5, <2>1 DEF Exclusive
<1>10. Callable(t, n, f, g, from, {})
  <2>1. f.at = "invoke" => MayRun(from[FramePlace(t, n, "hold")])
    BY <1>1, <1>5, <1>6, TopFrames, RunsFrom DEF Pointers
  <2> QED BY <1>4, <1>5, <1>6, <2>1 DEF Callable
<1>11. CopiesAreRepeating'
  <2>1. ~IsOnce(Null)
    BY <1>1 DEF IsOnce
  <2>2. ASSUME NEW x \in RepeatingVars PROVE ~IsOnce(var'[x])
    <3>1. x \in Vars /\ ~IsOnce(var[x])
      BY DEF IInv, CopiesAreRepeating, Vars
    <3> QED BY <1>1, <1>3, <2>1, <3>1 DEF w
  <2> QED BY <2>2 DEF CopiesAreRepeating, IsOnce, Quiet, IInv
<1>12. Apart' /\ \A p \in AllPlaces : Content(p)' = Content(from[p])
  BY <1>6, <1>7, <1>8, <1>9, <1>10, <1>11, QuietMoves
<1>13. ASSUME NEW p \in AllPlaces \ {VarPlace(v), VarPlace(s)}, Content(p) \in BindStates, WillRun(p)
       PROVE  Unchanged(p) /\ WillRun(p)'
  <2>1. \A k \in Pointers : p # FramePlace(t, n + 1, k)
    BY <1>0, <1>1, <1>13, TopFrames
  <2>2. Unchanged(p)
    BY <1>5, <1>12, <1>13, <2>1 DEF Pointers, Unchanged
  <2>3. \A o \in BindStates : bind'[o].fun = bind[o].fun
    BY DEF Quiet
  <2> QED BY <1>3, <1>6, <1>13, <2>1, <2>2, <2>3, WillRunKept
<1> QED BY <1>1, <1>3, <1>12, <1>13

\* What v has goes to a frame on top of the stack.
LEMMA VariableToTop ==
  ASSUME IInv, Quiet, NEW t \in Threads, NEW n \in Levels, Fr(t, n + 1) = NoFrame,
         NEW f, NEW g, Changed(t, n, f, g),
         Shape(f), \A k \in Pointers : Referred(f[k]) = Referred(Fr(t, n)[k]),
         f = Fr(t, n) \/ f.at \notin {"winner", "destroy", "invoke"},
         \A k \in Pointers : f # Fr(t, n) => Content(FramePlace(t, n, k)) = Null,
         NEW v \in Vars, Shape(g), g.at \in {"none", "release", "invoke"},
         g.hold = var[v], g.a = Null, g.b = Null,
         NEW y \in {var[v], Null}, y = Null \/ v \in RepeatingVars,
         var' = [var EXCEPT ![v] = y]
  PROVE  /\ var' \in [Vars -> OrNull(BindStates)]
         /\ Apart'
         /\ \A p \in AllPlaces \ {VarPlace(v)} :
              Content(p) \in BindStates /\ WillRun(p) => Unchanged(p) /\ WillRun(p)'
         /\ Content(FramePlace(t, n + 1, "hold"))' = var[v]
         /\ g.at = "invoke" => WillRun(FramePlace(t, n + 1, "hold"))'
<1> DEFINE top == FramePlace(t, n + 1, "hold")
           left == IF y = Null THEN Nowhere(t) ELSE VarPlace(v)
           from == [Stay EXCEPT ![VarPlace(v)] = left, ![top] = VarPlace(v)]
<1>1. TypeOK /\ var \in [Vars -> OrNull(BindStates)] /\ Null \notin BindStates
      /\ var[v] \in OrNull(BindStates) /\ y \in OrNull(BindStates)
  BY NullAssumption DEF IInv, TypeOK, OrNull
<1>2. /\ VarPlace(v) \in AllPlaces /\ top \in AllPlaces /\ left \in AllPlaces /\ top # VarPlace(v)
      /\ Content(VarPlace(v)) = var[v] /\ Content(left) = y /\ MayRun(VarPlace(v))
      /\ \A k \in Pointers : Content(FramePlace(t, n + 1, k)) = Null
  <2>1. \A k \in Pointers : Referred(NoFrame[k]) = Null
    BY <1>1 DEF Pointers, NoFrame, Referred
  <2> QED BY <1>1, <2>1, TopFrames, PlaceKinds, ContentOf, NowhereIsNull, RunsFrom DEF Pointers
<1>3. /\ from \in [AllPlaces -> AllPlaces] /\ from[VarPlace(v)] = left /\ from[top] = VarPlace(v)
      /\ \A p \in AllPlaces \ {VarPlace(v), top} : from[p] = p
  BY <1>2 DEF Stay
<1> HIDE DEF from
<1>4. Route(t, n, f, g, from, {}, Null)
  <2>1. ASSUME NEW x \in Vars PROVE var'[x] = Content(from[VarPlace(x)])
    <3>1. CASE x # v
      <4>1. from[VarPlace(x)] = VarPlace(x)
        BY <1>1, <1>3, <3>1, PlaceKinds, PlacesAreDistinct, TopFrames DEF Pointers
      <4> QED BY <1>1, <3>1, <4>1, ContentOf
    <3> QED BY <1>1, <1>2, <1>3, <3>1
  <2>2. \A o \in BindStates, k \in Members : bind'[o][k] = Content(from[MemberPlace(o, k)])
    BY <1>1, <1>3, PlaceKinds, PlacesAreDistinct, ContentOf, TopFrames DEF Pointers, Members, Quiet
  <2>3. \A u \in Threads, i \in Levels, k \in Pointers :
          ~(u = t /\ i = n + 1 /\ k = "hold") => FramePlace(u, i, k) # top
    BY <1>1, PlacesAreDistinct, TopFrames DEF Pointers
  <2>4. \A u \in Threads, i \in Levels, k \in Pointers :
          ~(u = t /\ i = n + 1 /\ k = "hold") => from[FramePlace(u, i, k)] = FramePlace(u, i, k)
    BY <1>3, <2>3, PlaceKinds, PlacesAreDistinct DEF Pointers
  <2>5. ASSUME NEW k \in Pointers
        PROVE  /\ Referred(f[k]) = Content(from[FramePlace(t, n, k)])
               /\ Referred(g[k]) = Content(from[FramePlace(t, n + 1, k)])
    BY <1>1, <1>2, <1>3, <2>4, TopFrames DEF Pointers, Referred, OrNull
  <2> QED BY <1>3, <2>1, <2>2, <2>4, <2>5 DEF Route
<1>5. Complete(from, {})
  BY <1>1, <1>2, <1>3 DEF Complete, Pointers
<1>6. Exclusive(from, {})
  <2>1. ~IsOnce(Null) /\ (y = Null \/ ~IsOnce(y))
    BY <1>1 DEF IsOnce, IInv, CopiesAreRepeating
  <2> QED BY <1>2, <1>3, <2>1 DEF Exclusive
<1>7. Callable(t, n, f, g, from, {})
  <2>1. f.at = "invoke" => MayRun(from[FramePlace(t, n, "hold")])
    BY <1>1, <1>3, TopFrames, RunsFrom DEF Pointers
  <2> QED BY <1>2, <1>3, <2>1 DEF Callable
<1>8. CopiesAreRepeating'
  <2>1. ASSUME NEW x \in RepeatingVars PROVE ~IsOnce(var'[x])
    BY <1>1 DEF IInv, CopiesAreRepeating, Vars, IsOnce
  <2> QED BY <2>1 DEF CopiesAreRepeating, IsOnce, Quiet, IInv
<1>9. Apart' /\ \A p \in AllPlaces : Content(p)' = Content(from[p])
  BY <1>4, <1>5, <1>6, <1>7, <1>8, QuietMoves
<1>10. ASSUME NEW p \in AllPlaces \ {VarPlace(v)}, Content(p) \in BindStates, WillRun(p)
       PROVE  Unchanged(p) /\ WillRun(p)'
  <2>1. \A k \in Pointers : p # FramePlace(t, n + 1, k)
    BY <1>1, <1>2, <1>10
  <2>2. Unchanged(p)
    BY <1>3, <1>9, <1>10, <2>1 DEF Pointers, Unchanged
  <2>3. \A o \in BindStates : bind'[o].fun = bind[o].fun
    BY DEF Quiet
  <2>4. f = Fr(t, n) \/ \A k \in Pointers : p # FramePlace(t, n, k)
    BY <1>1, <1>10
  <2> QED BY <1>10, <2>1, <2>2, <2>3, <2>4, WillRunKept
<1>11. Content(top)' = var[v] /\ (g.at = "invoke" => WillRun(top)')
  <2>1. n + 1 \in Levels /\ Fr(t, n + 1)' = g
    BY <1>1, TopFrames DEF Changed
  <2> QED BY <1>2, <1>3, <1>9, <2>1, NextRunsFrom
<1> QED BY <1>1, <1>9, <1>10, <1>11

-----------------------------------------------------------------------------
(* Steps that make or change a bind state                                  *)

\* What a step does to b, the one bind state that it makes or changes.
Evolves(b) ==
  /\ \A o \in BindStates \ {b} : bind'[o] = bind[o] /\ runs'[o] = runs[o]
  /\ MadeOf(bind'[b]) /\ bind'[b].life # "none"
  /\ bind[b].life \in {"dying", "dead"} => bind'[b].life \in {"dying", "dead"}
  /\ bind[b].life # "none" => bind'[b].fun = bind[b].fun /\ bind'[b].once = bind[b].once
  /\ bind'[b].once => runs'[b] <= 1
  /\ runs'[b] = 0 => runs[b] = 0
  /\ bind'[b].fun = "split" /\ bind'[b].life = "live" /\ ~bind'[b].has_run => bind'[b].first # Null
  /\ UNCHANGED <<valid, cancelled, crash>>
\* Its functor is not called again when it was moved out.
StaysUnspent(b) ==
  /\ \E p \in AllPlaces : Content(p)' = b /\ MayRun(p)'
  => (bind'[b].once => runs'[b] = 0) /\ Intact(b)'
Original(o) == bind'[o].fun = "split" /\ bind'[o].first # Null /\ bind'[o].has_run
\* The original of a split callback is there for its winner.
WinsOnce(t, n, f, b) ==
  /\ \A u \in Threads, i \in Levels :
       Winner(u, i) /\ Fr(u, i).bs = b /\ ~(u = t /\ i = n) => Original(b)
  /\ f.at = "winner" =>
       /\ f.bs = b /\ Original(b)
       /\ f = Fr(t, n) \/ ~bind[b].has_run
Destroys(f, b) == f.at = "destroy" => f.bs = b /\ bind'[b].life \in {"dying", "dead"}
\* A closure that was to run is still to run.
StillAhead ==
  \A p \in AllPlaces :
    Content(p) \in scoped /\ bind[Content(p)].fun = "user" /\ runs'[Content(p)] = 0 /\ WillRun(p)
    => \E q \in AllPlaces : Content(q)' = Content(p) /\ WillRun(q)'

\* The closures of runners, when a step changes b.
LEMMA AheadKept ==
  ASSUME IInv, NEW b \in BindStates, Evolves(b), StillAhead, UNCHANGED scoped
  PROVE  ScopedAreAhead'
<1> SUFFICES ASSUME NEW o \in scoped
             PROVE  /\ bind'[o].life # "none"
                    /\ bind'[o].fun = "user" /\ runs'[o] = 0
                       => \E p \in AllPlaces : Content(p)' = o /\ WillRun(p)'
  BY DEF ScopedAreAhead
<1>1. o \in BindStates /\ bind[o].life # "none"
      /\ (bind[o].fun = "user" /\ runs[o] = 0 => \E p \in AllPlaces : Content(p) = o /\ WillRun(p))
  BY DEF IInv, TypeOK, ScopedAreAhead
<1>2. bind'[o].life # "none" /\ bind'[o].fun = bind[o].fun /\ (runs'[o] = 0 => runs[o] = 0)
  BY <1>1 DEF Evolves
<1>3. ASSUME bind'[o].fun = "user", runs'[o] = 0
      PROVE  \E p \in AllPlaces : Content(p)' = o /\ WillRun(p)'
  <2>1. PICK p \in AllPlaces : Content(p) = o /\ WillRun(p)
    BY <1>1, <1>2, <1>3
  <2> QED BY <1>2, <1>3, <2>1 DEF StillAhead
<1> QED BY <1>2, <1>3

\* The winners, when a step changes b.
LEMMA WinnersKept ==
  ASSUME IInv, NEW t \in Threads, NEW n \in Levels, NEW f, NEW g, Changed(t, n, f, g),
         g.at # "winner", NEW b \in BindStates, Evolves(b), WinsOnce(t, n, f, b)
  PROVE  WinnersRun'
<1>1. ASSUME NEW u \in Threads, NEW i \in Levels, Winner(u, i)'
      PROVE  \/ Winner(u, i) /\ Fr(u, i)' = Fr(u, i) /\ ~(u = t /\ i = n)
             \/ u = t /\ i = n /\ Fr(u, i)' = f /\ f.at = "winner"
  <2>1. n + 1 # n
    BY DEF Levels
  <2> QED BY <1>1, <2>1 DEF Winner, Changed
<1>2. ASSUME NEW u \in Threads, NEW i \in Levels, Winner(u, i)'
      PROVE  Original(Fr(u, i)'.bs)
  <2>1. CASE Winner(u, i) /\ Fr(u, i)' = Fr(u, i) /\ ~(u = t /\ i = n)
    <3>1. Fr(u, i).bs \in BindStates /\ HasOriginal(Fr(u, i).bs) /\ bind[Fr(u, i).bs].has_run
      BY <2>1 DEF IInv, WinnersRun, Shapes, Shape, Winner
    <3> QED BY <2>1, <3>1 DEF WinsOnce, Evolves, HasOriginal, Original
  <2>2. CASE u = t /\ i = n /\ Fr(u, i)' = f /\ f.at = "winner"
    BY <2>2 DEF WinsOnce
  <2> QED BY <1>1, <1>2, <2>1, <2>2
<1>3. ASSUME NEW u \in Threads, NEW i \in Levels, NEW v \in Threads, NEW j \in Levels,
             Winner(u, i)', Winner(v, j)', Fr(u, i)'.bs = Fr(v, j)'.bs
      PROVE  u = v /\ i = j
  <2>1. ASSUME NEW x \in Threads, NEW k \in Levels, Winner(x, k), Fr(x, k).bs = b, f.at = "winner",
               ~(x = t /\ k = n)
        PROVE  Winner(t, n) /\ Fr(t, n).bs = b
    BY <2>1 DEF WinsOnce, IInv, WinnersRun, Winner
  <2>2. \A x, y \in Threads : \A k, l \in Levels :
          Winner(x, k) /\ Winner(y, l) /\ Fr(x, k).bs = Fr(y, l).bs => x = y /\ k = l
    BY DEF IInv, WinnersRun
  <2>3. f.at = "winner" => f.bs = b
    BY DEF WinsOnce
  <2>4. CASE Winner(u, i) /\ Fr(u, i)' = Fr(u, i) /\ ~(u = t /\ i = n)
    BY <1>1, <1>3, <2>1, <2>2, <2>3, <2>4
  <2>5. CASE u = t /\ i = n /\ Fr(u, i)' = f /\ f.at = "winner"
    BY <1>1, <1>3, <2>1, <2>2, <2>3, <2>5
  <2> QED BY <1>1, <1>3, <2>4, <2>5
<1> QED BY <1>2, <1>3 DEF WinnersRun, HasOriginal, Original

\* The frames, when a step changes b.
LEMMA ShapesKept ==
  ASSUME IInv, NEW t \in Threads, NEW n \in Levels, NEW f, NEW g,
         Changed(t, n, f, g), Shape(f), Shape(g), g.at # "destroy",
         NEW b \in BindStates, Evolves(b), f = Fr(t, n) \/ Destroys(f, b)
  PROVE  Shapes' /\ DestroyedIsDying'
<1>1. Shapes'
  <2> SUFFICES ASSUME NEW u \in Threads, NEW i \in Levels PROVE Shape(Fr(u, i)')
    BY DEF Shapes, Shape
  <2> QED BY DEF Shapes, Changed, IInv
<1>2. \A u \in Threads, i \in Levels :
        Fr(u, i).at = "destroy" => Fr(u, i).bs \in BindStates /\ bind[Fr(u, i).bs].life \in {"dying", "dead"}
  BY DEF Shapes, Shape, IInv, DestroyedIsDying
<1>3. \A o \in BindStates : bind[o].life \in {"dying", "dead"} => bind'[o].life \in {"dying", "dead"}
  BY DEF Evolves
<1>4. DestroyedIsDying'
  <2> SUFFICES ASSUME NEW u \in Threads, NEW i \in Levels, Fr(u, i)'.at = "destroy"
               PROVE  bind'[Fr(u, i)'.bs].life \in {"dying", "dead"}
    BY DEF DestroyedIsDying
  <2>1. CASE Fr(u, i)' = Fr(u, i)
    BY <1>2, <1>3, <2>1
  <2>2. CASE Fr(u, i)' = f /\ Destroys(f, b)
    BY <2>2 DEF Destroys
  <2> QED BY <2>1, <2>2 DEF Changed
<1> QED BY <1>1, <1>4

\* A step that makes or changes one bind state.
LEMMA StepKeeps ==
  ASSUME IInv, NEW t \in Threads, NEW n \in Levels, NEW f, NEW g, NEW from, NEW new,
         NEW b \in BindStates, Evolves(b), StaysUnspent(b), WinsOnce(t, n, f, b),
         Route(t, n, f, g, from, new, b), Callable(t, n, f, g, from, new),
         Complete(from, new), Exclusive(from, new), Lives(new, b), Shape(f), Shape(g),
         f = Fr(t, n) \/ Destroys(f, b), g.at \notin {"winner", "destroy"},
         CopiesAreRepeating'
  PROVE  Apart' /\ \A p \in AllPlaces : Content(p)' = IF p \in new THEN b ELSE Content(from[p])
<1>1. /\ \A p \in AllPlaces : Content(p)' = IF p \in new THEN b ELSE Content(from[p])
      /\ Moves(from, new, b) /\ Changed(t, n, f, g)
      /\ \A p \in AllPlaces \ new : Content(from[p]) \in BindStates /\ MayRun(p)' => MayRun(from[p])
  <2>1. Moves(from, new, b)
    BY RouteMoves
  <2>2. \A p \in AllPlaces : Content(p)' = IF p \in new THEN b ELSE Content(from[p])
    BY RouteMoves
  <2>3. \A p \in AllPlaces \ new : Content(from[p]) \in BindStates /\ MayRun(p)' => MayRun(from[p])
    BY RouteMoves
  <2> QED BY <2>1, <2>2, <2>3 DEF Route
<1>2. Shapes' /\ DestroyedIsDying' /\ WinnersRun'
  BY <1>1, ShapesKept, WinnersKept
<1>3. OnePlace' /\ LiveIsHeld'
  BY <1>1, MovesKeep DEF IInv
<1>4. AsMade' /\ RunsOnce' /\ OriginalsWait'
  BY DEF IInv, Evolves, AsMade, RunsOnce, OriginalsWait
<1>5. CancelledAreInvalid' /\ OriginalThere'
  BY DEF IInv, TypeOK, Evolves, CancelledAreInvalid, OriginalThere
<1>6. SpentOnlyOnce'
  <2> SUFFICES ASSUME NEW p \in AllPlaces, NEW o \in BindStates, Content(p)' = o, MayRun(p)'
               PROVE  (bind'[o].once => runs'[o] = 0) /\ Intact(o)'
    BY DEF SpentOnlyOnce, Unspent, Intact
  <2>1. CASE o = b
    BY <2>1 DEF StaysUnspent
  <2>2. CASE o # b
    <3>1. Content(from[p]) = o /\ from[p] \in AllPlaces /\ MayRun(from[p])
      BY <1>1, <2>2 DEF Moves
    <3>2. Unspent(o)
      BY <3>1 DEF IInv, SpentOnlyOnce
    <3> QED BY <2>2, <3>2 DEF Unspent, Intact, Evolves
  <2> QED BY <2>1, <2>2
<1> QED BY <1>1, <1>2, <1>3, <1>4, <1>5, <1>6 DEF Apart

\* A step of the topmost frame of t, and of the bind states in M.
Near(t, n, M) ==
  {FramePlace(t, n, k) : k \in Pointers} \cup {FramePlace(t, n + 1, k) : k \in Pointers}
  \cup {MemberPlace(o, k) : o \in M, k \in Members}

\* Everywhere else than near the top of t and M.
LEMMA FarPlaces ==
  ASSUME TypeOK, NEW t \in Threads, NEW n \in Levels, NEW M \in SUBSET BindStates
  PROVE  /\ Near(t, n, M) \subseteq AllPlaces
         /\ \A x \in Vars : VarPlace(x) \in AllPlaces \ Near(t, n, M)
         /\ \A o \in BindStates, k \in Members : o \notin M => MemberPlace(o, k) \in AllPlaces \ Near(t, n, M)
         /\ \A u \in Threads, i \in Levels, k \in Pointers :
              ~(u = t /\ i = n) /\ ~(u = t /\ i = n + 1) => FramePlace(u, i, k) \in AllPlaces \ Near(t, n, M)
<1>1. Near(t, n, M) \subseteq AllPlaces
  <2>1. \A k \in Pointers : FramePlace(t, n, k) \in AllPlaces /\ FramePlace(t, n + 1, k) \in AllPlaces
    BY TopFrames
  <2>2. \A o \in M, k \in Members : MemberPlace(o, k) \in AllPlaces
    BY PlaceKinds DEF Members
  <2> QED BY <2>1, <2>2 DEF Near
<1>2. \A x \in Vars : VarPlace(x) \in AllPlaces \ Near(t, n, M)
  BY PlaceKinds, TopFrames, PlacesAreDistinct DEF Near, Pointers, Members
<1>3. \A o \in BindStates, k \in Members : o \notin M => MemberPlace(o, k) \in AllPlaces \ Near(t, n, M)
  BY PlaceKinds, TopFrames, PlacesAreDistinct DEF Near, Pointers, Members
<1>4. ASSUME NEW u \in Threads, NEW i \in Levels, NEW k \in Pointers,
             ~(u = t /\ i = n) /\ ~(u = t /\ i = n + 1)
      PROVE  FramePlace(u, i, k) \in AllPlaces \ Near(t, n, M)
  BY <1>4, PlaceKinds, TopFrames, PlacesAreDistinct DEF Near, Pointers, Members
<1> QED BY <1>1, <1>2, <1>3, <1>4

NearFrom(t, n, M, f, g, from) ==
  /\ Changed(t, n, f, g)
  /\ UNCHANGED var
  /\ from \in [AllPlaces -> AllPlaces]
  /\ \A p \in AllPlaces \ Near(t, n, M) : from[p] = p
  /\ \A k \in Pointers : /\ Referred(f[k]) = Content(from[FramePlace(t, n, k)])
                         /\ Referred(g[k]) = Content(from[FramePlace(t, n + 1, k)])
  /\ \A o \in BindStates \ M : bind'[o] = bind[o]
  /\ \A o \in M, k \in Members : bind'[o][k] = Content(from[MemberPlace(o, k)])
  /\ \A p \in Near(t, n, M) : from[p] \in Near(t, n, M) \/ Content(from[p]) = Null
  /\ \A p, q \in Near(t, n, M) : from[p] = from[q] /\ IsOnce(Content(from[p])) => p = q
  /\ \A p \in Near(t, n, M) : Content(p) \in BindStates /\ bind'[Content(p)].life = "live"
                              => \E q \in AllPlaces : Content(from[q]) = Content(p)

\* What moves near the top of t is a route.
LEMMA NearRoute ==
  ASSUME TypeOK, NEW t \in Threads, NEW n \in Levels, NEW f, NEW g, NEW M \in SUBSET BindStates,
         NEW from, NearFrom(t, n, M, f, g, from), NEW made
  PROVE  Route(t, n, f, g, from, {}, made) /\ Complete(from, {}) /\ Exclusive(from, {})
<1> USE DEF NearFrom
<1>1. \A o \in BindStates, k \in Members : bind'[o][k] = Content(from[MemberPlace(o, k)])
  BY FarPlaces, ContentOf DEF Members
<1>2. \A x \in Vars : var'[x] = Content(from[VarPlace(x)])
  BY FarPlaces, ContentOf
<1>3. Route(t, n, f, g, from, {}, made)
  BY <1>1, <1>2, FarPlaces DEF Route
<1>4. Complete(from, {})
  BY DEF Complete
<1>5. Exclusive(from, {})
  BY NullAssumption DEF Exclusive, IsOnce
<1> QED BY <1>3, <1>4, <1>5

\* The closures that were to run from there are still to run.
NearAhead(t, n, M) ==
  \A p \in Near(t, n, M) :
    Content(p) \in scoped /\ bind[Content(p)].fun = "user" /\ runs'[Content(p)] = 0 /\ WillRun(p)
    => \E q \in AllPlaces : Content(q)' = Content(p) /\ WillRun(q)'

\* It is enough to look near the top for what is still to run.
LEMMA NearStillAhead ==
  ASSUME TypeOK, NEW t \in Threads, NEW n \in Levels, NEW f, NEW g, NEW M \in SUBSET BindStates,
         NEW from, NearFrom(t, n, M, f, g, from), NearAhead(t, n, M),
         \A o \in BindStates : bind'[o].fun = bind[o].fun,
         \A p \in AllPlaces : Content(p)' = Content(from[p])
  PROVE  StillAhead
<1> SUFFICES ASSUME NEW p \in AllPlaces \ Near(t, n, M), WillRun(p)
             PROVE  Content(p)' = Content(p) /\ WillRun(p)'
  BY DEF StillAhead, NearAhead
<1>1. Content(p)' = Content(p)
  BY DEF NearFrom
<1>2. \A k \in Pointers : p # FramePlace(t, n, k) /\ p # FramePlace(t, n + 1, k)
  BY DEF Near
<1>3. Changed(t, n, f, g)
  BY DEF NearFrom
<1> QED BY <1>1, <1>2, <1>3, WillRunKept

\* A quiet step near the top.
LEMMA NearQuiet ==
  ASSUME IInv, Quiet, UNCHANGED scoped, NEW t \in Threads, NEW n \in Levels, NEW f, NEW g,
         NEW from, NearFrom(t, n, {}, f, g, from), NearAhead(t, n, {}),
         Callable(t, n, f, g, from, {}), Shape(f), Shape(g),
         f = Fr(t, n) \/ f.at \notin {"winner", "destroy"}, g.at \notin {"winner", "destroy"}
  PROVE  Apart' /\ ScopedAreAhead'
<1>1. Route(t, n, f, g, from, {}, Null) /\ Complete(from, {}) /\ Exclusive(from, {})
  BY NearRoute DEF IInv
<1>2. CopiesAreRepeating'
  BY DEF IInv, CopiesAreRepeating, IsOnce, Quiet, NearFrom
<1>3. Apart' /\ \A p \in AllPlaces : Content(p)' = Content(from[p])
  BY <1>1, <1>2, QuietMoves
<1>4. StillAhead
  BY <1>3, NearStillAhead DEF IInv, Quiet
<1>5. ScopedAreAhead'
  <2> SUFFICES ASSUME NEW o \in scoped
               PROVE  /\ bind[o].life # "none"
                      /\ bind[o].fun = "user" /\ runs[o] = 0
                         => \E p \in AllPlaces : Content(p)' = o /\ WillRun(p)'
    BY DEF ScopedAreAhead, Quiet
  <2> QED BY <1>4 DEF IInv, ScopedAreAhead, StillAhead, Quiet
<1> QED BY <1>3, <1>5

\* A step near the top that changes b.
LEMMA NearStep ==
  ASSUME IInv, UNCHANGED scoped, NEW t \in Threads, NEW n \in Levels, NEW f, NEW g,
         NEW b \in BindStates, NEW from, NearFrom(t, n, {b}, f, g, from), NearAhead(t, n, {b}),
         Callable(t, n, f, g, from, {}), Shape(f), Shape(g),
         f = Fr(t, n) \/ Destroys(f, b), g.at \notin {"winner", "destroy"},
         Evolves(b), WinsOnce(t, n, f, b), bind[b].life # "none",
         ~bind'[b].once /\ bind'[b].fun # "split" =>
           \A k \in Members : bind'[b][k] \in {bind[b][k], Null},
         (\E p \in AllPlaces : Content(from[p]) = b /\ MayRun(p)')
           => (bind'[b].once => runs'[b] = 0) /\ Intact(b)',
         \/ bind'[b].life = bind[b].life
         \/ bind'[b].life # "live" /\ \A p \in AllPlaces : Content(from[p]) # b
  PROVE  Apart' /\ ScopedAreAhead'
<1>1. Route(t, n, f, g, from, {}, b) /\ Complete(from, {}) /\ Exclusive(from, {})
  BY NearRoute DEF IInv
<1>2. \A p \in AllPlaces : Content(p)' = Content(from[p])
  BY <1>1, RouteMoves
<1>3. \A o \in BindStates : bind'[o].fun = bind[o].fun /\ bind'[o].once = bind[o].once
  BY DEF Evolves
<1>4. CopiesAreRepeating'
  <2>1. \A x : IsOnce(x)' = IsOnce(x)
    BY <1>3 DEF IsOnce
  <2>2. \A o \in BindStates : ~bind'[o].once /\ bind'[o].fun # "split" =>
          bind'[o].first \in {bind[o].first, Null} /\ bind'[o].second \in {bind[o].second, Null}
    BY DEF Evolves, Members
  <2>3. ~IsOnce(Null)
    BY NullAssumption DEF IsOnce
  <2> QED BY <1>3, <2>1, <2>2, <2>3 DEF IInv, CopiesAreRepeating, NearFrom, IsOnce
<1>5. StaysUnspent(b) /\ Lives({}, b)
  BY <1>2, <1>3 DEF StaysUnspent, Lives, Evolves
<1>6. Apart'
  BY <1>1, <1>4, <1>5, StepKeeps
<1>7. StillAhead
  BY <1>2, <1>3, NearStillAhead DEF IInv
<1> QED BY <1>6, <1>7, AheadKept

-----------------------------------------------------------------------------
(* Calls, and what they do with the topmost frame of a stack               *)

\* The invariant but for steps, which every step of Next treats alike.
Typed ==
  /\ var \in [Vars -> OrNull(BindStates)]
  /\ bind \in [BindStates -> BindType]
  /\ frames \in [Threads -> Seq(FrameType)]
  /\ valid \in BOOLEAN
  /\ runs \in [BindStates -> 0..2]
  /\ cancelled \subseteq BindStates /\ scoped \subseteq BindStates
  /\ crash \in {"none", "null functor", "null then", "null run", "null query",
                "foreign sequence", "split", "null original"}
Consistent == Typed /\ Apart /\ ScopedAreAhead

\* The topmost frame, and the level above it.
LEMMA TopOf ==
  ASSUME IInv, NEW t \in Threads, frames[t] # <<>>
  PROVE  \E n \in Levels :
           /\ n = Depth(t) /\ n + 1 \in Levels
           /\ Fr(t, n) = Top(t) /\ Fr(t, n + 1) = NoFrame
           /\ Top(t) \in FrameType /\ Shape(Top(t))
           /\ \A k \in Pointers : /\ FramePlace(t, n, k) \in AllPlaces /\ FramePlace(t, n + 1, k) \in AllPlaces
                                  /\ Content(FramePlace(t, n, k)) = Referred(Top(t)[k])
                                  /\ Content(FramePlace(t, n + 1, k)) = Null
<1>1. Depth(t) \in Levels /\ Fr(t, Depth(t)) = Top(t) /\ Top(t) \in FrameType
  BY FrameTyped DEF IInv, Levels
<1>2. Shape(Top(t))
  BY <1>1 DEF IInv, Shapes
<1>3. PICK n \in Levels : n = Depth(t)
  BY <1>1
<1> QED BY <1>1, <1>2, <1>3, TopFrames DEF IInv

\* References that stay in their places.
LEMMA StayIsNear ==
  ASSUME TypeOK, NEW t \in Threads, NEW n \in Levels, NEW f, NEW M \in SUBSET BindStates,
         Changed(t, n, f, NoFrame), Fr(t, n + 1) = NoFrame, UNCHANGED var,
         \A k \in Pointers : Referred(f[k]) = Referred(Fr(t, n)[k]),
         \A o \in BindStates \ M : bind'[o] = bind[o],
         \A o \in M, k \in Members : bind'[o][k] = bind[o][k]
  PROVE  NearFrom(t, n, M, f, NoFrame, Stay)
<1>1. Stay \in [AllPlaces -> AllPlaces] /\ \A p \in AllPlaces : Stay[p] = p
  BY DEF Stay
<1>2. Near(t, n, M) \subseteq AllPlaces
  BY FarPlaces
<1>3. \A k \in Pointers : Content(Stay[FramePlace(t, n, k)]) = Referred(Fr(t, n)[k])
                          /\ Content(Stay[FramePlace(t, n + 1, k)]) = Referred(NoFrame[k])
  BY <1>1, TopFrames
<1>4. \A o \in M, k \in Members : bind'[o][k] = Content(Stay[MemberPlace(o, k)])
  BY <1>1, PlaceKinds, ContentOf DEF Members
<1> QED BY <1>1, <1>2, <1>3, <1>4 DEF NearFrom

\* The topmost frame goes on, with the references that it has.
LEMMA FrameGoesOn ==
  ASSUME IInv, Quiet, UNCHANGED <<var, scoped>>, NEW t \in Threads, frames[t] # <<>>,
         NEW f \in FrameType, Become(t, f), Shape(f), f.at \in {"return", "release"},
         \A k \in Pointers : f[k] = Top(t)[k],
         \/ Top(t).at = "body" /\ f.at = "return"
         \/ Top(t).at = "return" /\ Top(t).a = Null
         \/ Top(t).at = "invoke" /\ bind[Top(t).bs].fun # "user"
  PROVE  Consistent'
<1>1. PICK n \in Levels :
        /\ n = Depth(t) /\ n + 1 \in Levels
        /\ Fr(t, n) = Top(t) /\ Fr(t, n + 1) = NoFrame
        /\ Top(t) \in FrameType /\ Shape(Top(t))
        /\ \A k \in Pointers : /\ FramePlace(t, n, k) \in AllPlaces /\ FramePlace(t, n + 1, k) \in AllPlaces
                               /\ Content(FramePlace(t, n, k)) = Referred(Top(t)[k])
                               /\ Content(FramePlace(t, n + 1, k)) = Null
  BY TopOf
<1>2. frames' \in [Threads -> Seq(FrameType)] /\ Changed(t, n, f, NoFrame)
  BY <1>1, BecomeView DEF IInv
<1>3. NearFrom(t, n, {}, f, NoFrame, Stay)
  BY <1>1, <1>2, StayIsNear DEF IInv, Quiet
<1>4. Null \notin BindStates /\ \A p \in AllPlaces : Stay[p] = p
  BY NullAssumption DEF Stay
<1>5. Callable(t, n, f, NoFrame, Stay, {})
  BY <1>4 DEF Callable, NoFrame
<1>6. NearAhead(t, n, {})
  <2> SUFFICES ASSUME NEW p \in Near(t, n, {}), Content(p) \in BindStates,
                      bind[Content(p)].fun = "user", WillRun(p)
               PROVE  \E q \in AllPlaces : Content(q)' = Content(p) /\ WillRun(q)'
    BY DEF NearAhead, IInv, TypeOK
  <2>1. PICK k \in Pointers : p = FramePlace(t, n, k)
    BY <1>1, <1>4 DEF Near
  <2>2. k = "a" /\ Top(t).at = "body" /\ f.at = "return"
    BY <1>1, <1>4, <2>1, RunsFrom DEF Pointers, Shape, Referred
  <2>3. Fr(t, n)' = f
    BY <1>2 DEF Changed
  <2> QED BY <1>1, <2>1, <2>2, <2>3, NextContentOf, NextRunsFrom DEF Pointers
<1>7. Apart' /\ ScopedAreAhead'
  BY <1>2, <1>3, <1>5, <1>6, NewFrames, NearQuiet DEF NoFrame
<1> QED BY <1>2, <1>7 DEF Consistent, Typed, IInv, TypeOK, Quiet

\* A functor returns.
LEMMA LeaveKeeps ==
  ASSUME IInv, NEW t \in Threads, Leave(t) PROVE Consistent'
<1>1. frames[t] # <<>> /\ Top(t).at = "body" /\ Quiet /\ UNCHANGED <<var, scoped>>
  BY DEF Leave, At, Quiet
<1>2. Top(t) \in FrameType /\ Shape(Top(t))
  BY <1>1, TopOf
<1> DEFINE f == [Top(t) EXCEPT !.at = "return"]
<1>3. f \in FrameType /\ Shape(f) /\ f.at = "return" /\ \A k \in Pointers : f[k] = Top(t)[k]
  BY <1>1, <1>2 DEF FrameType, Shape, Pointers
<1>4. Become(t, f)
  BY DEF Leave
<1> QED BY <1>1, <1>3, <1>4, FrameGoesOn

\* What a frame for a call refers to.
LEMMA CallReferences ==
  ASSUME NEW o \in BindStates
  PROVE  /\ Call(o) \in FrameType /\ Shape(Call(o)) /\ Call(o).at = "invoke"
         /\ Referred(Call(o).hold) = o /\ Referred(Call(o).a) = Null /\ Referred(Call(o).b) = Null
         /\ Call(o).hold = o
BY NewFrames, NullAssumption DEF Call, Kept, Frame, Referred

\* What the topmost frame has in a or in b goes to a call on top of it.
LEMMA FrameCalls ==
  ASSUME IInv, Quiet, UNCHANGED <<var, scoped>>, NEW t \in Threads, frames[t] # <<>>,
         NEW j \in {"a", "b"}, Top(t)[j] \in BindStates,
         NEW f \in FrameType, BecomeAndPush(t, f, Call(Top(t)[j])), Shape(f),
         f.at \in {"c2", "return"}, f[j] = Null, f.hold = Top(t).hold,
         \A k \in {"a", "b"} : k # j => f[k] = Top(t)[k],
         Top(t).at \in {"c1", "c2", "return"}, Top(t).at = "return" => j = "a"
  PROVE  Consistent'
<1>1. PICK n \in Levels :
        /\ n = Depth(t) /\ n + 1 \in Levels
        /\ Fr(t, n) = Top(t) /\ Fr(t, n + 1) = NoFrame
        /\ Top(t) \in FrameType /\ Shape(Top(t))
        /\ \A k \in Pointers : /\ FramePlace(t, n, k) \in AllPlaces /\ FramePlace(t, n + 1, k) \in AllPlaces
                               /\ Content(FramePlace(t, n, k)) = Referred(Top(t)[k])
                               /\ Content(FramePlace(t, n + 1, k)) = Null
  BY TopOf
<1> DEFINE o == Top(t)[j]
           g == Call(o)
           own == FramePlace(t, n, j)
           top == FramePlace(t, n + 1, "hold")
           from == [Stay EXCEPT ![own] = Nowhere(t), ![top] = own]
<1>2. frames' \in [Threads -> Seq(FrameType)] /\ Changed(t, n, f, g)
  BY <1>1, CallReferences, BecomeAndPushView DEF IInv
<1>3. Null \notin BindStates /\ Nowhere(t) \in AllPlaces /\ Content(Nowhere(t)) = Null
  BY NullAssumption, NowhereIsNull
<1>4. own \in AllPlaces /\ top \in AllPlaces /\ own # top /\ Content(own) = o /\ MayRun(own)
      /\ top \in Near(t, n, {}) /\ own \in Near(t, n, {})
      /\ \A k \in Pointers : FramePlace(t, n, k) # top /\ (k # j => FramePlace(t, n, k) # own)
                             /\ FramePlace(t, n + 1, k) # own
                             /\ (k # "hold" => FramePlace(t, n + 1, k) # top)
  BY <1>1, TopFrames, RunsFrom DEF IInv, Pointers, Referred, Near
<1>5. /\ from \in [AllPlaces -> AllPlaces] /\ from[own] = Nowhere(t) /\ from[top] = own
      /\ \A p \in AllPlaces \ {own, top} : from[p] = p
  BY <1>3, <1>4 DEF Stay
<1>6. Near(t, n, {}) \subseteq AllPlaces
  BY FarPlaces DEF IInv
<1> HIDE DEF from
<1>7. NearFrom(t, n, {}, f, g, from)
  <2>1. \A k \in Pointers : Referred(f[k]) = Content(from[FramePlace(t, n, k)])
    BY <1>1, <1>3, <1>4, <1>5 DEF Pointers, Referred
  <2>2. \A k \in Pointers : Referred(g[k]) = Content(from[FramePlace(t, n + 1, k)])
    BY <1>1, <1>3, <1>4, <1>5, CallReferences DEF Pointers
  <2>3. \A p \in Near(t, n, {}) : from[p] \in Near(t, n, {}) \/ Content(from[p]) = Null
    BY <1>3, <1>4, <1>5, <1>6
  <2>4. \A p, q \in Near(t, n, {}) : from[p] = from[q] /\ IsOnce(Content(from[p])) => p = q
    BY <1>3, <1>4, <1>5, <1>6 DEF IsOnce
  <2>5. \A p \in Near(t, n, {}) : Content(p) \in BindStates => \E q \in AllPlaces : Content(from[q]) = Content(p)
    BY <1>1, <1>3, <1>4, <1>5, <1>6 DEF Pointers
  <2> QED BY <1>2, <1>4, <1>5, <2>1, <2>2, <2>3, <2>4, <2>5 DEF NearFrom, Quiet
<1>8. Callable(t, n, f, g, from, {})
  BY <1>3, <1>4, <1>5 DEF Callable
<1>9. NearAhead(t, n, {})
  <2> SUFFICES ASSUME NEW p \in Near(t, n, {}), Content(p) \in BindStates, WillRun(p)
               PROVE  \E q \in AllPlaces : Content(q)' = Content(p) /\ WillRun(q)'
    BY DEF NearAhead, IInv, TypeOK
  <2>1. PICK k \in Pointers : p = FramePlace(t, n, k)
    BY <1>1, <1>3 DEF Near
  <2>2. k = "a" /\ j = "a"
    BY <1>1, <2>1, RunsFrom DEF Pointers
  <2>3. Fr(t, n + 1)' = g
    BY <1>1, <1>2, TopFrames DEF Changed, IInv
  <2> QED BY <1>1, <1>4, <2>1, <2>2, <2>3, CallReferences, NextContentOf, NextRunsFrom
<1>10. Apart' /\ ScopedAreAhead'
  BY <1>7, <1>8, <1>9, CallReferences, NearQuiet
<1> QED BY <1>2, <1>10 DEF Consistent, Typed, IInv, TypeOK, Quiet

\* The end of a call: a parameter that is a runner runs its closure.
LEMMA ReturnKeeps ==
  ASSUME IInv, NEW t \in Threads, Return(t) PROVE Consistent'
<1>1. frames[t] # <<>> /\ Top(t).at = "return" /\ Quiet /\ UNCHANGED <<var, scoped>>
  BY DEF Return, At, Quiet
<1>2. Top(t) \in FrameType /\ Shape(Top(t)) /\ Null \notin BindStates
  BY <1>1, TopOf, NullAssumption
<1>3. CASE Top(t).a # Null
  <2> DEFINE f == [Top(t) EXCEPT !.a = Null]
  <2>1. /\ f \in FrameType /\ Shape(f) /\ f.at = "return" /\ f.a = Null /\ f.hold = Top(t).hold
        /\ f.b = Top(t).b /\ Top(t).a \in BindStates
    BY <1>1, <1>2, <1>3 DEF FrameType, Shape, OrNull
  <2>2. BecomeAndPush(t, f, Call(Top(t).a))
    BY <1>3 DEF Return
  <2> HIDE DEF f
  <2> QED BY <1>1, <2>1, <2>2, FrameCalls
<1>4. CASE Top(t).a = Null
  <2> DEFINE f == Frame("release", Null, Top(t).hold, Null, Null)
  <2>1. f \in FrameType /\ Shape(f) /\ f.at = "release" /\ \A k \in Pointers : f[k] = Top(t)[k]
    BY <1>1, <1>2, <1>4, NewFrames DEF Frame, Shape, Pointers, FrameType
  <2>2. Become(t, f)
    BY <1>4 DEF Return
  <2> HIDE DEF f
  <2> QED BY <1>1, <1>4, <2>1, <2>2, FrameGoesOn
<1> QED BY <1>3, <1>4

\* Where everything is, and what has run, stays as it is.
LEMMA StillKeeps ==
  ASSUME IInv, UNCHANGED <<var, bind, frames, runs, scoped>>,
         Typed', CancelledAreInvalid', OriginalThere'
  PROVE  Consistent'
<1> USE DEF IInv
<1>1. \A p \in AllPlaces : Content(p)' = Content(p) /\ (MayRun(p)' <=> MayRun(p)) /\ (WillRun(p)' <=> WillRun(p))
  BY DEF Content, MayRun, WillRun, Fr, Depth
<1>2. Shapes' /\ DestroyedIsDying' /\ WinnersRun'
  <2>1. PICK n \in Levels : n = Depth(Owner)
    BY SameView, BoundAssumption
  <2>2. Changed(Owner, n, Fr(Owner, n), NoFrame)
    BY <2>1, SameView, BoundAssumption
  <2>3. /\ Shapes' /\ DestroyedIsDying'
        /\ \A u \in Threads, i \in Levels : Winner(u, i)' => Winner(u, i) /\ Fr(u, i)' = Fr(u, i)
    <3>1. Shape(Fr(Owner, n)) /\ Shape(NoFrame) /\ NoFrame.at = "none" /\ Owner \in Threads
      BY NewFrames, BoundAssumption DEF Shapes, NoFrame
    <3> QED BY <2>2, <3>1, FramesKept
  <2>4. WinnersRun'
    <3> HIDE DEF IInv
    <3>1. WinnersRun /\ bind' = bind
      BY DEF IInv
    <3>2. ASSUME NEW u \in Threads, NEW i \in Levels, Winner(u, i)'
          PROVE  Winner(u, i) /\ Fr(u, i)' = Fr(u, i)
      BY <2>3, <3>2
    <3>3. ASSUME NEW u \in Threads, NEW i \in Levels, Winner(u, i)
          PROVE  HasOriginal(Fr(u, i).bs) /\ bind[Fr(u, i).bs].has_run
      BY <3>1, <3>3 DEF WinnersRun
    <3>4. ASSUME NEW u \in Threads, NEW i \in Levels, Winner(u, i)'
          PROVE  HasOriginal(Fr(u, i).bs)' /\ bind'[Fr(u, i)'.bs].has_run
      <4>1. HasOriginal(Fr(u, i).bs) /\ bind[Fr(u, i).bs].has_run /\ Fr(u, i)' = Fr(u, i)
        BY <3>2, <3>3, <3>4
      <4>2. bind'[Fr(u, i)'.bs] = bind[Fr(u, i).bs]
        BY <3>1, <4>1
      <4> QED BY <4>1, <4>2 DEF HasOriginal
    <3>5. ASSUME NEW u \in Threads, NEW i \in Levels, NEW v \in Threads, NEW j \in Levels,
                 Winner(u, i)', Winner(v, j)', Fr(u, i)'.bs = Fr(v, j)'.bs
          PROVE  u = v /\ i = j
      <4>1. \A x, y \in Threads : \A k, l \in Levels :
              Winner(x, k) /\ Winner(y, l) /\ Fr(x, k).bs = Fr(y, l).bs => x = y /\ k = l
        BY <3>1 DEF WinnersRun
      <4>2. /\ Winner(u, i) /\ Fr(u, i)' = Fr(u, i)
            /\ Winner(v, j) /\ Fr(v, j)' = Fr(v, j)
        BY <3>2, <3>5
      <4> QED BY <3>5, <4>1, <4>2
    <3> QED BY <3>4, <3>5 DEF WinnersRun
  <2> QED BY <2>3, <2>4
<1>3. OnePlace' /\ LiveIsHeld' /\ SpentOnlyOnce' /\ ScopedAreAhead'
  BY <1>1 DEF OnePlace, LiveIsHeld, Held, SpentOnlyOnce, ScopedAreAhead, Unspent, Intact, IsOnce
<1>4. AsMade' /\ CopiesAreRepeating' /\ RunsOnce' /\ OriginalsWait'
  BY DEF AsMade, MadeOf, CopiesAreRepeating, IsOnce, RunsOnce, OriginalsWait
<1> QED BY <1>2, <1>3, <1>4 DEF Consistent, Apart

\* A failed check ends the program as it is.
LEMMA FailKeeps ==
  ASSUME IInv, NEW why \in {"null functor", "null then", "null run", "null query",
                            "foreign sequence", "split"}, Fail(why)
  PROVE  Consistent'
<1>1. Typed' /\ CancelledAreInvalid' /\ OriginalThere'
  BY DEF IInv, TypeOK, Typed, Fail, CancelledAreInvalid, OriginalThere
<1> QED BY <1>1, StillKeeps DEF Fail

\* The trampoline of Then() runs one callback after the other.
LEMMA RunThenKeeps ==
  ASSUME IInv, NEW t \in Threads, RunThen(t) PROVE Consistent'
<1>1. frames[t] # <<>> /\ Top(t).at \in {"c1", "c2"}
  BY DEF RunThen, At
<1>2. Top(t) \in FrameType /\ Shape(Top(t)) /\ Null \notin BindStates
  BY <1>1, TopOf, NullAssumption
<1>3. CASE Top(t).at = "c1"
  <2>1. CASE Top(t).a = Null
    BY <1>3, <2>1, FailKeeps DEF RunThen, At
  <2>2. CASE Top(t).a # Null
    <3> DEFINE f == [Top(t) EXCEPT !.at = "c2", !.a = Null]
    <3>1. /\ f \in FrameType /\ Shape(f) /\ f.at = "c2" /\ f.a = Null /\ f.hold = Top(t).hold
          /\ f.b = Top(t).b /\ Top(t).a \in BindStates
      BY <1>2, <1>3, <2>2 DEF FrameType, Shape, OrNull
    <3>2. BecomeAndPush(t, f, Call(Top(t).a)) /\ Quiet /\ UNCHANGED <<var, scoped>>
      BY <1>3, <2>2 DEF RunThen, At, Quiet
    <3> HIDE DEF f
    <3> QED BY <1>1, <1>3, <3>1, <3>2, FrameCalls
  <2> QED BY <2>1, <2>2
<1>4. CASE Top(t).at = "c2"
  <2> DEFINE f == [Top(t) EXCEPT !.at = "return", !.b = Null]
  <2>1. /\ f \in FrameType /\ Shape(f) /\ f.at = "return" /\ f.b = Null /\ f.hold = Top(t).hold
        /\ f.a = Top(t).a /\ Top(t).b \in BindStates
    BY <1>2, <1>4 DEF FrameType, Shape, OrNull
  <2>2. BecomeAndPush(t, f, Call(Top(t).b)) /\ Quiet /\ UNCHANGED <<var, scoped>>
    BY <1>4 DEF RunThen, At, Quiet
  <2> HIDE DEF f
  <2> QED BY <1>1, <1>4, <2>1, <2>2, FrameCalls
<1> QED BY <1>1, <1>3, <1>4

\* The model's places of a bind state are the ones with it as their content.
LEMMA PlacesOf ==
  ASSUME TypeOK, NEW o \in BindStates
  PROVE  Places(o) = {p \in AllPlaces : Content(p) = o}
<1>1. \A p : p \in Places(o) <=>
        \/ \E v \in Vars : p = VarPlace(v) /\ var[v] = o
        \/ \E q \in BindStates : p = MemberPlace(q, "first") /\ bind[q].first = o
        \/ \E q \in BindStates : p = MemberPlace(q, "second") /\ bind[q].second = o
        \/ \E t \in Threads, k \in Pointers : \E i \in DOMAIN frames[t] :
             p = FramePlace(t, i, k) /\ frames[t][i][k] = o
  <2> DEFINE S(t, k) == {<<"frame", t, i, k>> : i \in {i \in DOMAIN frames[t] : frames[t][i][k] = o}}
  <2>1. \A p, t, k : p \in S(t, k) <=>
          \E i \in DOMAIN frames[t] : p = FramePlace(t, i, k) /\ frames[t][i][k] = o
    BY DEF FramePlace
  <2>2. Places(o) = {<<"var", v>> : v \in {v \in Vars : var[v] = o}}
                    \cup {<<"first", p>> : p \in {p \in BindStates : bind[p].first = o}}
                    \cup {<<"second", p>> : p \in {p \in BindStates : bind[p].second = o}}
                    \cup UNION {S(t, k) : t \in Threads, k \in Pointers}
    BY DEF Places, Pointers
  <2> HIDE DEF S
  <2>3. \A p : p \in UNION {S(t, k) : t \in Threads, k \in Pointers} <=>
          \E t \in Threads, k \in Pointers : p \in S(t, k)
    OBVIOUS
  <2>4. \A p : p \in Places(o) <=>
          \/ p \in {VarPlace(v) : v \in {v \in Vars : var[v] = o}}
          \/ p \in {MemberPlace(q, "first") : q \in {q \in BindStates : bind[q].first = o}}
          \/ p \in {MemberPlace(q, "second") : q \in {q \in BindStates : bind[q].second = o}}
          \/ \E t \in Threads, k \in Pointers : p \in S(t, k)
    BY <2>2, <2>3 DEF VarPlace, MemberPlace
  <2>5. \A p : p \in {VarPlace(v) : v \in {v \in Vars : var[v] = o}} <=> \E v \in Vars : p = VarPlace(v) /\ var[v] = o
    OBVIOUS
  <2>6. \A k, p : p \in {MemberPlace(q, k) : q \in {q \in BindStates : bind[q][k] = o}}
                  <=> \E q \in BindStates : p = MemberPlace(q, k) /\ bind[q][k] = o
    OBVIOUS
  <2> QED BY <2>1, <2>4, <2>5, <2>6
<1>2. Null \notin BindStates
  BY NullAssumption
<1>3. ASSUME NEW t \in Threads, NEW k \in Pointers
      PROVE  /\ DOMAIN frames[t] \subseteq Levels
             /\ \A i \in Levels : Content(FramePlace(t, i, k)) = o <=> i \in DOMAIN frames[t] /\ frames[t][i][k] = o
  <2>1. DOMAIN frames[t] = 1 .. Depth(t) /\ Depth(t) \in Nat
    <3>1. frames[t] \in Seq(FrameType)
      BY DEF TypeOK
    <3> QED BY <3>1 DEF Depth
  <2>2. \A i \in Levels : Content(FramePlace(t, i, k)) = Referred(Fr(t, i)[k])
    BY ContentOf DEF Pointers
  <2>3. ASSUME NEW i \in Levels
        PROVE  Referred(Fr(t, i)[k]) = o <=> i \in 1 .. Depth(t) /\ frames[t][i][k] = o
    <3>1. i \in 1 .. Depth(t) => Fr(t, i) = frames[t][i]
      BY DEF Fr
    <3>2. i \notin 1 .. Depth(t) => Fr(t, i)[k] = Null
      BY DEF Fr, NoFrame, Pointers
    <3> QED BY <1>2, <3>1, <3>2 DEF Referred
  <2> QED BY <2>1, <2>2, <2>3 DEF Levels
<1>4. ASSUME NEW p \in Places(o) PROVE p \in AllPlaces /\ Content(p) = o
  BY <1>1, <1>3, PlaceKinds, ContentOf DEF Pointers
<1>5. ASSUME NEW p \in AllPlaces, Content(p) = o PROVE p \in Places(o)
  BY <1>1, <1>3, <1>5, PlaceKinds, ContentOf DEF Pointers
<1> QED BY <1>4, <1>5

\* The last reference is the one about to be let go of.
LEMMA LastPlace ==
  ASSUME TypeOK, NEW o \in BindStates, NEW p \in AllPlaces, Content(p) = o
  PROVE  /\ IsLast(o) => \A q \in AllPlaces : Content(q) = o => q = p
         /\ ~IsLast(o) => \E q \in AllPlaces : Content(q) = o /\ q # p
<1>1. Places(o) = {q \in AllPlaces : Content(q) = o}
  BY PlacesOf
<1> QED BY <1>1 DEF IsLast

\* A reference goes, and with the last one the bind state.
LEMMA ReleaseKeeps ==
  ASSUME IInv, NEW t \in Threads, ReleaseRef(t) PROVE Consistent'
<1>1. frames[t] # <<>> /\ Top(t).at = "release" /\ UNCHANGED <<var, valid, runs, cancelled, scoped, crash>>
  BY DEF ReleaseRef, At
<1>2. PICK n \in Levels :
        /\ n = Depth(t) /\ n + 1 \in Levels
        /\ Fr(t, n) = Top(t) /\ Fr(t, n + 1) = NoFrame
        /\ Top(t) \in FrameType /\ Shape(Top(t))
        /\ \A k \in Pointers : /\ FramePlace(t, n, k) \in AllPlaces /\ FramePlace(t, n + 1, k) \in AllPlaces
                               /\ Content(FramePlace(t, n, k)) = Referred(Top(t)[k])
                               /\ Content(FramePlace(t, n + 1, k)) = Null
  BY <1>1, TopOf
<1>0. PICK o : o = Top(t).hold
  OBVIOUS
<1> DEFINE own == FramePlace(t, n, "hold")
           from == [Stay EXCEPT ![own] = Nowhere(t)]
<1>3. /\ Null \notin BindStates /\ Nowhere(t) \in AllPlaces /\ Content(Nowhere(t)) = Null
      /\ o \in OrNull(BindStates) /\ Top(t).a = Null /\ Top(t).b = Null
  BY <1>0, <1>1, <1>2, NullAssumption, NowhereIsNull DEF FrameType, Shape
<1>4. own \in AllPlaces /\ Content(own) = o
      /\ \A k \in Pointers : (k # "hold" => FramePlace(t, n, k) # own) /\ FramePlace(t, n + 1, k) # own
  BY <1>0, <1>2, <1>3, TopFrames DEF IInv, Pointers, Referred, OrNull
<1>5. /\ from \in [AllPlaces -> AllPlaces] /\ from[own] = Nowhere(t)
      /\ \A p \in AllPlaces \ {own} : from[p] = p
  BY <1>3, <1>4 DEF Stay
<1> HIDE DEF from
<1>6. \A k \in Pointers : Content(from[FramePlace(t, n, k)]) = Null /\ Content(from[FramePlace(t, n + 1, k)]) = Null
  BY <1>2, <1>3, <1>4, <1>5 DEF Pointers, Referred
<1>7. ASSUME NEW f, NEW M \in SUBSET BindStates, Changed(t, n, f, NoFrame),
             f.hold = Null, f.a = Null, f.b = Null,
             \A x \in BindStates, k \in Members : bind'[x][k] = bind[x][k],
             \A x \in BindStates : bind'[x].fun = bind[x].fun,
             \A x \in BindStates \ M : bind'[x] = bind[x],
             o = Null \/ bind'[o].life # "live" \/ \E q \in AllPlaces : Content(q) = o /\ q # own
      PROVE  NearFrom(t, n, M, f, NoFrame, from) /\ NearAhead(t, n, M)
  <2>1. Near(t, n, M) \subseteq AllPlaces /\ own \in Near(t, n, M)
        /\ \A x \in M, k \in Members : MemberPlace(x, k) \in AllPlaces \ {own}
    <3>1. Near(t, n, M) \subseteq AllPlaces /\ own \in Near(t, n, M)
      BY FarPlaces DEF IInv, Near, Pointers
    <3>2. \A x \in M, k \in Members : MemberPlace(x, k) \in AllPlaces \ {own}
      <4>1. \A x \in BindStates, j \in Members, k \in Pointers : MemberPlace(x, j) # FramePlace(t, n, k)
        BY TopFrames DEF IInv
      <4>2. "hold" \in Pointers /\ \A x \in BindStates, j \in Members : MemberPlace(x, j) \in AllPlaces
        BY PlaceKinds DEF Members, Pointers
      <4> QED BY <4>1, <4>2
    <3> QED BY <3>1, <3>2
  <2>2. \A k \in Pointers : Referred(f[k]) = Null /\ Referred(NoFrame[k]) = Null
    BY <1>3, <1>7 DEF Pointers, NoFrame, Referred
  <2>3. \A x \in M, k \in Members : bind'[x][k] = Content(from[MemberPlace(x, k)])
    BY <1>5, <1>7, <2>1, ContentOf DEF Members
  <2>4. ASSUME NEW p \in Near(t, n, M), Content(p) \in BindStates, bind'[Content(p)].life = "live"
        PROVE  \E q \in AllPlaces : Content(from[q]) = Content(p)
    BY <1>3, <1>4, <1>5, <1>7, <2>1, <2>4
  <2>5. NearFrom(t, n, M, f, NoFrame, from)
    <3>1. \A p \in Near(t, n, M) : from[p] \in Near(t, n, M) \/ Content(from[p]) = Null
      BY <1>3, <1>5, <2>1
    <3>2. \A p, q \in Near(t, n, M) : from[p] = from[q] /\ IsOnce(Content(from[p])) => p = q
      BY <1>3, <1>5, <2>1 DEF IsOnce
    <3>3. \A p \in AllPlaces \ Near(t, n, M) : from[p] = p
      BY <1>5, <2>1
    <3> QED BY <1>1, <1>5, <1>6, <1>7, <2>2, <2>3, <2>4, <3>1, <3>2, <3>3 DEF NearFrom
  <2>6. NearAhead(t, n, M)
    <3> SUFFICES ASSUME NEW p \in Near(t, n, M), Content(p) \in BindStates, WillRun(p),
                        bind[Content(p)].fun = "user"
                 PROVE  \E q \in AllPlaces : Content(q)' = Content(p) /\ WillRun(q)'
      BY DEF NearAhead, IInv, TypeOK
    <3>1. \A k \in Pointers : ~WillRun(FramePlace(t, n, k))
      BY <1>1, <1>2, RunsFrom DEF Pointers
    <3>2. PICK x \in M, k \in Members : p = MemberPlace(x, k)
      BY <1>2, <1>3, <3>1 DEF Near
    <3>3. x \in BindStates /\ k = "first" /\ bind[x].fun = "runner"
      BY <3>2, RunsFrom DEF Members
    <3>4. WillRun(MemberPlace(x, k))'
      BY <1>7, <3>3, NextRunsFrom
    <3>5. Content(p) = bind[x][k] /\ Content(MemberPlace(x, k))' = bind'[x][k] /\ p \in AllPlaces
      BY <3>2, <3>3, ContentOf, NextContentOf, PlaceKinds
    <3> QED BY <1>7, <3>2, <3>3, <3>4, <3>5 DEF Members
  <2> QED BY <2>5, <2>6
<1>8. Shape(NoFrame) /\ NoFrame.at = "none" /\ NoFrame.hold = Null /\ NoFrame.a = Null /\ NoFrame.b = Null
  BY NewFrames DEF NoFrame
<1>9. \A f, M : f.at # "invoke" => Callable(t, n, f, NoFrame, from, {})
  BY <1>3, <1>5, <1>8 DEF Callable
<1>10. CASE o = Null \/ ~IsLast(o)
  <2>1. Pop(t) /\ bind' = bind
    BY <1>0, <1>10 DEF ReleaseRef
  <2>2. frames' \in [Threads -> Seq(FrameType)] /\ Changed(t, n, NoFrame, NoFrame)
    BY <1>1, <1>2, <2>1, PopView DEF IInv
  <2>3. o = Null \/ \E q \in AllPlaces : Content(q) = o /\ q # own
    BY <1>3, <1>4, <1>10, LastPlace DEF IInv, OrNull
  <2>4. NearFrom(t, n, {}, NoFrame, NoFrame, from) /\ NearAhead(t, n, {})
    BY <1>7, <1>8, <2>1, <2>2, <2>3
  <2>5. Apart' /\ ScopedAreAhead'
    <3>1. Quiet /\ UNCHANGED scoped
      BY <1>1, <2>1 DEF Quiet
    <3> QED BY <1>8, <1>9, <2>4, <3>1, NearQuiet
  <2> QED BY <1>1, <2>1, <2>2, <2>5 DEF Consistent, Typed, IInv, TypeOK
<1>11. CASE o # Null /\ IsLast(o)
  <2> DEFINE f == Frame("destroy", o, Null, Null, Null)
  <2>1. Become(t, f) /\ bind' = [bind EXCEPT ![o].life = "dying"] /\ o \in BindStates
    BY <1>0, <1>3, <1>11 DEF ReleaseRef, OrNull
  <2>2. /\ f \in FrameType /\ Shape(f) /\ f.at = "destroy" /\ f.bs = o
        /\ f.hold = Null /\ f.a = Null /\ f.b = Null
    BY <1>3, <2>1 DEF Frame, FrameType, Shape, OrNull
  <2> HIDE DEF f
  <2>3. frames' \in [Threads -> Seq(FrameType)] /\ Changed(t, n, f, NoFrame)
    BY <1>1, <1>2, <2>1, <2>2, BecomeView DEF IInv
  <2>4. /\ bind' \in [BindStates -> BindType]
        /\ bind'[o] = [bind[o] EXCEPT !.life = "dying"]
        /\ \A x \in BindStates \ {o} : bind'[x] = bind[x]
    <3>1. bind \in [BindStates -> BindType] /\ bind[o] \in BindType
      BY <2>1 DEF IInv, TypeOK
    <3>2. [bind[o] EXCEPT !.life = "dying"] \in BindType
      BY <3>1 DEF BindType
    <3>3. PICK r : r = [bind[o] EXCEPT !.life = "dying"]
      OBVIOUS
    <3>4. bind' = [bind EXCEPT ![o] = r] /\ r \in BindType
      BY <2>1, <3>2, <3>3
    <3> QED BY <2>1, <3>1, <3>3, <3>4
  <2>5. /\ \A k \in Members : bind'[o][k] = bind[o][k]
        /\ bind'[o].fun = bind[o].fun /\ bind'[o].once = bind[o].once /\ bind'[o].has_run = bind[o].has_run
        /\ bind'[o].life = "dying"
    <3>1. bind[o] \in BindType
      BY <2>1 DEF IInv, TypeOK
    <3> QED BY <2>4, <3>1 DEF Members, BindType
  <2>6. \A q \in AllPlaces : Content(q) = o => q = own
    BY <1>4, <1>11, <2>1, LastPlace DEF IInv
  <2>7. bind[o].life = "live"
    BY <1>4, <2>1 DEF IInv, LiveIsHeld, Held
  <2>8. NearFrom(t, n, {o}, f, NoFrame, from) /\ NearAhead(t, n, {o})
    <3>1. \A x \in BindStates : bind'[x].fun = bind[x].fun
      BY <2>4, <2>5
    <3>2. \A x \in BindStates, k \in Members : bind'[x][k] = bind[x][k]
      BY <2>4, <2>5
    <3>3. {o} \in SUBSET BindStates /\ bind'[o].life # "live"
      BY <2>1, <2>5
    <3> QED BY <1>7, <2>2, <2>3, <2>4, <3>1, <3>2, <3>3
  <2>9. Evolves(o)
    BY <1>1, <2>1, <2>4, <2>5, <2>7 DEF Evolves, IInv, AsMade, MadeOf, RunsOnce, Members
  <2>10. \A p \in AllPlaces : Content(from[p]) # o
    BY <1>3, <1>5, <2>1, <2>6
  <2>11. WinsOnce(t, n, f, o)
    <3>1. ASSUME NEW u \in Threads, NEW i \in Levels, Winner(u, i), Fr(u, i).bs = o PROVE u = t /\ i = n
      <4>1. Fr(u, i).hold = o
        BY <3>1 DEF IInv, Shapes, Shape, Winner
      <4>2. Content(FramePlace(u, i, "hold")) = o /\ FramePlace(u, i, "hold") \in AllPlaces
        BY <2>1, <4>1, ContentOf, PlaceKinds DEF Referred
      <4> QED BY <2>6, <4>2, PlacesAreDistinct
    <3> QED BY <2>2, <3>1 DEF WinsOnce
  <2>12. Destroys(f, o)
    BY <2>2, <2>5 DEF Destroys
  <2>13. Apart' /\ ScopedAreAhead'
    <3>1. UNCHANGED scoped /\ bind[o].life # "none"
      BY <1>1, <2>7
    <3>2. \A k \in Members : bind'[o][k] = bind[o][k]
      BY <2>5
    <3> QED BY <1>8, <1>9, <2>1, <2>2, <2>5, <2>8, <2>9, <2>10, <2>11, <2>12, <3>1, <3>2, NearStep
  <2>14. Typed'
    BY <1>1, <2>3, <2>4 DEF Typed, IInv, TypeOK
  <2> QED BY <2>13, <2>14 DEF Consistent
<1> QED BY <1>10, <1>11

\* Nothing refers to a bind state that is being destroyed.
LEMMA NotReferred ==
  ASSUME IInv, NEW o \in BindStates, bind[o].life # "live"
  PROVE  /\ \A p \in AllPlaces : Content(p) # o
         /\ \A u \in Threads, i \in Levels : ~(Winner(u, i) /\ Fr(u, i).bs = o)
<1>1. \A p \in AllPlaces : Content(p) # o
  BY DEF IInv, LiveIsHeld, Held
<1>2. ASSUME NEW u \in Threads, NEW i \in Levels, Winner(u, i), Fr(u, i).bs = o PROVE FALSE
  <2>1. Fr(u, i).hold = o
    BY <1>2 DEF IInv, Shapes, Shape, Winner
  <2>2. Content(FramePlace(u, i, "hold")) = o /\ FramePlace(u, i, "hold") \in AllPlaces
    BY <2>1, ContentOf, PlaceKinds DEF Referred
  <2> QED BY <1>1, <2>2
<1> QED BY <1>1, <1>2

\* One bind state is assigned.
LEMMA OneChanges ==
  ASSUME IInv, NEW o \in BindStates, NEW r \in BindType, bind' = [bind EXCEPT ![o] = r]
  PROVE  bind' \in [BindStates -> BindType] /\ bind'[o] = r /\ \A x \in BindStates \ {o} : bind'[x] = bind[x]
BY DEF IInv, TypeOK

\* A bind state is destroyed member by member.
LEMMA DestroyKeeps ==
  ASSUME IInv, NEW t \in Threads, Destroy(t) PROVE Consistent'
<1>1. frames[t] # <<>> /\ Top(t).at = "destroy" /\ UNCHANGED <<var, valid, runs, cancelled, scoped, crash>>
  BY DEF Destroy, At
<1>2. PICK n \in Levels :
        /\ n = Depth(t) /\ n + 1 \in Levels
        /\ Fr(t, n) = Top(t) /\ Fr(t, n + 1) = NoFrame
        /\ Top(t) \in FrameType /\ Shape(Top(t))
        /\ \A k \in Pointers : /\ FramePlace(t, n, k) \in AllPlaces /\ FramePlace(t, n + 1, k) \in AllPlaces
                               /\ Content(FramePlace(t, n, k)) = Referred(Top(t)[k])
                               /\ Content(FramePlace(t, n + 1, k)) = Null
  BY <1>1, TopOf
<1>3. PICK o \in BindStates : o = Top(t).bs
  BY <1>1, <1>2 DEF Shape
<1>4. Null \notin BindStates /\ Top(t).hold = Null /\ Top(t).a = Null /\ Top(t).b = Null
  BY <1>1, <1>2, NullAssumption DEF Shape
<1>5. bind[o].life \in {"dying", "dead"} /\ bind[o] \in BindType
  BY <1>1, <1>2, <1>3 DEF IInv, DestroyedIsDying, TypeOK
<1>6. /\ \A p \in AllPlaces : Content(p) # o
      /\ \A u \in Threads, i \in Levels : ~(Winner(u, i) /\ Fr(u, i).bs = o)
  BY <1>5, NotReferred
<1>7. /\ Shape(NoFrame) /\ NoFrame.at = "none" /\ NoFrame.hold = Null /\ NoFrame.a = Null /\ NoFrame.b = Null
      /\ \A k \in Pointers : ~WillRun(FramePlace(t, n, k)) /\ ~WillRun(FramePlace(t, n + 1, k))
  BY <1>1, <1>2, NewFrames, RunsFrom DEF NoFrame, Pointers
<1>8. CASE /\ bind[o].first = Null /\ bind[o].second = Null
           /\ bind' = [bind EXCEPT ![o].life = "dead"]
           /\ Pop(t)
  <2>1. frames' \in [Threads -> Seq(FrameType)] /\ Changed(t, n, NoFrame, NoFrame)
    BY <1>1, <1>2, <1>8, PopView DEF IInv
  <2>2. PICK r : r = [bind[o] EXCEPT !.life = "dead"]
    OBVIOUS
  <2>3. r \in BindType /\ bind' = [bind EXCEPT ![o] = r]
        /\ r.life = "dead" /\ r.once = bind[o].once /\ r.fun = bind[o].fun /\ r.has_run = bind[o].has_run
        /\ r.first = bind[o].first /\ r.second = bind[o].second
    BY <1>5, <1>8, <2>2 DEF BindType
  <2>4. bind' \in [BindStates -> BindType] /\ bind'[o] = r /\ \A x \in BindStates \ {o} : bind'[x] = bind[x]
    BY <2>3, OneChanges
  <2>5. NearFrom(t, n, {o}, NoFrame, NoFrame, Stay)
    <3>1. \A k \in Pointers : Referred(NoFrame[k]) = Referred(Fr(t, n)[k])
      BY <1>2, <1>4, <1>7 DEF Pointers
    <3>2. \A x \in {o}, k \in Members : bind'[x][k] = bind[x][k]
      BY <2>3, <2>4 DEF Members
    <3> QED BY <1>1, <1>2, <2>1, <2>4, <3>1, <3>2, StayIsNear DEF IInv
  <2>6. \A p \in AllPlaces : Stay[p] = p
    BY DEF Stay
  <2>7. Evolves(o)
    BY <1>1, <1>5, <2>3, <2>4 DEF Evolves, IInv, AsMade, MadeOf, RunsOnce
  <2>8. NearAhead(t, n, {o})
    <3>1. \A k \in Members : Content(MemberPlace(o, k)) = Null
      BY <1>8, ContentOf DEF Members
    <3>2. Null \notin scoped
      BY <1>4 DEF IInv, TypeOK
    <3> QED BY <1>7, <3>1, <3>2 DEF Near, NearAhead
  <2>9. Callable(t, n, NoFrame, NoFrame, Stay, {}) /\ Destroys(NoFrame, o) /\ WinsOnce(t, n, NoFrame, o)
    BY <1>6, <1>7, <2>6 DEF Callable, Destroys, WinsOnce
  <2>10. Apart' /\ ScopedAreAhead'
    <3>1. (\A j \in Members : bind'[o][j] = bind[o][j]) /\ bind'[o].life # "live" /\ bind[o].life # "none"
          /\ UNCHANGED scoped
      BY <1>1, <1>5, <2>3, <2>4 DEF Members
    <3>2. \A p \in AllPlaces : Content(Stay[p]) # o
      BY <1>6, <2>6
    <3> QED BY <1>7, <2>5, <2>7, <2>8, <2>9, <3>1, <3>2, NearStep
  <2>11. Typed'
    BY <1>1, <2>1, <2>4 DEF Typed, IInv, TypeOK
  <2> QED BY <2>10, <2>11 DEF Consistent
<1>9. ASSUME NEW k \in {"first", "second"}, bind[o][k] # Null,
             bind' = [bind EXCEPT ![o][k] = Null],
             Push(t, IF RunsWhenDestroyed(o) THEN Call(bind[o][k])
                     ELSE Frame("release", Null, bind[o][k], Null, Null))
      PROVE  Consistent'
  <2>1. PICK c \in BindStates : c = bind[o][k]
    BY <1>5, <1>9 DEF BindType, OrNull
  <2>2. PICK g : g = IF RunsWhenDestroyed(o) THEN Call(c) ELSE Frame("release", Null, c, Null, Null)
    OBVIOUS
  <2>3. /\ g \in FrameType /\ Shape(g) /\ g.hold = c /\ g.a = Null /\ g.b = Null
        /\ g.at \in {"invoke", "release"} /\ (bind[o].fun = "runner" => g.at = "invoke")
    BY <2>2, NewFrames, CallReferences DEF Frame, RunsWhenDestroyed, OrNull, Call
  <2>4. frames' \in [Threads -> Seq(FrameType)] /\ Changed(t, n, Fr(t, n), g)
    BY <1>1, <1>2, <1>9, <2>1, <2>2, <2>3, PushView DEF IInv
  <2>5. PICK f : f = Fr(t, n)
    OBVIOUS
  <2>6. Changed(t, n, f, g) /\ Shape(f) /\ f.at = "destroy" /\ f.hold = Null /\ f.a = Null /\ f.b = Null
    BY <1>1, <1>2, <1>4, <2>4, <2>5
  <2>7. PICK r : r = [bind[o] EXCEPT ![k] = Null]
    OBVIOUS
  <2>8. r \in BindType /\ bind' = [bind EXCEPT ![o] = r]
        /\ r.life = bind[o].life /\ r.once = bind[o].once /\ r.fun = bind[o].fun /\ r.has_run = bind[o].has_run
        /\ r[k] = Null /\ \A j \in Members : j # k => r[j] = bind[o][j]
    BY <1>5, <1>9, <2>7 DEF BindType, Members, OrNull
  <2>9. bind' \in [BindStates -> BindType] /\ bind'[o] = r /\ \A x \in BindStates \ {o} : bind'[x] = bind[x]
    BY <2>8, OneChanges
  <2> DEFINE own == MemberPlace(o, k)
             top == FramePlace(t, n + 1, "hold")
             from == [Stay EXCEPT ![own] = Nowhere(t), ![top] = own]
  <2>10. Nowhere(t) \in AllPlaces /\ Content(Nowhere(t)) = Null
    BY NowhereIsNull
  <2>11. /\ own \in AllPlaces /\ top \in AllPlaces /\ own # top /\ Content(own) = c /\ MayRun(own)
         /\ \A j \in Pointers : FramePlace(t, n, j) \notin {own, top} /\ FramePlace(t, n + 1, j) # own
                                /\ (j # "hold" => FramePlace(t, n + 1, j) # top)
         /\ \A j \in Members : j # k => MemberPlace(o, j) \in AllPlaces \ {own, top}
    <3>1. own \in AllPlaces /\ Content(own) = c /\ MayRun(own) /\ k \in Members /\ "hold" \in Pointers
      BY <2>1, PlaceKinds, ContentOf, RunsFrom DEF Members, Pointers
    <3>2. \A j \in Members : j # k => MemberPlace(o, j) \in AllPlaces \ {own}
      BY PlaceKinds, PlacesAreDistinct DEF Members
    <3>3. TypeOK
      BY DEF IInv
    <3> QED BY <1>2, <3>1, <3>2, <3>3, TopFrames
  <2>12. /\ from \in [AllPlaces -> AllPlaces] /\ from[own] = Nowhere(t) /\ from[top] = own
         /\ \A p \in AllPlaces \ {own, top} : from[p] = p
    BY <2>10, <2>11 DEF Stay
  <2>13. Near(t, n, {o}) \subseteq AllPlaces /\ own \in Near(t, n, {o}) /\ top \in Near(t, n, {o})
    BY FarPlaces DEF IInv, Near, Members, Pointers
  <2> HIDE DEF from, own, top
  <2>14. NearFrom(t, n, {o}, f, g, from)
    <3>1. \A j \in Pointers : Referred(f[j]) = Content(from[FramePlace(t, n, j)])
      BY <1>2, <1>4, <2>5, <2>11, <2>12 DEF Pointers
    <3>2. \A j \in Pointers : Referred(g[j]) = Content(from[FramePlace(t, n + 1, j)])
      BY <1>2, <1>4, <2>3, <2>11, <2>12 DEF Pointers, Referred, top
    <3>3. \A x \in {o}, j \in Members : bind'[x][j] = Content(from[MemberPlace(x, j)])
      BY <2>8, <2>9, <2>10, <2>11, <2>12, ContentOf DEF Members, own
    <3>4. \A p \in Near(t, n, {o}) : from[p] \in Near(t, n, {o}) \/ Content(from[p]) = Null
      BY <2>10, <2>12, <2>13
    <3>5. \A p, q \in Near(t, n, {o}) : from[p] = from[q] /\ IsOnce(Content(from[p])) => p = q
      BY <1>4, <2>10, <2>11, <2>12, <2>13 DEF IsOnce
    <3>6. \A p \in Near(t, n, {o}) : Content(p) \in BindStates => \E q \in AllPlaces : Content(from[q]) = Content(p)
      <4>1. Content(top) = Null
        BY <1>2 DEF top, Pointers
      <4> QED BY <1>4, <2>11, <2>12, <2>13, <4>1
    <3>7. \A p \in AllPlaces \ Near(t, n, {o}) : from[p] = p
      BY <2>12, <2>13
    <3> QED BY <1>1, <2>6, <2>9, <2>12, <3>1, <3>2, <3>3, <3>4, <3>5, <3>6, <3>7 DEF NearFrom
  <2>15. Callable(t, n, f, g, from, {})
    BY <1>4, <2>6, <2>10, <2>11, <2>12 DEF Callable, top
  <2>16. Evolves(o)
    BY <1>1, <1>5, <2>8, <2>9 DEF Evolves, IInv, AsMade, MadeOf, RunsOnce, Members
  <2>17. NearAhead(t, n, {o})
    <3> SUFFICES ASSUME NEW p \in Near(t, n, {o}), Content(p) \in BindStates, WillRun(p)
                 PROVE  \E q \in AllPlaces : Content(q)' = Content(p) /\ WillRun(q)'
      BY DEF NearAhead, IInv, TypeOK
    <3>1. PICK j \in Members : p = MemberPlace(o, j)
      BY <1>7 DEF Near
    <3>2. j = "first" /\ bind[o].fun = "runner" /\ bind[o].second = Null
      BY <3>1, RunsFrom DEF Members, IInv, AsMade, MadeOf
    <3>3. k = "first" /\ Content(p) = c
      BY <1>9, <2>1, <3>1, <3>2, ContentOf DEF Members
    <3>4. Fr(t, n + 1)' = g
      BY <1>2, <2>6, TopFrames DEF Changed, IInv
    <3>5. Content(top)' = c /\ WillRun(top)'
      BY <1>2, <2>3, <3>2, <3>4, NextContentOf, NextRunsFrom DEF top, Referred, Pointers
    <3> QED BY <2>11, <3>3, <3>5
  <2>18. WinsOnce(t, n, f, o)
    BY <1>6, <2>6 DEF WinsOnce
  <2>19. Apart' /\ ScopedAreAhead'
    <3>1. bind'[o].life = bind[o].life /\ bind[o].life # "none" /\ UNCHANGED scoped
          /\ g.at \notin {"winner", "destroy"}
      BY <1>1, <1>5, <2>3, <2>8, <2>9
    <3>2. ~bind'[o].once /\ bind'[o].fun # "split" => \A j \in Members : bind'[o][j] \in {bind[o][j], Null}
      BY <2>8, <2>9
    <3>3. (\E p \in AllPlaces : Content(from[p]) = o /\ MayRun(p)')
            => (bind'[o].once => runs'[o] = 0) /\ Intact(o)'
      BY <1>6, <2>12
    <3>4. (f = Fr(t, n) \/ Destroys(f, o)) /\ Shape(f) /\ Shape(g)
      BY <2>3, <2>5, <2>6
    <3>5. \/ bind'[o].life = bind[o].life
          \/ bind'[o].life # "live" /\ \A p \in AllPlaces : Content(from[p]) # o
      BY <2>8, <2>9
    <3> QED BY <2>14, <2>15, <2>16, <2>17, <2>18, <3>1, <3>2, <3>3, <3>4, <3>5, NearStep
  <2>20. Typed'
    BY <1>1, <2>4, <2>9 DEF Typed, IInv, TypeOK
  <2> QED BY <2>19, <2>20 DEF Consistent
<1> QED BY <1>3, <1>8, <1>9 DEF Destroy

\* A bind state is called: its members go to the frame of the call, the first
\* to a call on top of it instead when it is a callback.
LEMMA InvokeMoves ==
  ASSUME IInv, NEW t \in Threads, frames[t] # <<>>, Top(t).at = "invoke",
         NEW o \in BindStates, o = Top(t).bs, bind[o].fun # "split", bind' = Unbound(o),
         UNCHANGED <<var, valid, cancelled, scoped, crash>>,
         NEW f, NEW g, NEW n \in Levels, n = Depth(t), Changed(t, n, f, g),
         Shape(f), f.at \in {"body", "return", "c1"}, f.hold = o, f.b = bind[o].second,
         Shape(g), g.at \in {"none", "invoke"}, g.a = Null, g.b = Null,
         \/ f.a = bind[o].first /\ g.hold = Null
         \/ f.a = Null /\ g.hold = bind[o].first,
         bind[o].fun = "runner" => f.at = "body" /\ f.a = bind[o].first,
         \A x \in BindStates \ {o} : runs'[x] = runs[x],
         bind[o].once => runs'[o] <= 1,
         runs'[o] = 0 => runs[o] = 0 /\ bind[o].fun # "user"
  PROVE  bind' \in [BindStates -> BindType] /\ Apart' /\ ScopedAreAhead'
<1>1. /\ n + 1 \in Levels
      /\ Fr(t, n) = Top(t) /\ Fr(t, n + 1) = NoFrame
      /\ Top(t) \in FrameType /\ Shape(Top(t))
      /\ \A k \in Pointers : /\ FramePlace(t, n, k) \in AllPlaces /\ FramePlace(t, n + 1, k) \in AllPlaces
                             /\ Content(FramePlace(t, n, k)) = Referred(Top(t)[k])
                             /\ Content(FramePlace(t, n + 1, k)) = Null
  BY TopOf
<1>2. TypeOK /\ Null \notin BindStates /\ Top(t).hold = o /\ Top(t).a = Null /\ Top(t).b = Null
      /\ bind[o] \in BindType
  BY <1>1, NullAssumption DEF Shape, IInv, TypeOK
<1>3. PICK c \in OrNull(BindStates) : c = bind[o].first
  BY <1>2 DEF BindType
<1>4. PICK d \in OrNull(BindStates) : d = bind[o].second
  BY <1>2 DEF BindType
<1> DEFINE held == FramePlace(t, n, "hold")
           one == FramePlace(t, n, "a")
           two == FramePlace(t, n, "b")
           top == FramePlace(t, n + 1, "hold")
           first == MemberPlace(o, "first")
           second == MemberPlace(o, "second")
<1>5. /\ {held, one, two, top, first, second} \subseteq AllPlaces
      /\ held # one /\ held # two /\ held # top /\ one # two /\ one # top /\ two # top
      /\ first # second
      /\ first \notin {held, one, two, top} /\ second \notin {held, one, two, top}
      /\ Content(held) = o /\ Content(one) = Null /\ Content(two) = Null /\ Content(top) = Null
      /\ Content(first) = c /\ Content(second) = d
      /\ MayRun(held) /\ MayRun(first) /\ MayRun(second)
      /\ ~WillRun(one) /\ ~WillRun(two) /\ ~WillRun(second)
      /\ WillRun(first) <=> bind[o].fun = "runner"
  <2>1. /\ {held, one, two, top, first, second} \subseteq AllPlaces
        /\ first # second
        /\ Content(first) = c /\ Content(second) = d /\ MayRun(first) /\ MayRun(second)
        /\ ~WillRun(second) /\ (WillRun(first) <=> bind[o].fun = "runner")
    BY <1>1, <1>3, <1>4, PlaceKinds, PlacesAreDistinct, ContentOf, RunsFrom DEF Pointers
  <2>2. /\ held # one /\ held # two /\ held # top /\ one # two /\ one # top /\ two # top
        /\ first \notin {held, one, two, top} /\ second \notin {held, one, two, top}
    <3>1. "first" \in Members /\ "second" \in Members /\ "hold" \in Pointers /\ "a" \in Pointers /\ "b" \in Pointers
      BY DEF Members, Pointers
    <3> HIDE DEF held, one, two, top, first, second
    <3>2. /\ \A k, l \in Pointers : /\ FramePlace(t, n, k) # FramePlace(t, n + 1, l)
                                     /\ FramePlace(t, n, k) = FramePlace(t, n, l) => k = l
          /\ \A j \in Members, k \in Pointers :
               MemberPlace(o, j) # FramePlace(t, n, k) /\ MemberPlace(o, j) # FramePlace(t, n + 1, k)
      BY <1>2, TopFrames
    <3>3. /\ held # one /\ held # two /\ held # top /\ one # two /\ one # top /\ two # top
      <4>1. ASSUME NEW k \in Pointers, NEW l \in Pointers
            PROVE  (k # l => FramePlace(t, n, k) # FramePlace(t, n, l)) /\ FramePlace(t, n, k) # FramePlace(t, n + 1, l)
        BY <1>2, TopFrames
      <4>2. held # one /\ held # two /\ one # two
        BY <3>1, <4>1 DEF held, one, two
      <4>3. held # top /\ one # top /\ two # top
        BY <3>1, <4>1 DEF held, one, two, top
      <4> QED BY <4>2, <4>3
    <3>4. first \notin {held, one, two, top}
      BY <3>1, <3>2 DEF held, one, two, top, first
    <3>5. second \notin {held, one, two, top}
      BY <3>1, <3>2 DEF held, one, two, top, second
    <3> QED BY <3>3, <3>4, <3>5
  <2>3. Content(held) = o /\ Content(one) = Null /\ Content(two) = Null /\ Content(top) = Null
    BY <1>1, <1>2 DEF Pointers, Referred
  <2>4. MayRun(held) /\ ~WillRun(one) /\ ~WillRun(two)
    BY <1>1, RunsFrom DEF Pointers
  <2> QED BY <2>1, <2>2, <2>3, <2>4
<1>6. Near(t, n, {o}) = {held, one, two, top, first, second, FramePlace(t, n + 1, "a"), FramePlace(t, n + 1, "b")}
  BY DEF Near, Members, Pointers
<1>7. PICK taker \in {one, top} : /\ f.a = (IF taker = one THEN c ELSE Null)
                                  /\ g.hold = (IF taker = one THEN Null ELSE c)
                                  /\ bind[o].fun = "runner" => taker = one
  BY <1>3, <1>5
<1>8. /\ bind[o].life = "live" /\ MadeOf(bind[o]) /\ Unspent(o)
      /\ \A p \in AllPlaces : bind[o].once /\ Content(p) = o => p = held
      /\ bind[o].once \/ (~IsOnce(c) /\ ~IsOnce(d))
  BY <1>3, <1>4, <1>5 DEF IInv, LiveIsHeld, Held, AsMade, SpentOnlyOnce, OnePlace, IsOnce, CopiesAreRepeating
<1> DEFINE kept(p) == IF bind[o].once THEN Nowhere(t) ELSE p
<1>9. PICK from \in [AllPlaces -> AllPlaces] :
        /\ from[taker] = first /\ from[two] = second /\ from[first] = kept(first) /\ from[second] = kept(second)
        /\ \A p \in AllPlaces \ {taker, two, first, second} : from[p] = p
  <2> DEFINE fr == [Stay EXCEPT ![taker] = first, ![two] = second, ![first] = kept(first), ![second] = kept(second)]
  <2>1. kept(first) \in AllPlaces /\ kept(second) \in AllPlaces
    BY <1>5, NowhereIsNull
  <2>2. taker \in AllPlaces /\ taker # two /\ taker # first /\ taker # second
    BY <1>5
  <2> HIDE DEF kept, held, one, two, top, first, second
  <2>3. /\ fr \in [AllPlaces -> AllPlaces]
        /\ fr[taker] = first /\ fr[two] = second /\ fr[first] = kept(first) /\ fr[second] = kept(second)
        /\ \A p \in AllPlaces \ {taker, two, first, second} : fr[p] = p
    BY <1>5, <2>1, <2>2 DEF Stay
  <2> HIDE DEF fr
  <2> QED BY <2>3
<1>10. /\ bind' \in [BindStates -> BindType]
       /\ bind'[o].life = "live" /\ bind'[o].once = bind[o].once /\ bind'[o].fun = bind[o].fun
       /\ bind'[o].has_run = bind[o].has_run
       /\ bind'[o].first = (IF bind[o].once THEN Null ELSE c)
       /\ bind'[o].second = (IF bind[o].once THEN Null ELSE d)
       /\ \A x \in BindStates \ {o} : bind'[x] = bind[x]
       /\ ~bind[o].once => bind'[o] = bind[o]
  <2>1. PICK r : r = [bind[o] EXCEPT !.first = IF bind[o].once THEN Null ELSE @,
                                     !.second = IF bind[o].once THEN Null ELSE @]
    OBVIOUS
  <2>2. bind' = [bind EXCEPT ![o] = r]
    BY <1>2, <2>1 DEF Unbound, MovedFrom, IInv, TypeOK
  <2>3. /\ r \in BindType /\ r.life = bind[o].life /\ r.once = bind[o].once /\ r.fun = bind[o].fun
        /\ r.has_run = bind[o].has_run
        /\ r.first = (IF bind[o].once THEN Null ELSE c) /\ r.second = (IF bind[o].once THEN Null ELSE d)
        /\ ~bind[o].once => r = bind[o]
    BY <1>2, <1>3, <1>4, <2>1 DEF BindType, OrNull
  <2> QED BY <1>8, <2>2, <2>3, OneChanges
<1>11. kept(first) \in AllPlaces /\ kept(second) \in AllPlaces
       /\ Content(kept(first)) = bind'[o].first /\ Content(kept(second)) = bind'[o].second
  BY <1>5, <1>10, NowhereIsNull
<1>12. NearFrom(t, n, {o}, f, g, from)
  <2>1. \A k \in Pointers : Referred(f[k]) = Content(from[FramePlace(t, n, k)])
    BY <1>2, <1>3, <1>4, <1>5, <1>7, <1>9 DEF Pointers, Referred, OrNull
  <2>2. \A k \in Pointers : Referred(g[k]) = Content(from[FramePlace(t, n + 1, k)])
    <3>1. \A k \in Pointers : k # "hold" => FramePlace(t, n + 1, k) \notin {taker, two, first, second}
      BY <1>2, <1>5, TopFrames DEF Pointers, Members
    <3>2. Referred(g.hold) = Content(from[top])
      BY <1>2, <1>3, <1>5, <1>7, <1>9 DEF Referred, OrNull
    <3> QED BY <1>1, <1>2, <1>9, <3>1, <3>2 DEF Pointers, Referred
  <2>3. \A x \in {o}, k \in Members : bind'[x][k] = Content(from[MemberPlace(x, k)])
    BY <1>9, <1>11 DEF Members
  <2> HIDE DEF held, one, two, top, first, second, kept
  <2>4. Near(t, n, {o}) \subseteq AllPlaces /\ taker \in {one, top}
        /\ {taker, two, first, second} \subseteq Near(t, n, {o})
    BY <1>6, <1>7, FarPlaces, <1>2
  <2>5. IF bind[o].once THEN kept(first) = Nowhere(t) ELSE kept(first) = first
    BY DEF kept
  <2>6. IF bind[o].once THEN kept(second) = Nowhere(t) ELSE kept(second) = second
    BY DEF kept
  <2>7. Content(Nowhere(t)) = Null
    BY NowhereIsNull
  <2>8. \A p \in Near(t, n, {o}) : from[p] \in Near(t, n, {o}) \/ Content(from[p]) = Null
    BY <1>9, <2>4, <2>5, <2>6, <2>7
  <2>9. ASSUME NEW p \in Near(t, n, {o}), NEW q \in Near(t, n, {o}), from[p] = from[q], IsOnce(Content(from[p]))
        PROVE  p = q
    <3>1. ~IsOnce(Null)
      BY <1>2 DEF IsOnce
    <3>2. from[p] # Nowhere(t)
      BY <2>7, <2>9, <3>1
    <3>3. ~bind[o].once => from[p] # first /\ from[p] # second
      BY <1>5, <1>8, <2>9
    <3>4. \A x \in AllPlaces : from[x] # Nowhere(t) =>
            \/ x = taker /\ from[x] = first
            \/ x = two /\ from[x] = second
            \/ x = first /\ from[x] = first /\ ~bind[o].once
            \/ x = second /\ from[x] = second /\ ~bind[o].once
            \/ x \notin {taker, two, first, second} /\ from[x] = x
      BY <1>9, <2>5, <2>6
    <3>5. p \in AllPlaces /\ q \in AllPlaces /\ from[q] # Nowhere(t)
      BY <2>4, <2>9, <3>2
    <3> QED BY <1>5, <2>9, <3>2, <3>3, <3>4, <3>5
  <2>10. ASSUME NEW p \in Near(t, n, {o}), Content(p) \in BindStates
         PROVE  \E q \in AllPlaces : Content(from[q]) = Content(p)
    <3>1. p \in {held, first, second}
      BY <1>1, <1>2, <1>5, <1>6, <2>10 DEF Pointers
    <3>2. taker \in AllPlaces /\ two \in AllPlaces /\ held \in AllPlaces /\ held \notin {taker, two, first, second}
      BY <1>5, <2>4
    <3> QED BY <1>9, <3>1, <3>2
  <2>11. \A p \in AllPlaces \ Near(t, n, {o}) : from[p] = p
    BY <1>9, <2>4
  <2> QED BY <1>10, <2>1, <2>2, <2>3, <2>8, <2>9, <2>10, <2>11 DEF NearFrom
<1>13. Callable(t, n, f, g, from, {})
  <2>1. f.at # "invoke" /\ MayRun(from[two]) /\ MayRun(from[taker])
    BY <1>5, <1>9
  <2>2. ASSUME NEW p \in AllPlaces
        PROVE  from[p] = p \/ Content(from[p]) = Null \/ MayRun(from[p])
    BY <1>5, <1>9, <2>1, NowhereIsNull
  <2>3. g.hold # Null => MayRun(from[top])
    BY <1>7, <2>1
  <2> QED BY <2>1, <2>2, <2>3 DEF Callable
<1>14. Evolves(o)
  BY <1>2, <1>3, <1>4, <1>8, <1>10 DEF Evolves, MadeOf
<1>15. WinsOnce(t, n, f, o)
  BY DEF WinsOnce, IInv, WinnersRun, HasOriginal
<1>16. Fr(t, n)' = f /\ Fr(t, n + 1)' = g
  BY <1>1, <1>2, TopFrames DEF Changed
<1>17. NearAhead(t, n, {o})
  <2> SUFFICES ASSUME NEW p \in Near(t, n, {o}), Content(p) \in BindStates, WillRun(p),
                      bind[Content(p)].fun = "user", runs'[Content(p)] = 0
               PROVE  \E q \in AllPlaces : Content(q)' = Content(p) /\ WillRun(q)'
    BY DEF NearAhead, IInv, TypeOK
  <2>1. p \in {held, first}
    BY <1>1, <1>2, <1>5, <1>6 DEF Pointers
  <2>2. p # held
    BY <1>5
  <2>3. bind[o].fun = "runner" /\ Content(p) = c /\ f.a = c /\ f.at = "body"
    BY <1>3, <1>5, <2>1, <2>2
  <2>4. Content(one)' = c /\ WillRun(one)'
    BY <1>1, <1>16, <2>3, NextContentOf, NextRunsFrom DEF Pointers, Referred
  <2> QED BY <1>5, <2>3, <2>4
<1>18. ASSUME NEW p \in AllPlaces, Content(from[p]) = o, MayRun(p)'
       PROVE  (bind'[o].once => runs'[o] = 0) /\ Intact(o)'
  <2>1. CASE bind[o].once
    <3>1. from[p] = held
      BY <1>8, <1>18, <2>1
    <3>2. p = held
      BY <1>2, <1>5, <1>7, <1>9, <2>1, <3>1, NowhereIsNull
    <3>3. ~MayRun(held)'
      BY <1>1, <1>16, NextRunsFrom DEF Pointers
    <3> QED BY <1>18, <3>2, <3>3
  <2>2. CASE ~bind[o].once
    BY <1>8, <1>10, <2>2 DEF Unspent, Intact
  <2> QED BY <2>1, <2>2
<1>19. Apart' /\ ScopedAreAhead'
  <2>1. \/ bind'[o].life = bind[o].life
        \/ bind'[o].life # "live" /\ \A p \in AllPlaces : Content(from[p]) # o
    BY <1>8, <1>10
  <2>2. ~bind'[o].once /\ bind'[o].fun # "split" => \A k \in Members : bind'[o][k] \in {bind[o][k], Null}
    BY <1>10
  <2>3. (f = Fr(t, n) \/ Destroys(f, o)) /\ g.at \notin {"winner", "destroy"} /\ bind[o].life # "none"
    BY <1>8 DEF Destroys
  <2>4. (\E p \in AllPlaces : Content(from[p]) = o /\ MayRun(p)')
          => (bind'[o].once => runs'[o] = 0) /\ Intact(o)'
    BY <1>18
  <2> QED BY <1>12, <1>13, <1>14, <1>15, <1>17, <2>1, <2>2, <2>3, <2>4, NearStep
<1> QED BY <1>10, <1>19

\* What is there when a bind state is about to be invoked.
LEMMA InvokedIs ==
  ASSUME IInv, NEW t \in Threads, frames[t] # <<>>, Top(t).at = "invoke"
  PROVE  \E o \in BindStates :
           /\ o = Top(t).bs /\ Top(t).hold = o /\ Top(t).a = Null /\ Top(t).b = Null
           /\ Top(t) \in FrameType /\ Null \notin BindStates
           /\ bind[o] \in BindType /\ MadeOf(bind[o]) /\ Unspent(o) /\ bind[o].life = "live"
           /\ runs[o] \in 0 .. 2
<1>1. PICK n \in Levels :
        /\ n = Depth(t) /\ n + 1 \in Levels
        /\ Fr(t, n) = Top(t) /\ Fr(t, n + 1) = NoFrame
        /\ Top(t) \in FrameType /\ Shape(Top(t))
        /\ \A k \in Pointers : /\ FramePlace(t, n, k) \in AllPlaces /\ FramePlace(t, n + 1, k) \in AllPlaces
                               /\ Content(FramePlace(t, n, k)) = Referred(Top(t)[k])
                               /\ Content(FramePlace(t, n + 1, k)) = Null
  BY TopOf
<1>2. PICK o \in BindStates : o = Top(t).bs
  BY <1>1 DEF Shape
<1>3. Top(t).hold = o /\ Top(t).a = Null /\ Top(t).b = Null
  BY <1>1, <1>2 DEF Shape
<1>4. FramePlace(t, n, "hold") \in AllPlaces /\ Content(FramePlace(t, n, "hold")) = o /\ MayRun(FramePlace(t, n, "hold"))
  BY <1>1, <1>3, RunsFrom DEF Pointers, Referred
<1>5. bind[o] \in BindType /\ MadeOf(bind[o]) /\ runs[o] \in 0 .. 2
  BY DEF IInv, TypeOK, AsMade
<1>6. Unspent(o) /\ bind[o].life = "live"
  BY <1>4 DEF IInv, SpentOnlyOnce, LiveIsHeld, Held
<1> QED BY <1>1, <1>2, <1>3, <1>5, <1>6, NullAssumption

\* A functor is called with what was bound.
LEMMA InvokeFunctionKeeps ==
  ASSUME IInv, NEW t \in Threads, InvokeFunction(t) PROVE Consistent'
<1>1. frames[t] # <<>> /\ Top(t).at = "invoke"
  BY DEF InvokeFunction, At
<1>2. PICK o \in BindStates :
        /\ o = Top(t).bs /\ Top(t).hold = o /\ Top(t).a = Null /\ Top(t).b = Null
        /\ Top(t) \in FrameType /\ Null \notin BindStates
        /\ bind[o] \in BindType /\ MadeOf(bind[o]) /\ Unspent(o) /\ bind[o].life = "live"
        /\ runs[o] \in 0 .. 2
  BY <1>1, InvokedIs
<1>3. bind[o].fun \in {"user", "weak", "runner"}
  BY <1>2 DEF InvokeFunction
<1>4. CASE bind[o].fun = "weak" /\ t # Owner
  BY <1>2, <1>4, FailKeeps DEF InvokeFunction
<1>5. CASE ~(bind[o].fun = "weak" /\ t # Owner) /\ ~IsReceiver(o)
  <2>1. PICK f : f = [Top(t) EXCEPT !.at = "return"]
    OBVIOUS
  <2>2. Become(t, f) /\ UNCHANGED <<var, bind, valid, runs, cancelled, scoped, crash>>
    BY <1>2, <1>5, <2>1 DEF InvokeFunction
  <2>3. f \in FrameType /\ f.at = "return" /\ Shape(f) /\ \A k \in Pointers : f[k] = Top(t)[k]
    BY <1>1, <1>2, <2>1 DEF FrameType, Shape, Pointers, OrNull
  <2>4. bind[Top(t).bs].fun # "user"
    BY <1>2, <1>5 DEF IsReceiver
  <2>5. Quiet /\ UNCHANGED <<var, scoped>>
    BY <2>2 DEF Quiet
  <2> QED BY <1>1, <2>2, <2>3, <2>4, <2>5, FrameGoesOn
<1>6. CASE ~(bind[o].fun = "weak" /\ t # Owner) /\ IsReceiver(o)
  <2>1. PICK f : f = [Top(t) EXCEPT !.at = "body", !.a = bind[o].first]
    OBVIOUS
  <2>2. /\ Become(t, f) /\ bind' = Unbound(o)
        /\ runs' = [runs EXCEPT ![o] = IF @ < 2 THEN @ + 1 ELSE @]
        /\ UNCHANGED <<var, valid, cancelled, scoped, crash>>
    BY <1>2, <1>6, <2>1 DEF InvokeFunction
  <2>3. bind[o].first \in OrNull(BindStates) /\ bind[o].second = Null
    BY <1>2, <1>3 DEF MadeOf, BindType
  <2>4. /\ f \in FrameType /\ f.at = "body" /\ Shape(f) /\ f.hold = o /\ f.a = bind[o].first
        /\ f.b = bind[o].second
    BY <1>1, <1>2, <2>1, <2>3 DEF FrameType, Shape, OrNull
  <2>5. PICK n \in Levels : n = Depth(t)
    BY <1>1, TopOf
  <2>6. frames' \in [Threads -> Seq(FrameType)] /\ Changed(t, n, f, NoFrame)
    BY <1>1, <2>2, <2>4, <2>5, BecomeView DEF IInv
  <2>7. /\ \A x \in BindStates \ {o} : runs'[x] = runs[x]
        /\ runs' \in [BindStates -> 0 .. 2] /\ runs'[o] # 0
        /\ bind[o].once => runs'[o] <= 1
    <3>1. runs \in [BindStates -> 0 .. 2] /\ (bind[o].once => runs[o] = 0)
      BY <1>2 DEF IInv, TypeOK, Unspent
    <3>2. runs'[o] = IF runs[o] < 2 THEN runs[o] + 1 ELSE runs[o]
      BY <1>2, <2>2, <3>1
    <3>3. runs'[o] \in 0 .. 2 /\ runs'[o] # 0 /\ (bind[o].once => runs'[o] <= 1)
      BY <1>2, <3>1, <3>2
    <3> QED BY <2>2, <3>1, <3>3
  <2>8. PICK g : g = NoFrame
    OBVIOUS
  <2>9. Shape(g) /\ g.at = "none" /\ g.hold = Null /\ g.a = Null /\ g.b = Null /\ Changed(t, n, f, g)
    BY <2>6, <2>8, NewFrames DEF NoFrame
  <2>10. bind' \in [BindStates -> BindType] /\ Apart' /\ ScopedAreAhead'
    <3>1. bind[o].fun # "split" /\ (bind[o].fun = "runner" => f.at = "body" /\ f.a = bind[o].first)
      BY <1>3, <2>4
    <3> QED BY <1>1, <1>2, <2>2, <2>4, <2>5, <2>7, <2>9, <3>1, InvokeMoves
  <2> QED BY <2>2, <2>6, <2>7, <2>10 DEF Consistent, Typed, IInv, TypeOK
<1> QED BY <1>4, <1>5, <1>6

\* A callback bound as a functor is called.
LEMMA InvokeCallbackKeeps ==
  ASSUME IInv, NEW t \in Threads, InvokeCallback(t) PROVE Consistent'
<1>1. frames[t] # <<>> /\ Top(t).at = "invoke"
  BY DEF InvokeCallback, At
<1>2. PICK o \in BindStates :
        /\ o = Top(t).bs /\ Top(t).hold = o /\ Top(t).a = Null /\ Top(t).b = Null
        /\ Top(t) \in FrameType /\ Null \notin BindStates
        /\ bind[o] \in BindType /\ MadeOf(bind[o]) /\ Unspent(o) /\ bind[o].life = "live"
        /\ runs[o] \in 0 .. 2
  BY <1>1, InvokedIs
<1>3. PICK f : f = [Top(t) EXCEPT !.at = "return"]
  OBVIOUS
<1>4. PICK g : g = Call(bind[o].first)
  OBVIOUS
<1>5. /\ BecomeAndPush(t, f, g) /\ bind' = Unbound(o) /\ bind[o].fun = "callback"
      /\ UNCHANGED <<var, valid, runs, cancelled, scoped, crash>>
  BY <1>2, <1>3, <1>4 DEF InvokeCallback
<1>6. bind[o].first \in BindStates /\ bind[o].second = Null
  BY <1>2, <1>5 DEF MadeOf, BindType, Unspent, Intact, OrNull
<1>7. /\ f \in FrameType /\ f.at = "return" /\ Shape(f) /\ f.hold = o /\ f.a = Null
      /\ f.b = bind[o].second
  BY <1>1, <1>2, <1>3, <1>6 DEF FrameType, Shape, OrNull
<1>8. /\ g \in FrameType /\ Shape(g) /\ g.at = "invoke" /\ g.hold = bind[o].first
      /\ g.a = Null /\ g.b = Null
  BY <1>4, <1>6, NewFrames DEF Call, Kept, Frame
<1>9. PICK n \in Levels : n = Depth(t)
  BY <1>1, TopOf
<1>10. frames' \in [Threads -> Seq(FrameType)] /\ Changed(t, n, f, g)
  BY <1>1, <1>5, <1>7, <1>8, <1>9, BecomeAndPushView DEF IInv
<1>11. bind' \in [BindStates -> BindType] /\ Apart' /\ ScopedAreAhead'
  <2>1. bind[o].once => runs'[o] <= 1
    BY <1>2, <1>5 DEF Unspent
  <2> QED BY <1>1, <1>2, <1>5, <1>7, <1>8, <1>9, <1>10, <2>1, InvokeMoves
<1> QED BY <1>5, <1>10, <1>11 DEF Consistent, Typed, IInv, TypeOK

\* The two callbacks of Then() are taken.
LEMMA InvokeThenKeeps ==
  ASSUME IInv, NEW t \in Threads, InvokeThen(t) PROVE Consistent'
<1>1. frames[t] # <<>> /\ Top(t).at = "invoke"
  BY DEF InvokeThen, At
<1>2. PICK o \in BindStates :
        /\ o = Top(t).bs /\ Top(t).hold = o /\ Top(t).a = Null /\ Top(t).b = Null
        /\ Top(t) \in FrameType /\ Null \notin BindStates
        /\ bind[o] \in BindType /\ MadeOf(bind[o]) /\ Unspent(o) /\ bind[o].life = "live"
        /\ runs[o] \in 0 .. 2
  BY <1>1, InvokedIs
<1>3. PICK f : f = [Top(t) EXCEPT !.at = "c1", !.a = bind[o].first, !.b = bind[o].second]
  OBVIOUS
<1>4. PICK g : g = NoFrame
  OBVIOUS
<1>5. /\ Become(t, f) /\ bind' = Unbound(o) /\ bind[o].fun = "then"
      /\ UNCHANGED <<var, valid, runs, cancelled, scoped, crash>>
  BY <1>2, <1>3 DEF InvokeThen
<1>6. bind[o].first \in OrNull(BindStates) /\ bind[o].second \in BindStates
  BY <1>2, <1>5 DEF BindType, Unspent, Intact, OrNull
<1>7. /\ f \in FrameType /\ f.at = "c1" /\ Shape(f) /\ f.hold = o /\ f.a = bind[o].first
      /\ f.b = bind[o].second
  BY <1>1, <1>2, <1>3, <1>6 DEF FrameType, Shape, OrNull
<1>8. Shape(g) /\ g.at = "none" /\ g.hold = Null /\ g.a = Null /\ g.b = Null
  BY <1>4, NewFrames DEF NoFrame
<1>9. PICK n \in Levels : n = Depth(t)
  BY <1>1, TopOf
<1>10. frames' \in [Threads -> Seq(FrameType)] /\ Changed(t, n, f, g)
  BY <1>1, <1>4, <1>5, <1>7, <1>9, BecomeView DEF IInv
<1>11. bind' \in [BindStates -> BindType] /\ Apart' /\ ScopedAreAhead'
  <2>1. bind[o].once => runs'[o] <= 1
    BY <1>2, <1>5 DEF Unspent
  <2> QED BY <1>1, <1>2, <1>5, <1>7, <1>8, <1>9, <1>10, <2>1, InvokeMoves
<1> QED BY <1>5, <1>10, <1>11 DEF Consistent, Typed, IInv, TypeOK

\* The first of the halves to run wins.
LEMMA InvokeSplitKeeps ==
  ASSUME IInv, NEW t \in Threads, InvokeSplit(t) PROVE Consistent'
<1>1. frames[t] # <<>> /\ Top(t).at = "invoke"
  BY DEF InvokeSplit, At
<1>2. PICK o \in BindStates :
        /\ o = Top(t).bs /\ Top(t).hold = o /\ Top(t).a = Null /\ Top(t).b = Null
        /\ Top(t) \in FrameType /\ Null \notin BindStates
        /\ bind[o] \in BindType /\ MadeOf(bind[o]) /\ Unspent(o) /\ bind[o].life = "live"
        /\ runs[o] \in 0 .. 2
  BY <1>1, InvokedIs
<1>3. bind[o].fun = "split" /\ ~bind[o].once
  BY <1>2 DEF InvokeSplit, MadeOf
<1>4. CASE ~FirstRun(o)
  BY <1>2, <1>4, FailKeeps DEF InvokeSplit
<1>5. CASE FirstRun(o)
  <2>1. PICK f : f = [Top(t) EXCEPT !.at = "winner"]
    OBVIOUS
  <2>2. PICK r : r = [bind[o] EXCEPT !.has_run = TRUE]
    OBVIOUS
  <2>3. /\ Become(t, f) /\ bind' = [bind EXCEPT ![o] = r]
        /\ UNCHANGED <<var, valid, runs, cancelled, scoped, crash>>
    BY <1>2, <1>5, <2>1, <2>2 DEF InvokeSplit
  <2>4. /\ f \in FrameType /\ f.at = "winner" /\ f.bs = o /\ Shape(f)
        /\ \A k \in Pointers : f[k] = Top(t)[k]
    BY <1>1, <1>2, <2>1 DEF FrameType, Shape, Pointers
  <2>5. /\ r \in BindType /\ r.life = bind[o].life /\ r.once = bind[o].once /\ r.fun = bind[o].fun
        /\ r.has_run /\ r.first = bind[o].first /\ r.second = bind[o].second
    BY <1>2, <2>2 DEF BindType
  <2>6. bind' \in [BindStates -> BindType] /\ bind'[o] = r /\ \A x \in BindStates \ {o} : bind'[x] = bind[x]
    BY <2>3, <2>5, OneChanges
  <2>7. ~bind[o].has_run /\ bind[o].first # Null
    BY <1>2, <1>3, <1>5 DEF FirstRun, IInv, OriginalsWait
  <2>8. PICK n \in Levels : n = Depth(t) /\ Fr(t, n) = Top(t) /\ Fr(t, n + 1) = NoFrame
    BY <1>1, TopOf
  <2>9. frames' \in [Threads -> Seq(FrameType)] /\ Changed(t, n, f, NoFrame)
    BY <1>1, <2>3, <2>4, <2>8, BecomeView DEF IInv
  <2>10. NearFrom(t, n, {o}, f, NoFrame, Stay)
    <3>1. \A k \in Pointers : Referred(f[k]) = Referred(Fr(t, n)[k])
      BY <2>4, <2>8
    <3>2. \A x \in {o}, k \in Members : bind'[x][k] = bind[x][k]
      BY <2>5, <2>6 DEF Members
    <3> QED BY <2>3, <2>6, <2>8, <2>9, <3>1, <3>2, StayIsNear DEF IInv
  <2>11. \A p \in AllPlaces : Stay[p] = p
    BY DEF Stay
  <2>12. Evolves(o)
    BY <1>2, <2>3, <2>5, <2>6 DEF Evolves, IInv, MadeOf, RunsOnce
  <2>13. WinsOnce(t, n, f, o)
    BY <1>3, <2>4, <2>5, <2>6, <2>7 DEF WinsOnce, Original, IInv, WinnersRun, HasOriginal
  <2>14. NearAhead(t, n, {o})
    <3> SUFFICES ASSUME NEW p \in Near(t, n, {o}), WillRun(p), bind[Content(p)].fun = "user"
                 PROVE  FALSE
      BY DEF NearAhead
    <3>1. \A k \in Members : ~WillRun(MemberPlace(o, k))
      BY <1>3, RunsFrom DEF Members
    <3>2. \A k \in Pointers : ~WillRun(FramePlace(t, n + 1, k))
      BY <2>8, TopFrames, RunsFrom DEF IInv, Pointers, NoFrame
    <3>3. \A k \in Pointers : WillRun(FramePlace(t, n, k)) => k = "hold"
      BY <1>1, <2>8, RunsFrom DEF Pointers
    <3>4. Content(FramePlace(t, n, "hold")) = o
      BY <1>2, <2>8, ContentOf DEF Referred
    <3> QED BY <1>3, <3>1, <3>2, <3>3, <3>4 DEF Near
  <2>15. Callable(t, n, f, NoFrame, Stay, {})
    BY <2>4, <2>11 DEF Callable, NoFrame
  <2>16. Apart' /\ ScopedAreAhead'
    <3>1. /\ Shape(NoFrame) /\ NoFrame.at \notin {"winner", "destroy"} /\ bind[o].life # "none"
          /\ UNCHANGED scoped /\ Destroys(f, o)
      BY <1>2, <2>3, <2>4, NewFrames DEF NoFrame, Destroys
    <3>2. \/ bind'[o].life = bind[o].life
          \/ bind'[o].life # "live" /\ \A p \in AllPlaces : Content(Stay[p]) # o
      BY <2>5, <2>6
    <3>3. (bind'[o].once => runs'[o] = 0) /\ Intact(o)'
      BY <1>3, <2>5, <2>6 DEF Intact
    <3>4. ~bind'[o].once /\ bind'[o].fun # "split" => \A k \in Members : bind'[o][k] \in {bind[o][k], Null}
      BY <1>3, <2>5, <2>6
    <3> QED BY <2>4, <2>10, <2>12, <2>13, <2>14, <2>15, <3>1, <3>2, <3>3, <3>4, NearStep
  <2>17. Typed'
    BY <2>3, <2>6, <2>9 DEF Typed, IInv, TypeOK
  <2> QED BY <2>16, <2>17 DEF Consistent
<1> QED BY <1>4, <1>5

\* The half of a split callback that won runs the original.
LEMMA RunOriginalKeeps ==
  ASSUME IInv, NEW t \in Threads, RunOriginal(t) PROVE Consistent'
<1>1. frames[t] # <<>> /\ Top(t).at = "winner"
  BY DEF RunOriginal, At
<1>2. PICK n \in Levels :
        /\ n = Depth(t) /\ n + 1 \in Levels
        /\ Fr(t, n) = Top(t) /\ Fr(t, n + 1) = NoFrame
        /\ Top(t) \in FrameType /\ Shape(Top(t))
        /\ \A k \in Pointers : /\ FramePlace(t, n, k) \in AllPlaces /\ FramePlace(t, n + 1, k) \in AllPlaces
                               /\ Content(FramePlace(t, n, k)) = Referred(Top(t)[k])
                               /\ Content(FramePlace(t, n + 1, k)) = Null
  BY <1>1, TopOf
<1>3. PICK o \in BindStates : o = Top(t).bs
  BY <1>1, <1>2 DEF Shape
<1>4. Null \notin BindStates /\ Top(t).hold = o /\ Top(t).a = Null /\ Top(t).b = Null
      /\ bind[o] \in BindType /\ MadeOf(bind[o])
  BY <1>1, <1>2, <1>3, NullAssumption DEF Shape, IInv, TypeOK, AsMade
<1>5. /\ Winner(t, n) /\ bind[o].fun = "split" /\ bind[o].first # Null /\ bind[o].has_run /\ ~bind[o].once
      /\ \A u \in Threads, i \in Levels : Winner(u, i) /\ Fr(u, i).bs = o => u = t /\ i = n
  <2>1. Winner(t, n)
    BY <1>1, <1>2 DEF Winner
  <2> QED BY <1>2, <1>3, <1>4, <2>1 DEF IInv, WinnersRun, HasOriginal, MadeOf
<1>6. bind[o].life = "live"
  BY <1>2, <1>4 DEF IInv, LiveIsHeld, Held, Pointers, Referred
<1>7. PICK c \in BindStates : c = bind[o].first
  BY <1>4, <1>5 DEF BindType, OrNull
<1>8. PICK f : f = [Top(t) EXCEPT !.at = "return"]
  OBVIOUS
<1>9. PICK g : g = Call(c)
  OBVIOUS
<1>10. PICK r : r = [bind[o] EXCEPT !.first = Null]
  OBVIOUS
<1>11. /\ BecomeAndPush(t, f, g) /\ bind' = [bind EXCEPT ![o] = r]
       /\ UNCHANGED <<var, valid, runs, cancelled, scoped, crash>>
  BY <1>3, <1>5, <1>7, <1>8, <1>9, <1>10 DEF RunOriginal, MovedFrom
<1>12. /\ f \in FrameType /\ f.at = "return" /\ Shape(f) /\ f.hold = o /\ f.a = Null /\ f.b = Null
  BY <1>1, <1>2, <1>3, <1>4, <1>8 DEF FrameType, Shape, OrNull
<1>13. /\ g \in FrameType /\ Shape(g) /\ g.at = "invoke" /\ g.hold = c /\ g.a = Null /\ g.b = Null
  BY <1>9, NewFrames DEF Call, Kept, Frame
<1>14. frames' \in [Threads -> Seq(FrameType)] /\ Changed(t, n, f, g)
  BY <1>1, <1>2, <1>11, <1>12, <1>13, BecomeAndPushView DEF IInv
<1>15. /\ r \in BindType /\ r.life = bind[o].life /\ r.once = bind[o].once /\ r.fun = bind[o].fun
       /\ r.has_run = bind[o].has_run /\ r.first = Null /\ r.second = bind[o].second
  BY <1>4, <1>10 DEF BindType, OrNull
<1>16. bind' \in [BindStates -> BindType] /\ bind'[o] = r /\ \A x \in BindStates \ {o} : bind'[x] = bind[x]
  BY <1>11, <1>15, OneChanges
<1> DEFINE own == MemberPlace(o, "first")
           top == FramePlace(t, n + 1, "hold")
<1>17. /\ own \in AllPlaces /\ top \in AllPlaces /\ own # top /\ Content(own) = c /\ MayRun(own)
       /\ \A j \in Pointers : FramePlace(t, n, j) \notin {own, top} /\ FramePlace(t, n + 1, j) # own
                              /\ (j # "hold" => FramePlace(t, n + 1, j) # top)
       /\ MemberPlace(o, "second") \in AllPlaces \ {own, top}
  <2>1. own \in AllPlaces /\ Content(own) = c /\ MayRun(own) /\ "first" \in Members /\ "second" \in Members
        /\ "hold" \in Pointers
    BY <1>7, PlaceKinds, ContentOf, RunsFrom DEF Members, Pointers
  <2>2. MemberPlace(o, "second") \in AllPlaces \ {own}
    BY PlaceKinds, PlacesAreDistinct
  <2>3. TypeOK
    BY DEF IInv
  <2> QED BY <1>2, <2>1, <2>2, <2>3, TopFrames
<1>18. Nowhere(t) \in AllPlaces /\ Content(Nowhere(t)) = Null
  BY NowhereIsNull
<1> HIDE DEF own, top
<1> DEFINE from == [Stay EXCEPT ![own] = Nowhere(t), ![top] = own]
<1>19. /\ from \in [AllPlaces -> AllPlaces] /\ from[own] = Nowhere(t) /\ from[top] = own
       /\ \A p \in AllPlaces \ {own, top} : from[p] = p
  BY <1>17, <1>18 DEF Stay
<1>20. Near(t, n, {o}) \subseteq AllPlaces /\ own \in Near(t, n, {o}) /\ top \in Near(t, n, {o})
       /\ Content(top) = Null
  <2>1. Near(t, n, {o}) \subseteq AllPlaces
    BY FarPlaces DEF IInv
  <2>2. own \in Near(t, n, {o}) /\ top \in Near(t, n, {o})
    BY DEF Near, Members, Pointers, own, top
  <2> QED BY <1>2, <2>1, <2>2 DEF Pointers, top
<1> HIDE DEF from
<1>21. NearFrom(t, n, {o}, f, g, from)
  <2>1. \A j \in Pointers : Referred(f[j]) = Content(from[FramePlace(t, n, j)])
    BY <1>2, <1>4, <1>12, <1>17, <1>19 DEF Pointers
  <2>2. \A j \in Pointers : Referred(g[j]) = Content(from[FramePlace(t, n + 1, j)])
    BY <1>2, <1>4, <1>13, <1>17, <1>19 DEF Pointers, Referred, top
  <2>3. \A x \in {o}, j \in Members : bind'[x][j] = Content(from[MemberPlace(x, j)])
    BY <1>15, <1>16, <1>17, <1>18, <1>19, ContentOf DEF Members, own
  <2>4. \A p \in Near(t, n, {o}) : from[p] \in Near(t, n, {o}) \/ Content(from[p]) = Null
    BY <1>18, <1>19, <1>20
  <2>5. \A p, q \in Near(t, n, {o}) : from[p] = from[q] /\ IsOnce(Content(from[p])) => p = q
    BY <1>4, <1>17, <1>18, <1>19, <1>20 DEF IsOnce
  <2>6. \A p \in Near(t, n, {o}) : Content(p) \in BindStates => \E q \in AllPlaces : Content(from[q]) = Content(p)
    BY <1>4, <1>17, <1>19, <1>20
  <2>7. \A p \in AllPlaces \ Near(t, n, {o}) : from[p] = p
    BY <1>19, <1>20
  <2> QED BY <1>11, <1>14, <1>16, <1>19, <2>1, <2>2, <2>3, <2>4, <2>5, <2>6, <2>7 DEF NearFrom
<1>22. Callable(t, n, f, g, from, {})
  BY <1>12, <1>13, <1>17, <1>18, <1>19 DEF Callable, top
<1>23. Evolves(o)
  BY <1>4, <1>5, <1>6, <1>11, <1>15, <1>16 DEF Evolves, MadeOf, IInv, RunsOnce
<1>24. WinsOnce(t, n, f, o)
  BY <1>5, <1>12 DEF WinsOnce
<1>25. NearAhead(t, n, {o})
  <2>1. \A k \in Members : ~WillRun(MemberPlace(o, k))
    BY <1>5, RunsFrom DEF Members
  <2>2. \A k \in Pointers : ~WillRun(FramePlace(t, n + 1, k)) /\ ~WillRun(FramePlace(t, n, k))
    BY <1>1, <1>2, TopFrames, RunsFrom DEF IInv, Pointers, NoFrame
  <2> QED BY <2>1, <2>2 DEF Near, NearAhead
<1>26. Apart' /\ ScopedAreAhead'
  <2>1. /\ g.at \notin {"winner", "destroy"} /\ bind[o].life # "none"
        /\ UNCHANGED scoped /\ Destroys(f, o)
    BY <1>6, <1>11, <1>12, <1>13 DEF Destroys
  <2>2. \/ bind'[o].life = bind[o].life
        \/ bind'[o].life # "live" /\ \A p \in AllPlaces : Content(from[p]) # o
    BY <1>15, <1>16
  <2>3. (bind'[o].once => runs'[o] = 0) /\ Intact(o)'
    BY <1>5, <1>15, <1>16 DEF Intact
  <2>4. ~bind'[o].once /\ bind'[o].fun # "split" => \A k \in Members : bind'[o][k] \in {bind[o][k], Null}
    BY <1>5, <1>15, <1>16
  <2> QED BY <1>12, <1>13, <1>21, <1>22, <1>23, <1>24, <1>25, <2>1, <2>2, <2>3, <2>4, NearStep
<1>27. Typed'
  BY <1>11, <1>14, <1>16 DEF Typed, IInv, TypeOK
<1> QED BY <1>26, <1>27 DEF Consistent

\* A runner takes over the closure of another one.
LEMMA TakeClosureKeeps ==
  ASSUME IInv, NEW t \in Threads, TakeClosure(t) PROVE Consistent'
<1>1. frames[t] # <<>> /\ Top(t).at = "take" /\ Quiet
  BY DEF TakeClosure, At, Quiet
<1>2. PICK n \in Levels :
        /\ n = Depth(t) /\ n + 1 \in Levels
        /\ Fr(t, n) = Top(t) /\ Fr(t, n + 1) = NoFrame
        /\ Top(t) \in FrameType /\ Shape(Top(t))
        /\ \A k \in Pointers : /\ FramePlace(t, n, k) \in AllPlaces /\ FramePlace(t, n + 1, k) \in AllPlaces
                               /\ Content(FramePlace(t, n, k)) = Referred(Top(t)[k])
                               /\ Content(FramePlace(t, n + 1, k)) = Null
  BY <1>1, TopOf
<1>3. PICK r \in Runners : r = Top(t).a
  BY <1>1, <1>2 DEF Shape
<1>4. PICK q \in Runners : q = Top(t).b
  BY <1>1, <1>2 DEF Shape
<1>5. /\ r # q /\ r \in Vars /\ q \in Vars /\ r \notin BindStates /\ q \notin BindStates
      /\ Null \notin BindStates /\ Top(t).hold = Null /\ r \notin RepeatingVars
      /\ TypeOK /\ var \in [Vars -> OrNull(BindStates)]
  BY <1>1, <1>2, <1>3, <1>4, NullAssumption, BindStateAssumption, VarsAssumption DEF Shape, Vars, IInv, TypeOK
<1>6. PICK x \in OrNull(BindStates) : x = var[r]
  BY <1>5
<1>7. PICK y \in OrNull(BindStates) : y = var[q]
  BY <1>5
<1>8. PICK f : f = Frame("release", Null, x, Null, Null)
  OBVIOUS
<1>9. /\ scoped' = scoped \ {x} /\ var' = [var EXCEPT ![r] = y, ![q] = Null] /\ Become(t, f)
  BY <1>3, <1>4, <1>5, <1>6, <1>7, <1>8 DEF TakeClosure, MovedFrom
<1>10. f \in FrameType /\ Shape(f) /\ f.at = "release" /\ f.hold = x /\ f.a = Null /\ f.b = Null
  BY <1>8, NewFrames DEF Frame
<1>11. frames' \in [Threads -> Seq(FrameType)] /\ Changed(t, n, f, NoFrame)
  BY <1>1, <1>2, <1>9, <1>10, BecomeView DEF IInv
<1>12. PICK g : g = NoFrame
  OBVIOUS
<1>13. Shape(g) /\ g.at = "none" /\ g.hold = Null /\ g.a = Null /\ g.b = Null /\ Changed(t, n, f, g)
  BY <1>11, <1>12, NewFrames DEF NoFrame
<1> DEFINE own == FramePlace(t, n, "hold")
           to == VarPlace(r)
           src == VarPlace(q)
<1>14. /\ own \in AllPlaces /\ to \in AllPlaces /\ src \in AllPlaces /\ own # to /\ own # src /\ to # src
       /\ \A k \in Pointers : FramePlace(t, n, k) \notin {to, src} /\ FramePlace(t, n + 1, k) \notin {own, to, src}
                              /\ (k # "hold" => FramePlace(t, n, k) # own)
       /\ Content(own) = Null /\ Content(to) = x /\ Content(src) = y
       /\ MayRun(to) /\ MayRun(src)
       /\ Nowhere(t) \in AllPlaces /\ Content(Nowhere(t)) = Null
  <2>1. "hold" \in Pointers
    BY DEF Pointers
  <2>2. own \in AllPlaces /\ Content(own) = Null
    BY <1>2, <1>5, <2>1 DEF Referred
  <2>3. /\ to \in AllPlaces /\ src \in AllPlaces /\ to # src /\ Content(to) = x /\ Content(src) = y
        /\ MayRun(to) /\ MayRun(src)
    BY <1>5, <1>6, <1>7, PlaceKinds, PlacesAreDistinct, ContentOf, RunsFrom
  <2>4. /\ \A k \in Pointers : FramePlace(t, n, k) \notin {to, src} /\ FramePlace(t, n + 1, k) \notin {own, to, src}
        /\ own # to /\ own # src
    BY <1>5, <2>1, TopFrames
  <2>5. \A k \in Pointers : k # "hold" => FramePlace(t, n, k) # own
    BY <1>5, <2>1, TopFrames
  <2> QED BY <2>2, <2>3, <2>4, <2>5, NowhereIsNull
<1> HIDE DEF own, to, src
<1>15. PICK from \in [AllPlaces -> AllPlaces] :
         /\ from[to] = src /\ from[src] = Nowhere(t) /\ from[own] = to
         /\ \A p \in AllPlaces \ {to, src, own} : from[p] = p
  <2> DEFINE fr == [Stay EXCEPT ![to] = src, ![src] = Nowhere(t), ![own] = to]
  <2>1. /\ fr \in [AllPlaces -> AllPlaces]
        /\ fr[to] = src /\ fr[src] = Nowhere(t) /\ fr[own] = to
        /\ \A p \in AllPlaces \ {to, src, own} : fr[p] = p
    BY <1>14 DEF Stay
  <2> HIDE DEF fr
  <2> QED BY <2>1
<1>16. Route(t, n, f, g, from, {}, Null)
  <2>1. ASSUME NEW v \in Vars PROVE var'[v] = Content(from[VarPlace(v)])
    <3>1. CASE v # r /\ v # q
      <4>1. VarPlace(v) \in AllPlaces \ {to, src, own}
        BY <1>5, <3>1, PlaceKinds, PlacesAreDistinct, TopFrames DEF to, src, own, Pointers
      <4> QED BY <1>5, <1>9, <1>15, <3>1, <4>1, ContentOf
    <3> QED BY <1>5, <1>9, <1>14, <1>15, <3>1 DEF to, src
  <2>2. ASSUME NEW o \in BindStates, NEW k \in Members PROVE bind'[o][k] = Content(from[MemberPlace(o, k)])
    <3>1. MemberPlace(o, k) \in AllPlaces \ {to, src, own}
      BY <1>5, PlaceKinds, PlacesAreDistinct, TopFrames DEF to, src, own, Pointers, Members
    <3> QED BY <1>1, <1>15, <3>1, ContentOf DEF Quiet, Members
  <2>3. \A u \in Threads, i \in Levels, k \in Pointers :
          /\ FramePlace(u, i, k) \in AllPlaces /\ FramePlace(u, i, k) \notin {to, src}
          /\ ~(u = t /\ i = n) => FramePlace(u, i, k) # own
    BY <1>5, PlaceKinds, PlacesAreDistinct DEF to, src, own, Pointers
  <2>4. \A u \in Threads, i \in Levels, k \in Pointers :
          ~(u = t /\ i = n) => from[FramePlace(u, i, k)] = FramePlace(u, i, k)
    BY <1>15, <2>3
  <2>5. ASSUME NEW k \in Pointers
        PROVE  /\ Referred(f[k]) = Content(from[FramePlace(t, n, k)])
               /\ Referred(g[k]) = Content(from[FramePlace(t, n + 1, k)])
    <3>1. Referred(g[k]) = Content(from[FramePlace(t, n + 1, k)])
      BY <1>2, <1>5, <1>13, <1>14, <1>15 DEF Pointers, Referred
    <3>2. Referred(f.hold) = Content(from[own])
      BY <1>5, <1>10, <1>14, <1>15 DEF Referred, OrNull
    <3>3. k # "hold" => Content(from[FramePlace(t, n, k)]) = Null /\ Referred(f[k]) = Null
      BY <1>2, <1>3, <1>4, <1>5, <1>10, <1>14, <1>15 DEF Pointers, Referred
    <3> QED BY <3>1, <3>2, <3>3 DEF own
  <2> QED BY <1>13, <1>15, <2>1, <2>2, <2>4, <2>5 DEF Route
<1>17. Complete(from, {})
  BY <1>5, <1>14, <1>15 DEF Complete
<1>18. Exclusive(from, {})
  BY <1>5, <1>14, <1>15 DEF Exclusive, IsOnce
<1>19. Callable(t, n, f, g, from, {})
  BY <1>10, <1>13, <1>14, <1>15 DEF Callable
<1>20. CopiesAreRepeating'
  <2>1. ASSUME NEW v \in RepeatingVars PROVE ~IsOnce(var'[v])
    BY <1>5, <1>9 DEF IInv, CopiesAreRepeating, Vars, IsOnce
  <2> QED BY <1>1, <2>1 DEF CopiesAreRepeating, IsOnce, Quiet, IInv
<1>21. Apart' /\ \A p \in AllPlaces : Content(p)' = Content(from[p])
  BY <1>1, <1>10, <1>13, <1>16, <1>17, <1>18, <1>19, <1>20, QuietMoves
<1>22. ScopedAreAhead'
  <2> SUFFICES ASSUME NEW o \in scoped, o # x
               PROVE  /\ bind[o].life # "none"
                      /\ bind[o].fun = "user" /\ runs[o] = 0
                         => \E p \in AllPlaces : Content(p)' = o /\ WillRun(p)'
    BY <1>1, <1>9 DEF ScopedAreAhead, Quiet
  <2>1. bind[o].life # "none" /\ o \in BindStates
    BY DEF IInv, ScopedAreAhead, TypeOK
  <2>2. ASSUME bind[o].fun = "user", runs[o] = 0
        PROVE  \E p \in AllPlaces : Content(p)' = o /\ WillRun(p)'
    <3>1. PICK p \in AllPlaces : Content(p) = o /\ WillRun(p)
      BY <2>2 DEF IInv, ScopedAreAhead
    <3>2. p # to /\ p # own
      BY <1>5, <1>14, <2>1, <3>1
    <3>3. CASE p = src
      BY <1>5, <1>14, <1>15, <1>21, <3>1, <3>3, NextRunsFrom DEF to
    <3>4. CASE p # src
      <4>1. Content(p)' = o
        BY <1>15, <1>21, <3>1, <3>2, <3>4
      <4>2. \A k \in Pointers : p # FramePlace(t, n, k) /\ p # FramePlace(t, n + 1, k)
        BY <1>1, <1>2, <1>3, <1>4, <1>5, <2>1, <3>1, RunsFrom DEF Pointers, Referred
      <4>3. \A b \in BindStates : bind'[b].fun = bind[b].fun
        BY <1>1 DEF Quiet
      <4> QED BY <1>13, <3>1, <4>1, <4>2, <4>3, WillRunKept
    <3> QED BY <3>3, <3>4
  <2> QED BY <2>1, <2>2
<1>23. var' \in [Vars -> OrNull(BindStates)]
  BY <1>5, <1>9 DEF OrNull
<1> QED BY <1>1, <1>9, <1>11, <1>21, <1>22, <1>23 DEF Consistent, Typed, IInv, TypeOK, Quiet

-----------------------------------------------------------------------------
(* What the program does with its variables                                *)

\* The closures of runners, in a quiet step.
LEMMA QuietAhead ==
  ASSUME IInv, Quiet,
         \A p \in AllPlaces : Content(p) \in BindStates /\ Content(p) \in scoped' /\ WillRun(p)
                              => \E q \in AllPlaces : Content(q)' = Content(p) /\ WillRun(q)',
         \A o \in scoped' \ scoped : /\ bind[o].life # "none"
                                     /\ \E q \in AllPlaces : Content(q)' = o /\ WillRun(q)'
  PROVE  ScopedAreAhead'
<1> SUFFICES ASSUME NEW o \in scoped'
             PROVE  /\ bind[o].life # "none"
                    /\ bind[o].fun = "user" /\ runs[o] = 0
                       => \E p \in AllPlaces : Content(p)' = o /\ WillRun(p)'
  BY DEF ScopedAreAhead, Quiet
<1>1. CASE o \notin scoped
  BY <1>1
<1>2. CASE o \in scoped
  BY <1>2 DEF IInv, TypeOK, ScopedAreAhead
<1> QED BY <1>1, <1>2

\* The types, in a quiet step.
LEMMA QuietTyped ==
  ASSUME IInv, Quiet, var' \in [Vars -> OrNull(BindStates)], frames' \in [Threads -> Seq(FrameType)],
         scoped' \subseteq BindStates
  PROVE  Typed'
BY DEF IInv, TypeOK, Typed, Quiet

\* What is known of the variables.
LEMMA VarTyped ==
  ASSUME IInv
  PROVE  /\ TypeOK /\ var \in [Vars -> OrNull(BindStates)] /\ scoped \subseteq BindStates
         /\ \A x \in Vars : var[x] \in OrNull(BindStates) /\ VarPlace(x) \in AllPlaces
                            /\ Content(VarPlace(x)) = var[x] /\ Content(VarPlace(x))' = var'[x]
                            /\ (WillRun(VarPlace(x)) <=> x \in Runners) /\ (WillRun(VarPlace(x))' <=> x \in Runners)
                            /\ (var[x] # Null => var[x] \in BindStates /\ bind[var[x]].life # "none")
         /\ Null \notin BindStates
<1>1. TypeOK /\ var \in [Vars -> OrNull(BindStates)] /\ scoped \subseteq BindStates /\ Null \notin BindStates
  BY NullAssumption DEF IInv, TypeOK
<1>2. ASSUME NEW x \in Vars
      PROVE  var[x] \in OrNull(BindStates) /\ VarPlace(x) \in AllPlaces
             /\ Content(VarPlace(x)) = var[x] /\ Content(VarPlace(x))' = var'[x]
             /\ (WillRun(VarPlace(x)) <=> x \in Runners) /\ (WillRun(VarPlace(x))' <=> x \in Runners)
  BY <1>1, PlaceKinds, ContentOf, NextContentOf, RunsFrom, NextRunsFrom
<1>3. ASSUME NEW x \in Vars, var[x] # Null
      PROVE  var[x] \in BindStates /\ bind[var[x]].life # "none"
  <2>1. var[x] \in BindStates
    BY <1>2, <1>3 DEF OrNull
  <2>2. Held(var[x])
    BY <1>2 DEF Held
  <2> QED BY <2>1, <2>2 DEF IInv, LiveIsHeld
<1> QED BY <1>1, <1>2, <1>3

\* v = s, moved or copied, whatever that means to the scopes of runners.
LEMMA MoveMoves ==
  ASSUME IInv, Quiet, NEW t \in Threads, NEW v \in Vars, NEW s \in Vars, v # s,
         v \in RepeatingVars => s \in RepeatingVars,
         Assign(t, Passed(s), v, var[s]), scoped' \subseteq BindStates,
         v \in Runners => scoped' \subseteq (scoped \ {var[v]}) \cup {var[s]},
         s \in Runners => scoped' \subseteq scoped \ {var[s]},
         v \notin Runners => scoped' \subseteq scoped
  PROVE  Consistent'
<1>1. PICK y : y = IF s \in RepeatingVars THEN var[s] ELSE Null
  OBVIOUS
<1>2. y \in {var[s], Null} /\ (y = Null \/ s \in RepeatingVars) /\ Passed(s) = [var EXCEPT ![s] = y]
  BY <1>1 DEF Passed, MovedFrom
<1>3. v \in RepeatingVars => ~IsOnce(var[s])
  BY DEF IInv, CopiesAreRepeating
<1>4. Assign(t, [var EXCEPT ![s] = y], v, var[s])
  BY <1>2
<1>5. /\ var' \in [Vars -> OrNull(BindStates)] /\ var'[v] = var[s]
      /\ frames' \in [Threads -> Seq(FrameType)]
      /\ Apart'
      /\ \A p \in AllPlaces \ {VarPlace(v), VarPlace(s)} :
           Content(p) \in BindStates /\ WillRun(p) => Unchanged(p) /\ WillRun(p)'
  BY <1>2, <1>3, <1>4, VariableTakesOver
<1>6. ScopedAreAhead'
  <2>1. ASSUME NEW p \in AllPlaces, Content(p) \in BindStates, Content(p) \in scoped', WillRun(p)
        PROVE  \E q \in AllPlaces : Content(q)' = Content(p) /\ WillRun(q)'
    <3>1. CASE p = VarPlace(v)
      BY <1>5, <2>1, <3>1, VarTyped
    <3>2. CASE p = VarPlace(s)
      BY <2>1, <3>2, VarTyped
    <3> QED BY <1>5, <2>1, <3>1, <3>2 DEF Unchanged
  <2>2. ASSUME NEW o \in scoped' \ scoped
        PROVE  /\ bind[o].life # "none"
               /\ \E q \in AllPlaces : Content(q)' = o /\ WillRun(q)'
    <3>1. v \in Runners /\ o = var[s] /\ o \in BindStates
      BY <2>2
    <3> QED BY <1>5, <3>1, VarTyped
  <2> QED BY <2>1, <2>2, QuietAhead
<1> QED BY <1>5, <1>6, QuietTyped DEF Consistent

\* A callback is moved or copied.
LEMMA MoveKeeps ==
  ASSUME IInv, NEW t \in Threads, NEW v \in Vars \ Runners, NEW s \in Vars \ Runners, Move(t, v, s)
  PROVE  Consistent'
BY MoveMoves, VarTyped DEF Move, Quiet

\* A callback gets to another thread.
LEMMA PostKeeps ==
  ASSUME IInv, NEW t \in Threads, NEW v \in Vars \ Runners, NEW w \in OnceVars, Post(t, v, w)
  PROVE  Consistent'
<1>1. w \in Vars \ Runners /\ w \notin RepeatingVars /\ v # w
  BY VarsAssumption DEF Vars, Post
<1>2. Passed(v)[w] = Null
  BY <1>1, VarTyped DEF Post, Passed
<1>3. Assign(t, Passed(v), w, var[v]) /\ Quiet /\ UNCHANGED scoped
  BY <1>2 DEF Post, Assign, Quiet
<1> QED BY <1>1, <1>3, MoveMoves, VarTyped

\* A runner gets a closure.
LEMMA ReplaceClosureKeeps ==
  ASSUME IInv, NEW t \in Threads, NEW r \in Runners, NEW s \in Vars \ Runners, ReplaceClosure(t, r, s)
  PROVE  Consistent'
<1>1. r \in Vars /\ r # s /\ r \notin RepeatingVars
  BY VarsAssumption DEF Vars
<1>2. /\ scoped' = (scoped \ {var[r]}) \cup ({var[s]} \ {Null})
      /\ Assign(t, Passed(s), r, var[s]) /\ Quiet
  BY DEF ReplaceClosure, Quiet
<1>3. scoped' \subseteq BindStates /\ scoped' \subseteq (scoped \ {var[r]}) \cup {var[s]}
  BY <1>2, VarTyped
<1> QED BY <1>1, <1>2, <1>3, MoveMoves

\* A runner gives its closure back.
LEMMA ReleaseClosureKeeps ==
  ASSUME IInv, NEW t \in Threads, NEW r \in Runners, NEW v \in OnceVars, Release(t, r, v)
  PROVE  Consistent'
<1>1. r \in Vars /\ v \in Vars \ Runners /\ r # v /\ r \notin RepeatingVars /\ v \notin RepeatingVars
  BY VarsAssumption DEF Vars
<1>2. scoped' = scoped \ {var[r]} /\ Assign(t, Passed(r), v, var[r]) /\ Quiet
  BY <1>1 DEF Release, Quiet, Passed
<1> QED BY <1>1, <1>2, VarTyped, MoveMoves

\* What v has goes to the frame g on top of t.
LEMMA TopMoves ==
  ASSUME IInv, Quiet, UNCHANGED scoped, NEW t \in Threads, NEW n \in Levels, Fr(t, n + 1) = NoFrame,
         NEW f, NEW g, Changed(t, n, f, g), frames' \in [Threads -> Seq(FrameType)],
         Shape(f), \A k \in Pointers : Referred(f[k]) = Referred(Fr(t, n)[k]),
         f = Fr(t, n) \/ f.at \notin {"winner", "destroy", "invoke"},
         \A k \in Pointers : f # Fr(t, n) => Content(FramePlace(t, n, k)) = Null,
         NEW v \in Vars, Shape(g), g.at \in {"none", "release", "invoke"},
         g.hold = var[v], g.a = Null, g.b = Null,
         NEW y \in {var[v], Null}, y = Null \/ v \in RepeatingVars,
         var' = [var EXCEPT ![v] = y],
         v \in Runners => g.at = "invoke" \/ var[v] = Null
  PROVE  Consistent'
<1>1. /\ var' \in [Vars -> OrNull(BindStates)]
      /\ Apart'
      /\ \A p \in AllPlaces \ {VarPlace(v)} :
           Content(p) \in BindStates /\ WillRun(p) => Unchanged(p) /\ WillRun(p)'
      /\ Content(FramePlace(t, n + 1, "hold"))' = var[v]
      /\ g.at = "invoke" => WillRun(FramePlace(t, n + 1, "hold"))'
  BY VariableToTop
<1>2. FramePlace(t, n + 1, "hold") \in AllPlaces
  BY VarTyped, TopFrames DEF Pointers
<1>3. ASSUME NEW p \in AllPlaces, Content(p) \in BindStates, WillRun(p)
      PROVE  \E q \in AllPlaces : Content(q)' = Content(p) /\ WillRun(q)'
  <2>1. CASE p = VarPlace(v)
    BY <1>1, <1>2, <1>3, <2>1, VarTyped
  <2> QED BY <1>1, <1>3, <2>1 DEF Unchanged
<1>4. ScopedAreAhead'
  BY <1>3, QuietAhead
<1> QED BY <1>1, <1>4, QuietTyped, VarTyped DEF Consistent

\* A callback is reset.
LEMMA ResetKeeps ==
  ASSUME IInv, NEW t \in Threads, NEW v \in Vars \ Runners, Reset(t, v) PROVE Consistent'
<1>1. Assign(t, var, v, Null) /\ Quiet /\ UNCHANGED scoped
  BY DEF Reset, Quiet
<1>2. PICK n \in Levels : n = Depth(t)
  BY VarTyped, FrameTyped DEF Levels
<1>3. PICK g : g = LetGo(var[v])
  OBVIOUS
<1>4. PICK f : f = Fr(t, n)
  OBVIOUS
<1>5. /\ var' = [var EXCEPT ![v] = Null] /\ frames' \in [Threads -> Seq(FrameType)]
      /\ Changed(t, n, f, g)
  BY <1>1, <1>2, <1>3, <1>4, VarTyped, AssignView DEF OrNull
<1>6. Fr(t, n + 1) = NoFrame
  BY <1>2, VarTyped, TopFrames
<1>7. Shape(g) /\ g.at \in {"none", "release"} /\ g.hold = var[v] /\ g.a = Null /\ g.b = Null /\ Shape(f)
  BY <1>3, <1>4, VarTyped, NewFrames DEF IInv, Shapes
<1> QED BY <1>1, <1>4, <1>5, <1>6, <1>7, TopMoves

\* What v has is called.
LEMMA CallMoves ==
  ASSUME IInv, Quiet, UNCHANGED scoped, NEW t \in Threads, NEW v \in Vars, var[v] # Null,
         NEW y \in {var[v], Null}, y = Null \/ v \in RepeatingVars,
         var' = [var EXCEPT ![v] = y], Push(t, Call(var[v]))
  PROVE  Consistent'
<1>1. PICK n \in Levels : n = Depth(t)
  BY VarTyped, FrameTyped DEF Levels
<1>2. PICK g : g = Call(var[v])
  OBVIOUS
<1>3. PICK f : f = Fr(t, n)
  OBVIOUS
<1>4. /\ g \in FrameType /\ Shape(g) /\ g.at = "invoke" /\ g.hold = var[v]
      /\ g.a = Null /\ g.b = Null /\ Shape(f)
  BY <1>2, <1>3, VarTyped, NewFrames DEF Call, Kept, Frame, IInv, Shapes
<1>5. frames' \in [Threads -> Seq(FrameType)] /\ Changed(t, n, f, g)
  BY <1>1, <1>2, <1>3, <1>4, VarTyped, PushView
<1>6. Fr(t, n + 1) = NoFrame
  BY <1>1, VarTyped, TopFrames
<1> QED BY <1>3, <1>4, <1>5, <1>6, TopMoves

\* A callback is run.
LEMMA RunKeeps ==
  ASSUME IInv, NEW t \in Threads, NEW v \in Vars, NEW c \in BOOLEAN, Run(t, v, c) PROVE Consistent'
<1>1. CASE var[v] = Null
  BY <1>1, FailKeeps DEF Run
<1>2. CASE var[v] # Null
  <2>1. PICK y : y = IF c THEN Null ELSE var[v]
    OBVIOUS
  <2>2. y \in {var[v], Null} /\ (y = Null \/ v \in RepeatingVars)
    BY <2>1 DEF Run
  <2>3. var' = [var EXCEPT ![v] = y]
    BY <1>2, <2>1, VarTyped DEF Run, MovedFrom
  <2>4. Push(t, Call(var[v])) /\ Quiet /\ UNCHANGED scoped
    BY <1>2 DEF Run, Quiet
  <2> QED BY <1>2, <2>2, <2>3, <2>4, CallMoves
<1> QED BY <1>1, <1>2

\* A runner runs its closure.
LEMMA RunAndResetKeeps ==
  ASSUME IInv, NEW t \in Threads, NEW r \in Runners, RunAndReset(t, r) PROVE Consistent'
<1>1. r \in Vars /\ var[r] # Null /\ Quiet /\ UNCHANGED scoped /\ Push(t, Call(var[r]))
      /\ var' = [var EXCEPT ![r] = Null]
  BY DEF RunAndReset, Vars, Quiet, MovedFrom
<1> QED BY <1>1, CallMoves

\* A runner is assigned: it first runs its own closure.
LEMMA MoveRunnerKeeps ==
  ASSUME IInv, NEW t \in Threads, NEW r \in Runners, NEW q \in Runners, MoveRunner(t, r, q)
  PROVE  Consistent'
<1>1. PICK m \in Levels : m = Depth(t) /\ m + 1 \in Levels /\ (m + 1) + 1 \in Levels
  BY VarTyped, FrameTyped DEF Levels
<1>2. PICK n \in Levels : n = m + 1
  BY <1>1
<1>3. Fr(t, n) = NoFrame /\ Fr(t, n + 1) = NoFrame
  BY <1>1, <1>2, VarTyped, FrameTyped DEF Levels
<1>4. PICK f : f = Frame("take", Null, Null, r, q)
  OBVIOUS
<1>5. PICK g : g = IF var[r] = Null THEN NoFrame ELSE Call(var[r])
  OBVIOUS
<1>6. r \in Vars /\ q \in Vars /\ r # q /\ r \notin BindStates /\ q \notin BindStates
  BY BindStateAssumption DEF Vars, MoveRunner
<1>7. /\ f \in FrameType /\ Shape(f) /\ f.at = "take"
      /\ \A k \in Pointers : Referred(f[k]) = Null /\ Referred(NoFrame[k]) = Null
  BY <1>4, <1>6, VarTyped DEF Frame, FrameType, Shape, Pointers, Referred, NoFrame, OrNull
<1>8. /\ Shape(g) /\ g.at \in {"none", "invoke"} /\ g.hold = var[r] /\ g.a = Null /\ g.b = Null
      /\ g.at = "invoke" \/ var[r] = Null
      /\ var[r] # Null => g \in FrameType
  <2>1. CASE var[r] = Null
    BY <1>5, <2>1, NewFrames DEF NoFrame
  <2>2. CASE var[r] # Null
    BY <1>5, <1>6, <2>2, VarTyped, NewFrames DEF Call, Kept, Frame
  <2> QED BY <2>1, <2>2
<1>9. frames' \in [Threads -> Seq(FrameType)] /\ Changed(t, n, f, g)
  <2>1. PICK s : s = frames[t] \o <<f>> \o IF var[r] = Null THEN <<>> ELSE <<g>>
    OBVIOUS
  <2>2. frames' = [frames EXCEPT ![t] = s]
    BY <1>4, <1>5, <2>1 DEF MoveRunner
  <2>3. frames[t] \in Seq(FrameType) /\ Len(frames[t]) = m /\ m \in Nat
    BY <1>1, VarTyped DEF TypeOK, Depth, Levels
  <2>4. /\ s \in Seq(FrameType) /\ Len(s) = (IF var[r] = Null THEN n ELSE n + 1) /\ s[n] = f
        /\ var[r] # Null => s[n + 1] = g
        /\ \A i \in 1 .. m : s[i] = frames[t][i]
    <3>0. PICK z \in Seq(FrameType) : z = frames[t]
      BY <2>3
    <3>1. PICK w : w = z \o <<f>>
      OBVIOUS
    <3>2. /\ w \in Seq(FrameType) /\ Len(w) = n /\ w[n] = f
          /\ \A i \in 1 .. m : w[i] = frames[t][i]
      <4>1. Len(z) = m /\ m \in Nat /\ f \in FrameType
        BY <1>7, <2>3, <3>0
      <4>2. w \in Seq(FrameType) /\ Len(w) = m + 1 /\ w[m + 1] = f /\ \A i \in 1 .. m : w[i] = z[i]
        BY <3>1, <4>1
      <4> QED BY <1>2, <3>0, <4>2
    <3>3. CASE var[r] = Null
      <4>1. s = w \o <<>>
        BY <2>1, <3>0, <3>1, <3>3
      <4>2. s = w
        BY <3>2, <4>1
      <4> QED BY <3>2, <3>3, <4>2
    <3>4. CASE var[r] # Null
      <4>1. s = w \o <<g>>
        BY <2>1, <3>0, <3>1, <3>4
      <4>2. s \in Seq(FrameType) /\ Len(s) = n + 1 /\ s[n + 1] = g /\ \A i \in 1 .. n : s[i] = w[i]
        BY <1>2, <1>8, <2>3, <3>2, <3>4, <4>1
      <4> QED BY <1>2, <2>3, <3>2, <3>4, <4>2
    <3> QED BY <3>3, <3>4
  <2>5. /\ frames' \in [Threads -> Seq(FrameType)]
        /\ \A i \in Levels : Fr(t, i)' = IF i \in 1 .. Len(s) THEN s[i] ELSE NoFrame
        /\ \A u \in Threads, i \in Levels : u # t => Fr(u, i)' = Fr(u, i)
    BY <2>2, <2>4, StackChanged, VarTyped
  <2>6. ASSUME NEW i \in Levels
        PROVE  Fr(t, i)' = IF i = n THEN f ELSE IF i = n + 1 THEN g ELSE Fr(t, i)
    <3>1. i \notin {n, n + 1} => Fr(t, i) = (IF i \in 1 .. m THEN frames[t][i] ELSE NoFrame)
      BY <1>1 DEF Fr
    <3>2. var[r] = Null => g = NoFrame
      BY <1>5
    <3> QED BY <1>2, <2>3, <2>4, <2>5, <3>1, <3>2 DEF Levels
  <2> QED BY <2>5, <2>6 DEF Changed
<1>10. \A k \in Pointers : Content(FramePlace(t, n, k)) = Null
  BY <1>3, <1>7, ContentOf DEF Pointers
<1>11. Quiet /\ UNCHANGED scoped /\ var' = [var EXCEPT ![r] = Null]
  BY DEF MoveRunner, Quiet, MovedFrom
<1>12. /\ \A k \in Pointers : Referred(f[k]) = Referred(Fr(t, n)[k])
       /\ \A k \in Pointers : f # Fr(t, n) => Content(FramePlace(t, n, k)) = Null
       /\ f = Fr(t, n) \/ f.at \notin {"winner", "destroy", "invoke"}
  BY <1>3, <1>7, <1>10
<1>13. PICK y \in {var[r], Null} : y = Null
  OBVIOUS
<1>14. (y = Null \/ r \in RepeatingVars) /\ g.at \in {"none", "release", "invoke"} /\ var' = [var EXCEPT ![r] = y]
  BY <1>8, <1>11, <1>13
<1>15. r \in Runners => (g.at = "invoke" \/ var[r] = Null)
  BY <1>8
<1>16. Quiet /\ UNCHANGED scoped /\ Fr(t, n + 1) = NoFrame /\ Changed(t, n, f, g)
       /\ frames' \in [Threads -> Seq(FrameType)] /\ Shape(f) /\ Shape(g)
       /\ g.hold = var[r] /\ g.a = Null /\ g.b = Null /\ r \in Vars
  BY <1>3, <1>6, <1>7, <1>8, <1>9, <1>11
<1>17. \A k \in Pointers : Referred(f[k]) = Referred(Fr(t, n)[k])
  BY <1>12
<1>18. \A k \in Pointers : f # Fr(t, n) => Content(FramePlace(t, n, k)) = Null
  BY <1>12
<1>19. f = Fr(t, n) \/ f.at \notin {"winner", "destroy", "invoke"}
  BY <1>12
<1> QED BY <1>2, <1>13, <1>14, <1>15, <1>16, <1>17, <1>18, <1>19, TopMoves

-----------------------------------------------------------------------------
(* Bind states are made                                                    *)

\* The places that what is bound may come from.
Sources(t) == {Nowhere(t)} \cup {VarPlace(x) : x \in Vars}

\* o is made as r of what c1 and c2 have.  The variables in N get it, the ones
\* in U are moved from, and what h has is let go of.
MakingOf(t, o, r, N, U, c1, c2, h) ==
  /\ bind[o].life = "none" /\ bind' = [bind EXCEPT ![o] = r]
  /\ r.life = "live" /\ MadeOf(r)
  /\ r.first = Content(c1) /\ r.second = Content(c2)
  /\ r.fun \in {"callback", "split"} => r.first # Null
  /\ r.fun = "then" => r.second # Null
  /\ \A x, y \in N : x = y \/ ~r.once
  /\ \A x \in N : x \in RepeatingVars => ~r.once
  /\ ~r.once /\ r.fun # "split" => ~IsOnce(r.first) /\ ~IsOnce(r.second)
  /\ var' = [x \in Vars |-> IF x \in N THEN o ELSE IF x \in U THEN Null ELSE var[x]]
  /\ \A x \in N \cup U : var[x] # Null => VarPlace(x) \in {c1, c2, h}
  /\ \A x \in Vars : VarPlace(x) \in {c1, c2, h} /\ IsOnce(var[x]) => x \in N \cup U
  /\ c1 = c2 \/ c1 = h => ~IsOnce(Content(c1))
  /\ c2 = h => ~IsOnce(Content(c2))
  /\ UNCHANGED <<valid, runs, cancelled, crash>>

\* Where everything comes from then.
MadeFrom(t, n, o, U, c1, c2, h) ==
  [p \in AllPlaces |->
     IF p = MemberPlace(o, "first") THEN c1
     ELSE IF p = MemberPlace(o, "second") THEN c2
     ELSE IF p = FramePlace(t, n + 1, "hold") THEN h
     ELSE IF p \in {VarPlace(x) : x \in U} THEN Nowhere(t)
     ELSE p]

\* What that means place by place.
Makes(from, t, n, o, U, c1, c2, h) ==
  /\ from \in [AllPlaces -> AllPlaces]
  /\ from[MemberPlace(o, "first")] = c1 /\ from[MemberPlace(o, "second")] = c2
  /\ from[FramePlace(t, n + 1, "hold")] = h
  /\ \A x \in U : from[VarPlace(x)] = Nowhere(t)
  /\ \A x \in Vars \ U : from[VarPlace(x)] = VarPlace(x)
  /\ \A p \in BindStates \ {o}, k \in Members : from[MemberPlace(p, k)] = MemberPlace(p, k)
  /\ \A u \in Threads, i \in Levels, k \in Pointers :
       ~(u = t /\ i = n + 1 /\ k = "hold") => from[FramePlace(u, i, k)] = FramePlace(u, i, k)

\* MadeFrom, place by place.
LEMMA MadeFromIs ==
  ASSUME IInv, NEW t \in Threads, NEW n \in Levels, NEW o \in BindStates, NEW U \in SUBSET Vars,
         NEW c1 \in Sources(t), NEW c2 \in Sources(t), NEW h \in Sources(t),
         NEW from, from = MadeFrom(t, n, o, U, c1, c2, h)
  PROVE  Makes(from, t, n, o, U, c1, c2, h)
<1>1. /\ c1 \in AllPlaces /\ c2 \in AllPlaces /\ h \in AllPlaces /\ Nowhere(t) \in AllPlaces
      /\ n + 1 \in Levels
  BY PlaceKinds, NowhereIsNull, VarTyped, TopFrames DEF Sources
<1>2. /\ MemberPlace(o, "first") \in AllPlaces /\ MemberPlace(o, "second") \in AllPlaces
      /\ MemberPlace(o, "first") # MemberPlace(o, "second")
      /\ FramePlace(t, n + 1, "hold") \in AllPlaces
      /\ \A k \in Members : MemberPlace(o, k) # FramePlace(t, n + 1, "hold")
  BY <1>1, PlaceKinds, PlacesAreDistinct, TopFrames, VarTyped DEF Members, Pointers
<1>3. ASSUME NEW x \in Vars
      PROVE  /\ VarPlace(x) \in AllPlaces /\ VarPlace(x) # FramePlace(t, n + 1, "hold")
             /\ \A k \in Members : VarPlace(x) # MemberPlace(o, k)
             /\ VarPlace(x) \in {VarPlace(y) : y \in U} => x \in U
  BY <1>1, PlaceKinds, PlacesAreDistinct DEF Members
<1>4. ASSUME NEW p \in BindStates \ {o}, NEW k \in Members
      PROVE  /\ MemberPlace(p, k) \in AllPlaces /\ MemberPlace(p, k) # FramePlace(t, n + 1, "hold")
             /\ \A l \in Members : MemberPlace(p, k) # MemberPlace(o, l)
             /\ MemberPlace(p, k) \notin {VarPlace(y) : y \in U}
  BY <1>1, PlaceKinds, PlacesAreDistinct DEF Members
<1>5. ASSUME NEW u \in Threads, NEW i \in Levels, NEW k \in Pointers, ~(u = t /\ i = n + 1 /\ k = "hold")
      PROVE  /\ FramePlace(u, i, k) \in AllPlaces /\ FramePlace(u, i, k) # FramePlace(t, n + 1, "hold")
             /\ \A l \in Members : FramePlace(u, i, k) # MemberPlace(o, l)
             /\ FramePlace(u, i, k) \notin {VarPlace(y) : y \in U}
  BY <1>1, <1>5, PlaceKinds, PlacesAreDistinct DEF Members, Pointers
<1>6. from \in [AllPlaces -> AllPlaces]
  BY <1>1 DEF MadeFrom
<1>7. /\ from[MemberPlace(o, "first")] = c1 /\ from[MemberPlace(o, "second")] = c2
      /\ from[FramePlace(t, n + 1, "hold")] = h
  BY <1>2 DEF MadeFrom, Members
<1>8. \A x \in Vars : from[VarPlace(x)] = IF x \in U THEN Nowhere(t) ELSE VarPlace(x)
  BY <1>3 DEF MadeFrom, Members
<1>9. \A p \in BindStates \ {o}, k \in Members : from[MemberPlace(p, k)] = MemberPlace(p, k)
  BY <1>4 DEF MadeFrom, Members
<1>10. \A u \in Threads, i \in Levels, k \in Pointers :
         ~(u = t /\ i = n + 1 /\ k = "hold") => from[FramePlace(u, i, k)] = FramePlace(u, i, k)
  BY <1>5 DEF MadeFrom, Members
<1> QED BY <1>6, <1>7, <1>8, <1>9, <1>10 DEF Makes

\* What is made is made of what its sources had.
LEMMA MadeMoves ==
  ASSUME IInv, NEW t \in Threads, NEW n \in Levels, Fr(t, n + 1) = NoFrame,
         Fr(t, n).at \in {"none", "body"},
         NEW o \in BindStates, NEW r \in BindType,
         NEW N \in SUBSET (Vars \ Runners), N # {}, NEW U \in SUBSET (Vars \ Runners),
         NEW c1 \in Sources(t), NEW c2 \in Sources(t), NEW h \in Sources(t),
         MakingOf(t, o, r, N, U, c1, c2, h),
         NEW g, g = LetGo(Content(h)), Changed(t, n, Fr(t, n), g)
  PROVE  /\ Apart'
         /\ \A p \in AllPlaces : Content(p) \in BindStates /\ WillRun(p) => Unchanged(p) /\ WillRun(p)'
<1>1. PICK from : from = MadeFrom(t, n, o, U, c1, c2, h)
  OBVIOUS
<1>2. PICK new : new = {VarPlace(x) : x \in N}
  OBVIOUS
<1>3. PICK f : f = Fr(t, n)
  OBVIOUS
<1>4. /\ bind' \in [BindStates -> BindType] /\ bind'[o] = r
      /\ \A x \in BindStates \ {o} : bind'[x] = bind[x]
  BY OneChanges DEF MakingOf
<1>5. /\ bind[o].life = "none" /\ bind[o].fun = "user" /\ bind[o].first = Null /\ bind[o].second = Null
      /\ runs[o] = 0
  BY DEF MakingOf, IInv, AsMade, MadeOf
<1>6. /\ \A p \in AllPlaces : Content(p) # o
      /\ \A u \in Threads, i \in Levels : ~(Winner(u, i) /\ Fr(u, i).bs = o)
  BY <1>5, NotReferred
<1>7. /\ \A x \in Vars : var[x] # o /\ var[x] \in OrNull(BindStates) /\ Content(VarPlace(x)) = var[x]
      /\ Null \notin BindStates
  BY <1>6, VarTyped
<1>8. Evolves(o)
  BY <1>4, <1>5 DEF Evolves, MakingOf
<1>9. StaysUnspent(o)
  BY <1>4, <1>5 DEF StaysUnspent, MakingOf, Intact
<1>10. WinsOnce(t, n, f, o)
  BY <1>3, <1>6 DEF WinsOnce
<1>11. /\ \A c \in Sources(t) : Content(c) \in OrNull(BindStates) /\ (Content(c) = Null \/ MayRun(c))
       /\ Content(Nowhere(t)) = Null
  <2>1. Content(Nowhere(t)) = Null
    BY NowhereIsNull
  <2>2. \A x \in Vars : MayRun(VarPlace(x))
    BY RunsFrom
  <2> QED BY <1>7, <2>1, <2>2 DEF Sources, OrNull
<1>12. /\ from \in [AllPlaces -> AllPlaces]
       /\ from[MemberPlace(o, "first")] = c1 /\ from[MemberPlace(o, "second")] = c2
       /\ from[FramePlace(t, n + 1, "hold")] = h
       /\ \A x \in U : from[VarPlace(x)] = Nowhere(t)
       /\ \A x \in Vars \ U : from[VarPlace(x)] = VarPlace(x)
       /\ \A p \in BindStates \ {o}, k \in Members : from[MemberPlace(p, k)] = MemberPlace(p, k)
       /\ \A u \in Threads, i \in Levels, k \in Pointers :
            ~(u = t /\ i = n + 1 /\ k = "hold") => from[FramePlace(u, i, k)] = FramePlace(u, i, k)
  <2>1. U \in SUBSET Vars
    OBVIOUS
  <2>2. Makes(from, t, n, o, U, c1, c2, h)
    BY <1>1, <2>1, MadeFromIs
  <2> QED BY <2>2 DEF Makes
<1>13. /\ new \subseteq {VarPlace(x) : x \in Vars} /\ new \subseteq AllPlaces /\ new # {}
       /\ \A x \in Vars : VarPlace(x) \in new <=> x \in N
       /\ \A x \in N, y \in N : VarPlace(x) = VarPlace(y) <=> x = y
       /\ \A p \in new : \E x \in N : p = VarPlace(x)
  BY <1>2, PlacesAreDistinct, PlaceKinds
<1>14. /\ Shape(f) /\ Shape(g) /\ g.at \in {"none", "release"} /\ f.at \in {"none", "body"}
       /\ g.hold = Content(h) /\ g.a = Null /\ g.b = Null
       /\ \A k \in Pointers : Content(FramePlace(t, n + 1, k)) = Null
  <2>1. \A k \in Pointers : Referred(NoFrame[k]) = Null
    BY <1>7 DEF Pointers, NoFrame, Referred
  <2> QED BY <1>3, <1>11, <2>1, NewFrames, TopFrames, VarTyped DEF IInv, Shapes
<1>15. Route(t, n, f, g, from, new, o)
  <2>1. ASSUME NEW x \in Vars
        PROVE  var'[x] = IF VarPlace(x) \in new THEN o ELSE Content(from[VarPlace(x)])
    <3>1. var'[x] = IF x \in N THEN o ELSE IF x \in U THEN Null ELSE var[x]
      BY DEF MakingOf
    <3> QED BY <1>7, <1>11, <1>12, <1>13, <3>1
  <2>2. ASSUME NEW p \in BindStates, NEW k \in Members PROVE bind'[p][k] = Content(from[MemberPlace(p, k)])
    <3>1. CASE p = o
      BY <1>4, <1>12, <3>1 DEF Members, MakingOf
    <3>2. CASE p # o
      BY <1>4, <1>12, <3>2, ContentOf DEF Members
    <3> QED BY <3>1, <3>2
  <2>3. ASSUME NEW k \in Pointers
        PROVE  /\ Referred(f[k]) = Content(from[FramePlace(t, n, k)])
               /\ Referred(g[k]) = Content(from[FramePlace(t, n + 1, k)])
    <3>1. Referred(f[k]) = Content(from[FramePlace(t, n, k)])
      BY <1>3, <1>12, TopFrames, VarTyped
    <3>2. k # "hold" => Referred(g[k]) = Null /\ Content(from[FramePlace(t, n + 1, k)]) = Null
      BY <1>7, <1>12, <1>14, TopFrames, VarTyped DEF Referred, Pointers
    <3>3. k = "hold" => Referred(g[k]) = Content(h)
      BY <1>7, <1>11, <1>14 DEF Referred, OrNull
    <3> QED BY <1>12, <3>1, <3>2, <3>3
  <2> QED BY <1>3, <1>12, <1>13, <2>1, <2>2, <2>3 DEF Route
<1>16. Complete(from, new)
  <2> SUFFICES ASSUME NEW p \in AllPlaces, Content(p) \in BindStates
               PROVE  \E q \in AllPlaces \ new : Content(from[q]) = Content(p)
    BY DEF Complete
  <2>1. /\ MemberPlace(o, "first") \in AllPlaces \ new /\ MemberPlace(o, "second") \in AllPlaces \ new
        /\ FramePlace(t, n + 1, "hold") \in AllPlaces \ new
    BY <1>13, PlaceKinds, PlacesAreDistinct, TopFrames, VarTyped DEF Pointers
  <2>2. ASSUME NEW x \in Vars, p = VarPlace(x) PROVE \E q \in AllPlaces \ new : Content(from[q]) = Content(p)
    <3>1. CASE x \in N \cup U
      <4>1. VarPlace(x) \in {c1, c2, h}
        BY <1>7, <2>2, <3>1 DEF MakingOf
      <4> QED BY <1>12, <2>1, <2>2, <4>1
    <3>2. CASE x \notin N \cup U
      BY <1>12, <1>13, <2>2, <3>2
    <3> QED BY <3>1, <3>2
  <2>3. ASSUME NEW x \in BindStates, NEW k \in Members, p = MemberPlace(x, k)
        PROVE  \E q \in AllPlaces \ new : Content(from[q]) = Content(p)
    <3>1. x # o
      BY <1>5, <1>7, <2>3, ContentOf DEF Members
    <3>2. p \notin new
      BY <1>13, <2>3, PlacesAreDistinct DEF Members
    <3> QED BY <1>12, <2>3, <3>1, <3>2
  <2>4. ASSUME NEW u \in Threads, NEW i \in Levels, NEW k \in Pointers, p = FramePlace(u, i, k)
        PROVE  \E q \in AllPlaces \ new : Content(from[q]) = Content(p)
    <3>1. ~(u = t /\ i = n + 1 /\ k = "hold")
      BY <1>7, <1>14, <2>4
    <3>2. p \notin new
      BY <1>13, <2>4, PlacesAreDistinct DEF Pointers
    <3> QED BY <1>12, <2>4, <3>1, <3>2
  <2> QED BY <2>2, <2>3, <2>4, PlaceKinds DEF Members, Pointers
<1>17. Exclusive(from, new)
  <2>1. ~IsOnce(Null)
    BY <1>7 DEF IsOnce
  \* Where two places could have the same source.
  <2>2. ASSUME NEW p \in AllPlaces \ new
        PROVE  \/ ~IsOnce(Content(from[p]))
               \/ p = MemberPlace(o, "first") /\ from[p] = c1
               \/ p = MemberPlace(o, "second") /\ from[p] = c2
               \/ p = FramePlace(t, n + 1, "hold") /\ from[p] = h
               \/ /\ from[p] = p
                  /\ p \notin {c1, c2, h}
    <3> HIDE DEF MakingOf
    <3>1. ASSUME NEW x \in Vars, p = VarPlace(x), IsOnce(Content(from[p]))
          PROVE  from[p] = p /\ p \notin {c1, c2, h}
      <4>1. x \notin U /\ x \notin N
        BY <1>11, <1>12, <1>13, <2>1, <3>1
      <4>2. from[p] = p /\ Content(p) = var[x]
        BY <1>7, <1>12, <3>1, <4>1
      <4> QED BY <3>1, <4>1, <4>2 DEF MakingOf
    <3>2. ASSUME NEW x \in BindStates, NEW k \in Members, p = MemberPlace(x, k), x # o
          PROVE  from[p] = p /\ p \notin {c1, c2, h}
      <4>1. p \notin Sources(t)
        BY <3>2, PlacesAreDistinct DEF Sources, Nowhere, Members, Levels
      <4> QED BY <1>12, <3>2, <4>1
    <3>3. ASSUME NEW u \in Threads, NEW i \in Levels, NEW k \in Pointers, p = FramePlace(u, i, k),
                 ~(u = t /\ i = n + 1 /\ k = "hold"), IsOnce(Content(from[p]))
          PROVE  from[p] = p /\ p \notin {c1, c2, h}
      <4>1. from[p] = p
        BY <1>12, <3>3
      <4>2. p # Nowhere(t)
        BY <1>11, <2>1, <3>3, <4>1
      <4>3. p \notin Sources(t)
        BY <3>3, <4>2, PlacesAreDistinct DEF Sources, Pointers
      <4> QED BY <4>1, <4>3
    <3> QED BY <1>12, <3>1, <3>2, <3>3, PlaceKinds DEF Members, Pointers
  <2>3. /\ c1 = c2 \/ c1 = h => ~IsOnce(Content(c1))
        /\ c2 = h => ~IsOnce(Content(c2))
    BY DEF MakingOf
  <2> QED BY <2>2, <2>3 DEF Exclusive
<1>18. Callable(t, n, f, g, from, new)
  <2>1. ASSUME NEW p \in AllPlaces PROVE from[p] = p \/ from[p] \in Sources(t)
    BY <1>1 DEF MadeFrom, Sources
  <2> QED BY <1>11, <1>14, <2>1 DEF Callable
<1>19. Lives(new, o)
  <2>1. r.life = "live" /\ \A x, y \in N : x = y \/ ~r.once
    BY DEF MakingOf
  <2>2. \A p, q \in new : p = q \/ ~r.once
    BY <1>13, <2>1
  <2> QED BY <1>4, <1>5, <1>13, <2>1, <2>2 DEF Lives
<1>20. CopiesAreRepeating'
  <2> DEFINE OnceThen(q) == q \in BindStates /\ bind'[q].once
  <2>1. ASSUME NEW q, q # o, ~IsOnce(q) PROVE ~OnceThen(q)
    BY <1>4, <2>1 DEF IsOnce
  <2>2. ASSUME NEW x \in RepeatingVars PROVE ~OnceThen(var'[x])
    <3>1. x \in Vars /\ ~IsOnce(var[x]) /\ var[x] # o
      BY <1>7 DEF IInv, CopiesAreRepeating, Vars
    <3>2. var'[x] = IF x \in N THEN o ELSE IF x \in U THEN Null ELSE var[x]
      BY <3>1 DEF MakingOf
    <3>3. x \in N => ~r.once
      BY DEF MakingOf
    <3> QED BY <1>4, <1>7, <2>1, <3>1, <3>2, <3>3 DEF IsOnce
  <2>3. ASSUME NEW p \in BindStates, ~bind'[p].once, bind'[p].fun # "split"
        PROVE  ~OnceThen(bind'[p].first) /\ ~OnceThen(bind'[p].second)
    <3>1. CASE p = o
      <4>1. Content(c1) # o /\ Content(c2) # o
        BY <1>6, PlaceKinds, NowhereIsNull, VarTyped DEF Sources
      <4>2. ~IsOnce(r.first) /\ ~IsOnce(r.second) /\ r.first = Content(c1) /\ r.second = Content(c2)
        BY <1>4, <2>3, <3>1 DEF MakingOf
      <4> QED BY <1>4, <2>1, <3>1, <4>1, <4>2
    <3>2. CASE p # o
      <4>1. bind'[p] = bind[p] /\ ~IsOnce(bind[p].first) /\ ~IsOnce(bind[p].second)
        BY <1>4, <2>3, <3>2 DEF IInv, CopiesAreRepeating
      <4>2. bind[p].first # o /\ bind[p].second # o
        BY <1>6, PlaceKinds, ContentOf
      <4> QED BY <2>1, <4>1, <4>2
    <3> QED BY <3>1, <3>2
  <2> QED BY <2>2, <2>3 DEF CopiesAreRepeating, IsOnce
<1>21. Apart' /\ \A p \in AllPlaces : Content(p)' = IF p \in new THEN o ELSE Content(from[p])
  <2>1. f = Fr(t, n) \/ Destroys(f, o)
    BY <1>3
  <2>2. g.at \notin {"winner", "destroy"}
    BY <1>14
  <2> QED BY <1>8, <1>9, <1>10, <1>14, <1>15, <1>16, <1>17, <1>18, <1>19, <1>20, <2>1, <2>2, StepKeeps
<1>22. ASSUME NEW p \in AllPlaces, Content(p) \in BindStates, WillRun(p) PROVE Unchanged(p) /\ WillRun(p)'
  <2>1. ASSUME NEW x \in Vars, p = VarPlace(x) PROVE Unchanged(p) /\ WillRun(p)'
    <3>1. x \in Runners
      BY <1>22, <2>1, VarTyped
    <3>2. p \notin new /\ from[p] = p
      BY <1>12, <1>13, <2>1, <3>1
    <3> QED BY <1>21, <2>1, <3>1, <3>2, VarTyped DEF Unchanged
  <2>2. ASSUME NEW x \in BindStates, NEW k \in Members, p = MemberPlace(x, k)
        PROVE  Unchanged(p) /\ WillRun(p)'
    <3>1. x # o
      BY <1>5, <1>22, <2>2, RunsFrom DEF Members
    <3>2. p \notin new /\ from[p] = p
      BY <1>12, <1>13, <2>2, <3>1, PlacesAreDistinct DEF Members
    <3> QED BY <1>4, <1>21, <1>22, <2>2, <3>1, <3>2, RunsFrom, NextRunsFrom DEF Unchanged, Members
  <2>3. ASSUME NEW u \in Threads, NEW i \in Levels, NEW k \in Pointers, p = FramePlace(u, i, k)
        PROVE  Unchanged(p) /\ WillRun(p)'
    <3>1. ~(u = t /\ i = n + 1)
      BY <1>7, <1>14, <1>22, <2>3
    <3>2. p \notin new /\ from[p] = p
      BY <1>12, <1>13, <2>3, <3>1, PlacesAreDistinct DEF Pointers
    <3>3. Fr(u, i)' = Fr(u, i)
      BY <3>1 DEF Changed
    <3> QED BY <1>21, <1>22, <2>3, <3>2, <3>3, RunsFrom, NextRunsFrom DEF Unchanged, Pointers
  <2> QED BY <2>1, <2>2, <2>3, PlaceKinds DEF Members, Pointers
<1> QED BY <1>21, <1>22

\* The variables when o is made, before v gets it.
Given(v, o, N, U) == [x \in Vars |-> IF x \in N \ {v} THEN o ELSE IF x \in U THEN Null ELSE var[x]]

\* v, and whatever else is in N, gets an o that is made of what the sources have.
LEMMA MadeKeeps ==
  ASSUME IInv, NEW t \in Threads, InProgram(t), NEW v \in Vars \ Runners, NEW o \in BindStates,
         NEW r \in BindType, NEW N \in SUBSET (Vars \ Runners), v \in N,
         NEW c1 \in Sources(t), NEW c2 \in Sources(t), c1 = c2 => c1 = Nowhere(t),
         NEW U \in SUBSET (Vars \ Runners),
         \A x \in Vars : x \in U <=> x \notin RepeatingVars /\ (VarPlace(x) = c1 \/ VarPlace(x) = c2),
         \A x \in N \ {v} : x \in U \/ var[x] = Null,
         NEW w, w = Given(v, o, N, U), Assign(t, w, v, o),
         bind[o].life = "none", bind' = [bind EXCEPT ![o] = r],
         r.life = "live", MadeOf(r), r.first = Content(c1), r.second = Content(c2),
         r.fun \in {"callback", "split"} => r.first # Null,
         r.fun = "then" => r.second # Null,
         r.once => N = {v}, \A x \in N : x \in RepeatingVars => ~r.once,
         ~r.once /\ r.fun # "split" => ~IsOnce(r.first) /\ ~IsOnce(r.second),
         UNCHANGED <<valid, runs, cancelled, crash>>,
         scoped' \subseteq BindStates, scoped' \subseteq scoped \cup {Content(c1)},
         r.fun = "runner" \/ scoped' \subseteq scoped
  PROVE  Consistent'
<1>1. PICK n \in Levels : n = Depth(t)
  BY VarTyped, FrameTyped DEF Levels
<1>2. Fr(t, n + 1) = NoFrame /\ Fr(t, n).at \in {"none", "body"}
  <2>1. frames[t] = <<>> => Fr(t, n) = NoFrame
    BY <1>1, VarTyped, FrameTyped
  <2>2. frames[t] # <<>> => Fr(t, n) = Top(t)
    BY <1>1, VarTyped, FrameTyped
  <2> QED BY <1>1, <2>1, <2>2, VarTyped, TopFrames DEF InProgram, NoFrame
<1>3. PICK h : h = IF v \in U THEN Nowhere(t) ELSE VarPlace(v)
  OBVIOUS
<1>4. h \in Sources(t)
  BY <1>3 DEF Sources
<1>5. Content(Nowhere(t)) = Null /\ ~IsOnce(Null)
  BY NowhereIsNull, VarTyped DEF IsOnce
<1>6. \A x \in Vars : /\ var[x] \in OrNull(BindStates) /\ Content(VarPlace(x)) = var[x]
                      /\ x \in RepeatingVars => ~IsOnce(var[x])
  BY VarTyped DEF IInv, CopiesAreRepeating
<1>7. w \in [Vars -> OrNull(BindStates)] /\ w[v] = Content(h) /\ o \in OrNull(BindStates)
  BY <1>3, <1>5, <1>6 DEF OrNull, Given
<1>8. /\ var' = [w EXCEPT ![v] = o] /\ var' \in [Vars -> OrNull(BindStates)]
      /\ frames' \in [Threads -> Seq(FrameType)]
      /\ Changed(t, n, Fr(t, n), LetGo(w[v]))
  BY <1>1, <1>7, VarTyped, AssignView
<1>9. PICK g : g = LetGo(Content(h))
  OBVIOUS
<1>10. Changed(t, n, Fr(t, n), g)
  BY <1>7, <1>8, <1>9
<1>11. MakingOf(t, o, r, N, U, c1, c2, h)
  <2>1. var' = [x \in Vars |-> IF x \in N THEN o ELSE IF x \in U THEN Null ELSE var[x]]
    BY <1>8 DEF Given
  <2>2. ASSUME NEW x \in N \cup U, var[x] # Null PROVE VarPlace(x) \in {c1, c2, h}
    BY <1>3, <2>2
  <2>3. ASSUME NEW x \in Vars, VarPlace(x) \in {c1, c2, h}, IsOnce(var[x]) PROVE x \in N \cup U
    <3>1. x \notin RepeatingVars
      BY <1>6, <2>3
    <3>2. CASE VarPlace(x) = c1 \/ VarPlace(x) = c2
      BY <3>1, <3>2
    <3>3. CASE VarPlace(x) = h
      BY <1>3, <1>5, <1>6, <2>3, <3>3, PlacesAreDistinct
    <3> QED BY <2>3, <3>2, <3>3
  <2>4. ASSUME NEW c \in {c1, c2}, c = h PROVE ~IsOnce(Content(c))
    <3>1. CASE v \in U
      BY <1>3, <1>5, <2>4, <3>1
    <3>2. CASE v \notin U
      BY <1>3, <1>6, <2>4, <3>2
    <3> QED BY <3>1, <3>2
  <2>5. c1 = c2 => ~IsOnce(Content(c1))
    BY <1>5
  <2>6. \A x, y \in N : x = y \/ ~r.once
    OBVIOUS
  <2> QED BY <2>1, <2>2, <2>3, <2>4, <2>5, <2>6 DEF MakingOf
<1>12. /\ Apart'
       /\ \A p \in AllPlaces : Content(p) \in BindStates /\ WillRun(p) => Unchanged(p) /\ WillRun(p)'
  <2>1. N # {}
    OBVIOUS
  <2> QED BY <1>2, <1>4, <1>9, <1>10, <1>11, <2>1, MadeMoves
<1>13. /\ bind' \in [BindStates -> BindType] /\ bind'[o] = r
       /\ \A x \in BindStates \ {o} : bind'[x] = bind[x]
  BY OneChanges
<1>14. ScopedAreAhead'
  <2> SUFFICES ASSUME NEW q \in scoped'
               PROVE  /\ bind'[q].life # "none"
                      /\ bind'[q].fun = "user" /\ runs'[q] = 0
                         => \E p \in AllPlaces : Content(p)' = q /\ WillRun(p)'
    BY DEF ScopedAreAhead
  <2>1. CASE q \in scoped
    <3>1. /\ q \in BindStates /\ bind[q].life # "none"
          /\ bind[q].fun = "user" /\ runs[q] = 0 => \E p \in AllPlaces : Content(p) = q /\ WillRun(p)
      BY <2>1, VarTyped DEF IInv, ScopedAreAhead
    <3>2. q # o /\ bind'[q] = bind[q] /\ runs' = runs
      BY <1>13, <3>1
    <3> QED BY <1>12, <3>1, <3>2 DEF Unchanged
  <2>2. CASE q \notin scoped
    <3>1. r.fun = "runner" /\ q = Content(c1) /\ q \in BindStates
      BY <2>2
    <3>2. bind[q].life # "none"
      BY <1>5, <1>6, <3>1, VarTyped DEF Sources
    <3>3. MemberPlace(o, "first") \in AllPlaces /\ Content(MemberPlace(o, "first"))' = q
          /\ WillRun(MemberPlace(o, "first"))'
      BY <1>13, <3>1, PlaceKinds, NextContentOf, NextRunsFrom
    <3> QED BY <1>13, <3>1, <3>2, <3>3
  <2> QED BY <2>1, <2>2
<1>15. Typed'
  BY <1>8, <1>13 DEF Typed, IInv, TypeOK
<1> QED BY <1>12, <1>14, <1>15 DEF Consistent

\* What is made, member by member.
LEMMA MadeIs ==
  ASSUME NEW o \in BindStates, NEW once \in BOOLEAN, NEW fun \in {"user", "weak", "callback", "then", "split", "runner"},
         NEW x \in OrNull(BindStates), NEW y \in OrNull(BindStates),
         Made(o, once, fun, x, y),
         fun \in {"user", "weak"} => x = Null, fun # "then" => y = Null,
         fun = "runner" => once, fun = "split" => ~once
  PROVE  \E r \in BindType :
           /\ bind[o].life = "none" /\ bind' = [bind EXCEPT ![o] = r] /\ MadeOf(r)
           /\ r.life = "live" /\ r.once = once /\ r.fun = fun /\ r.first = x /\ r.second = y
<1>1. PICK r : r = [life |-> "live", once |-> once, fun |-> fun, first |-> x, second |-> y, has_run |-> FALSE]
  OBVIOUS
<1>2. r \in BindType /\ MadeOf(r)
  BY <1>1 DEF BindType, MadeOf
<1> QED BY <1>1, <1>2 DEF Made

\* A callback variable is a OnceCallback or a RepeatingCallback.
LEMMA VarKinds ==
  /\ \A v \in Vars \ Runners : v \in OnceVars <=> v \notin RepeatingVars
  /\ OnceVars \subseteq Vars \ Runners
  /\ \A t \in Threads : VarsOf[t] \subseteq Vars
BY VarsAssumption DEF Vars

\* A function or method is bound.
LEMMA BindFunctionKeeps ==
  ASSUME IInv, NEW t \in Threads, NEW v \in Vars \ Runners, NEW o \in BindStates,
         NEW f \in {"user", "weak"}, BindFunction(t, v, o, f)
  PROVE  Consistent'
<1>1. PICK once \in BOOLEAN : once = (v \in OnceVars)
  <2>1. (v \in OnceVars) \in BOOLEAN
    OBVIOUS
  <2> QED BY <2>1, Zenon
<1>2. Made(o, once, f, Null, Null) /\ Null \in OrNull(BindStates)
  BY <1>1 DEF BindFunction, OrNull
<1>3. PICK r \in BindType :
        /\ bind[o].life = "none" /\ bind' = [bind EXCEPT ![o] = r] /\ MadeOf(r)
        /\ r.life = "live" /\ r.once = once /\ r.fun = f /\ r.first = Null /\ r.second = Null
  BY <1>2, MadeIs
<1>4. PICK c, N, U : c = Nowhere(t) /\ N = {v} /\ U = {}
  OBVIOUS
<1>5. c \in Sources(t) /\ Content(c) = Null /\ ~IsOnce(Null)
      /\ \A x \in Vars : VarPlace(x) # c
  BY <1>4, NowhereIsNull, VarTyped, PlacesAreDistinct DEF Sources, IsOnce, Nowhere, Levels
<1>6. PICK w : w = Given(v, o, N, U)
  OBVIOUS
<1>7. w = var
  BY <1>4, <1>6, VarTyped DEF Given
<1>8. Assign(t, w, v, o) /\ InProgram(t) /\ UNCHANGED <<valid, runs, cancelled, crash>> /\ scoped' = scoped
  BY <1>7 DEF BindFunction
<1>9. N \in SUBSET (Vars \ Runners) /\ U \in SUBSET (Vars \ Runners) /\ v \in N
  BY <1>4
<1>10. \A x \in Vars : x \in U <=> x \notin RepeatingVars /\ (VarPlace(x) = c \/ VarPlace(x) = c)
  BY <1>4, <1>5
<1>11. scoped' \subseteq BindStates /\ scoped' \subseteq scoped \cup {Content(c)} /\ scoped' \subseteq scoped
  BY <1>8, VarTyped
<1>12. \A x \in N : x \in RepeatingVars => ~r.once
  BY <1>1, <1>3, <1>4, VarKinds
<1>13. \A x \in N \ {v} : x \in U \/ var[x] = Null
  BY <1>4
<1>14. r.first = Content(c) /\ r.second = Content(c) /\ r.fun \notin {"callback", "split", "then"}
       /\ ~IsOnce(r.first) /\ ~IsOnce(r.second)
  BY <1>3, <1>5
<1> QED BY <1>3, <1>4, <1>5, <1>6, <1>8, <1>9, <1>10, <1>11, <1>12, <1>13, <1>14, MadeKeeps

\* A callback variable as a source.
LEMMA SourceIs ==
  ASSUME IInv, NEW t \in Threads, NEW s \in Vars \ Runners
  PROVE  /\ VarPlace(s) \in Sources(t) /\ Nowhere(t) \in Sources(t)
         /\ \A x \in Vars : VarPlace(x) # Nowhere(t) /\ (VarPlace(x) = VarPlace(s) => x = s)
         /\ Content(VarPlace(s)) = var[s] /\ Content(Nowhere(t)) = Null /\ ~IsOnce(Null)
         /\ var[s] \in OrNull(BindStates) /\ Null \in OrNull(BindStates)
         /\ s \in RepeatingVars => ~IsOnce(var[s])
<1>1. /\ Content(VarPlace(s)) = var[s] /\ Content(Nowhere(t)) = Null
      /\ ~IsOnce(Null) /\ var[s] \in OrNull(BindStates) /\ Null \in OrNull(BindStates)
  BY VarTyped, NowhereIsNull DEF IsOnce, OrNull
<1>2. /\ \A x \in Vars : VarPlace(x) # Nowhere(t) /\ (VarPlace(x) = VarPlace(s) => x = s)
      /\ VarPlace(s) \in Sources(t) /\ Nowhere(t) \in Sources(t)
  BY PlacesAreDistinct DEF Sources, Nowhere, Levels
<1>3. s \in RepeatingVars => ~IsOnce(var[s])
  BY DEF IInv, CopiesAreRepeating
<1> QED BY <1>1, <1>2, <1>3

\* o is made of what s has.
LEMMA BoundKeeps ==
  ASSUME IInv, NEW t \in Threads, InProgram(t), NEW v \in Vars \ Runners, NEW o \in BindStates,
         NEW s \in Vars \ Runners, var[s] # Null, NEW N \in SUBSET (Vars \ Runners), v \in N,
         NEW once \in BOOLEAN, NEW fun \in {"callback", "split", "runner"},
         Made(o, once, fun, var[s], Null), Assign(t, Given(v, o, N, {s} \ RepeatingVars), v, o),
         \A x \in N \ {v} : x \in {s} \ RepeatingVars \/ var[x] = Null,
         fun = "runner" => once, fun = "split" => ~once, once => N = {v},
         \A x \in N : x \in RepeatingVars => ~once,
         fun = "callback" /\ ~once => s \in RepeatingVars,
         UNCHANGED <<valid, runs, cancelled, crash>>,
         scoped' \subseteq scoped \cup {var[s]}, fun = "runner" \/ scoped' \subseteq scoped
  PROVE  Consistent'
<1>1. PICK c1, c2, U : c1 = VarPlace(s) /\ c2 = Nowhere(t) /\ U = {s} \ RepeatingVars
  OBVIOUS
<1>2. /\ \A x \in Vars : x \in U <=> x \notin RepeatingVars /\ (VarPlace(x) = c1 \/ VarPlace(x) = c2)
      /\ c1 \in Sources(t) /\ c2 \in Sources(t) /\ c1 # c2
      /\ Content(c1) = var[s] /\ Content(c2) = Null /\ ~IsOnce(Null)
      /\ s \in RepeatingVars => ~IsOnce(var[s])
      /\ var[s] \in OrNull(BindStates) /\ Null \in OrNull(BindStates)
  BY <1>1, SourceIs
<1>3. PICK r \in BindType :
        /\ bind[o].life = "none" /\ bind' = [bind EXCEPT ![o] = r] /\ MadeOf(r)
        /\ r.life = "live" /\ r.once = once /\ r.fun = fun /\ r.first = var[s] /\ r.second = Null
  <2>1. fun \in {"user", "weak", "callback", "then", "split", "runner"}
    OBVIOUS
  <2> QED BY <1>2, <2>1, MadeIs
<1>4. PICK w : w = Given(v, o, N, U)
  OBVIOUS
<1>5. Assign(t, w, v, o)
  BY <1>1, <1>4
<1>6. U \in SUBSET (Vars \ Runners) /\ \A x \in N \ {v} : x \in U \/ var[x] = Null
  BY <1>1
<1>7. scoped' \subseteq BindStates /\ scoped' \subseteq scoped \cup {Content(c1)}
      /\ (r.fun = "runner" \/ scoped' \subseteq scoped)
  BY <1>2, <1>3, VarTyped DEF OrNull
<1>8. /\ r.first = Content(c1) /\ r.second = Content(c2) /\ r.first # Null /\ r.fun # "then"
      /\ r.once => N = {v}
      /\ \A x \in N : x \in RepeatingVars => ~r.once
  BY <1>2, <1>3
<1>9. ~r.once /\ r.fun # "split" => ~IsOnce(r.first) /\ ~IsOnce(r.second)
  BY <1>2, <1>3
<1> QED BY <1>2, <1>3, <1>4, <1>5, <1>6, <1>7, <1>8, <1>9, MadeKeeps

\* What Passed() leaves in the variables.
LEMMA PassedIs ==
  ASSUME IInv, NEW v \in Vars \ Runners, NEW o \in BindStates, NEW s \in Vars \ Runners
  PROVE  Passed(s) = Given(v, o, {v}, {s} \ RepeatingVars)
BY VarTyped DEF Passed, MovedFrom, Given

\* Whether v makes a once callback, as a value.
LEMMA OnceOrNot ==
  ASSUME NEW v
  PROVE  \E once \in BOOLEAN : once = (v \in OnceVars)
<1>1. (v \in OnceVars) \in BOOLEAN
  OBVIOUS
<1> QED BY <1>1, Zenon

\* A callback is bound as a functor.
LEMMA BindCallbackKeeps ==
  ASSUME IInv, NEW t \in Threads, NEW v \in Vars \ Runners, NEW o \in BindStates,
         NEW s \in Vars \ Runners, v \in RepeatingVars => s \in RepeatingVars, BindCallback(t, v, o, s)
  PROVE  Consistent'
<1>1. CASE var[s] = Null
  BY <1>1, FailKeeps DEF BindCallback
<1>2. CASE var[s] # Null
  <2>1. PICK once \in BOOLEAN : once = (v \in OnceVars)
    BY OnceOrNot
  <2>2. /\ Made(o, once, "callback", var[s], Null) /\ InProgram(t)
        /\ Assign(t, Given(v, o, {v}, {s} \ RepeatingVars), v, o)
        /\ UNCHANGED <<valid, runs, cancelled, crash>> /\ scoped' = scoped
    BY <1>2, <2>1, PassedIs DEF BindCallback
  <2>3. /\ v \in RepeatingVars => ~once
        /\ ~once => s \in RepeatingVars
    BY <2>1, VarKinds
  <2>4. PICK N \in SUBSET (Vars \ Runners) : N = {v}
    OBVIOUS
  <2> QED BY <1>2, <2>2, <2>3, <2>4, BoundKeeps
<1> QED BY <1>1, <1>2

\* A ScopedClosureRunner is bound.
LEMMA BindRunnerKeeps ==
  ASSUME IInv, NEW t \in Threads, NEW v \in OnceVars, NEW o \in BindStates, NEW s \in Vars \ Runners,
         BindRunner(t, v, o, s)
  PROVE  Consistent'
<1>1. /\ Made(o, TRUE, "runner", var[s], Null) /\ InProgram(t) /\ var[s] # Null
      /\ v \in Vars \ Runners /\ v \notin RepeatingVars
      /\ Assign(t, Given(v, o, {v}, {s} \ RepeatingVars), v, o)
      /\ UNCHANGED <<valid, runs, cancelled, crash>> /\ scoped' = scoped \cup {var[s]}
  BY PassedIs, VarKinds DEF BindRunner
<1>2. PICK N \in SUBSET (Vars \ Runners) : N = {v}
  BY <1>1
<1> QED BY <1>1, <1>2, BoundKeeps

\* A callback is split.
LEMMA SplitKeeps ==
  ASSUME IInv, NEW t \in Threads, NEW v \in OnceVars, NEW u \in OnceVars, v # u, NEW o \in BindStates,
         NEW s \in Vars \ Runners, SplitOnceCallback(t, v, u, o, s)
  PROVE  Consistent'
<1>1. v \in Vars \ Runners /\ v \notin RepeatingVars /\ u \in Vars \ Runners /\ u \notin RepeatingVars
  BY VarKinds
<1>2. PICK N \in SUBSET (Vars \ Runners) : N = {v, u}
  BY <1>1
<1>3. PICK w : w = Given(v, o, N, {s} \ RepeatingVars)
  OBVIOUS
<1>4. /\ Passed(s) \in [Vars -> OrNull(BindStates)]
      /\ \A x \in Vars : Passed(s)[x] = IF x \in {s} \ RepeatingVars THEN Null ELSE var[x]
  BY VarTyped DEF Passed, MovedFrom, OrNull
<1>5. /\ \A x \in {v, u} : x \in {s} \ RepeatingVars \/ var[x] = Null
      /\ var' = [Passed(s) EXCEPT ![v] = o, ![u] = o] /\ frames' = frames
  BY <1>1, <1>4 DEF SplitOnceCallback
<1>6. w[v] = Null /\ var' = [w EXCEPT ![v] = o]
  BY <1>1, <1>2, <1>3, <1>4, <1>5 DEF Given
<1>7. Assign(t, Given(v, o, N, {s} \ RepeatingVars), v, o)
  BY <1>3, <1>5, <1>6 DEF Assign
<1>8. /\ Made(o, FALSE, "split", var[s], Null) /\ InProgram(t) /\ var[s] # Null
      /\ UNCHANGED <<valid, runs, cancelled, crash>> /\ scoped' = scoped
  BY DEF SplitOnceCallback
<1>9. v \in N /\ \A x \in N \ {v} : x \in {s} \ RepeatingVars \/ var[x] = Null
  BY <1>2, <1>5
<1>10. PICK once \in BOOLEAN : once = FALSE
  OBVIOUS
<1>11. Made(o, once, "split", var[s], Null) /\ ~once
  BY <1>8, <1>10
<1> QED BY <1>1, <1>7, <1>8, <1>9, <1>11, BoundKeeps

\* Two callbacks are chained.
LEMMA ThenKeeps ==
  ASSUME IInv, NEW t \in Threads, NEW v \in Vars \ Runners, NEW o \in BindStates,
         NEW s \in Vars \ Runners, NEW n \in Vars \ Runners, s # n,
         v \in RepeatingVars => s \in RepeatingVars /\ n \in RepeatingVars, Then(t, v, o, s, n)
  PROVE  Consistent'
<1>1. CASE var[n] = Null
  BY <1>1, FailKeeps DEF Then
<1>2. CASE var[n] # Null
  <2>1. PICK once \in BOOLEAN : once = (v \in OnceVars)
    BY OnceOrNot
  <2>2. PICK c1, c2, U, N : c1 = VarPlace(s) /\ c2 = VarPlace(n) /\ U = {s, n} \ RepeatingVars /\ N = {v}
    OBVIOUS
  <2>3. /\ \A x \in Vars : x \in U <=> x \notin RepeatingVars /\ (VarPlace(x) = c1 \/ VarPlace(x) = c2)
        /\ c1 \in Sources(t) /\ c2 \in Sources(t) /\ c1 # c2
        /\ Content(c1) = var[s] /\ Content(c2) = var[n]
        /\ s \in RepeatingVars => ~IsOnce(var[s])
        /\ n \in RepeatingVars => ~IsOnce(var[n])
        /\ var[s] \in OrNull(BindStates) /\ var[n] \in OrNull(BindStates)
    BY <2>2, SourceIs
  <2>4. Given(v, o, N, U) = [Passed(s) EXCEPT ![n] = Passed(n)[n]]
    BY <2>2, VarTyped DEF Given, Passed, MovedFrom
  <2>5. /\ Made(o, once, "then", var[s], var[n]) /\ InProgram(t)
        /\ Assign(t, Given(v, o, N, U), v, o)
        /\ UNCHANGED <<valid, runs, cancelled, crash>> /\ scoped' = scoped
    BY <1>2, <2>1, <2>4 DEF Then
  <2>6. PICK r \in BindType :
          /\ bind[o].life = "none" /\ bind' = [bind EXCEPT ![o] = r] /\ MadeOf(r)
          /\ r.life = "live" /\ r.once = once /\ r.fun = "then" /\ r.first = var[s] /\ r.second = var[n]
    BY <2>3, <2>5, MadeIs
  <2>7. /\ U \in SUBSET (Vars \ Runners) /\ N \in SUBSET (Vars \ Runners) /\ v \in N
        /\ \A x \in N \ {v} : x \in U \/ var[x] = Null
    BY <2>2
  <2>8. scoped' \subseteq BindStates /\ scoped' \subseteq scoped \cup {Content(c1)} /\ scoped' \subseteq scoped
    BY <2>5, VarTyped
  <2>9. /\ r.first = Content(c1) /\ r.second = Content(c2) /\ r.second # Null
        /\ r.fun \notin {"callback", "split"} /\ N = {v}
        /\ \A x \in N : x \in RepeatingVars => ~r.once
    BY <1>2, <2>1, <2>2, <2>3, <2>6, VarKinds
  <2>10. ~r.once => ~IsOnce(r.first) /\ ~IsOnce(r.second)
    BY <2>1, <2>3, <2>6, VarKinds
  <2>11. PICK w : w = Given(v, o, N, U)
    OBVIOUS
  <2>12. Assign(t, w, v, o)
    BY <2>5, <2>11
  <2> QED BY <2>3, <2>5, <2>6, <2>7, <2>8, <2>9, <2>10, <2>11, <2>12, MadeKeeps
<1> QED BY <1>1, <1>2

-----------------------------------------------------------------------------
(* Cancellation                                                            *)

\* A query is answered.
LEMMA IsCancelledKeeps ==
  ASSUME IInv, NEW t \in Threads, NEW v \in Vars, IsCancelled(t, v) PROVE Consistent'
<1>1. CASE var[v] = Null
  BY <1>1, FailKeeps DEF IsCancelled
<1>2. CASE var[v] # Null
  <2>1. /\ UNCHANGED <<var, bind, frames, valid, runs, scoped, crash>>
        /\ \A o \in cancelled' : o \in cancelled \/ (o \in BindStates /\ bind[o].fun = "weak" /\ ~valid)
    BY <1>2 DEF IsCancelled
  <2>2. \A o \in BindStates : bind[o].fun = "weak" => bind[o].life # "none"
    BY DEF IInv, AsMade, MadeOf
  <2>3. cancelled' \subseteq BindStates
    BY <2>1 DEF IInv, TypeOK
  <2>4. Typed' /\ CancelledAreInvalid' /\ OriginalThere'
    BY <2>1, <2>2, <2>3 DEF IInv, TypeOK, Typed, CancelledAreInvalid, OriginalThere
  <2> QED BY <2>1, <2>4, StillKeeps
<1> QED BY <1>1, <1>2

\* The WeakPtrs are invalidated.
LEMMA InvalidateKeeps ==
  ASSUME IInv, NEW t \in Threads, InvalidateWeakPtrs(t) PROVE Consistent'
<1>1. UNCHANGED <<var, bind, frames, runs, cancelled, scoped, crash>> /\ valid' = FALSE
  BY DEF InvalidateWeakPtrs
<1>2. Typed' /\ CancelledAreInvalid' /\ OriginalThere'
  BY <1>1 DEF IInv, TypeOK, Typed, CancelledAreInvalid, OriginalThere
<1> QED BY <1>1, <1>2, StillKeeps

\* Nothing happens.
LEMMA StutterKeeps ==
  ASSUME IInv, UNCHANGED vars PROVE Consistent'
<1>1. UNCHANGED <<var, bind, frames, valid, runs, cancelled, scoped, crash>>
  BY DEF vars
<1>2. Typed' /\ CancelledAreInvalid' /\ OriginalThere'
  BY <1>1 DEF IInv, TypeOK, Typed, CancelledAreInvalid, OriginalThere
<1> QED BY <1>1, <1>2, StillKeeps

-----------------------------------------------------------------------------
(* The invariant                                                           *)

\* Whatever the program does with its variables keeps the invariant.
LEMMA ProgramKeeps ==
  ASSUME IInv, NEW t \in Threads, Program(t) PROVE Consistent'
<1> DEFINE Callbacks == VarsOf[t] \ Runners
           Onces == VarsOf[t] \cap OnceVars
           Scopes == VarsOf[t] \cap Runners
<1>1. /\ Callbacks \subseteq Vars \ Runners /\ Onces \subseteq OnceVars /\ Scopes \subseteq Runners
      /\ Callbacks \subseteq Vars
  BY VarKinds
<1> HIDE DEF Callbacks, Onces, Scopes
<1>2. CASE \E v \in Callbacks, o \in BindStates :
             \/ \E f \in {"user", "weak"} : BindFunction(t, v, o, f)
             \/ \E s \in Callbacks :
                  /\ v \in RepeatingVars => s \in RepeatingVars
                  /\ \/ BindCallback(t, v, o, s)
                     \/ \E n \in Callbacks \ {s} :
                          (v \in RepeatingVars => n \in RepeatingVars) /\ Then(t, v, o, s, n)
  BY <1>1, <1>2, BindFunctionKeeps, BindCallbackKeeps, ThenKeeps
<1>3. CASE \E v \in Onces, o \in BindStates, s \in Callbacks :
             \/ BindRunner(t, v, o, s)
             \/ \E w \in Onces \ {v} : SplitOnceCallback(t, v, w, o, s)
  BY <1>1, <1>3, BindRunnerKeeps, SplitKeeps
<1>4. CASE \E v \in Callbacks :
             \/ \E s \in Callbacks : Move(t, v, s)
             \/ Reset(t, v)
             \/ \E c \in BOOLEAN : Run(t, v, c)
             \/ IsCancelled(t, v)
             \/ \E u \in Threads \ {t} : \E w \in VarsOf[u] \cap OnceVars : Post(t, v, w)
  BY <1>1, <1>4, MoveKeeps, ResetKeeps, RunKeeps, IsCancelledKeeps, PostKeeps
<1>5. CASE \E r \in Scopes :
             \/ \E s \in Callbacks : ReplaceClosure(t, r, s)
             \/ \E v \in Onces : Release(t, r, v)
             \/ RunAndReset(t, r)
             \/ \E q \in Scopes : MoveRunner(t, r, q)
  BY <1>1, <1>5, ReplaceClosureKeeps, ReleaseClosureKeeps, RunAndResetKeeps, MoveRunnerKeeps
<1>6. CASE InvalidateWeakPtrs(t)
  BY <1>6, InvalidateKeeps
<1> QED BY <1>2, <1>3, <1>4, <1>5, <1>6 DEF Program, Callbacks, Onces, Scopes

\* In the beginning nothing is bound.
LEMMA InitIsConsistent == Init => IInv
<1> SUFFICES ASSUME Init PROVE IInv
  OBVIOUS
<1>1. TypeOK
  BY BoundAssumption DEF Init, TypeOK, BindType, OrNull
<1>2. Null \notin BindStates /\ \A o \in BindStates : Null # o
  BY NullAssumption
<1>3. \A t \in Threads, i \in Levels : Fr(t, i) = NoFrame
  BY DEF Init, Fr, Depth, Levels
<1>4. \A p \in AllPlaces : Content(p) = Null
  <2>1. \A k \in Pointers : Referred(NoFrame[k]) = Null
    BY <1>2 DEF Referred, NoFrame, Pointers
  <2>2. \A t \in Threads, i \in Levels, k \in Pointers : Content(FramePlace(t, i, k)) = Null
    BY <1>3, <2>1, ContentOf DEF Pointers
  <2>3. \A v \in Vars : Content(VarPlace(v)) = Null
    BY ContentOf DEF Init
  <2>4. \A o \in BindStates, k \in Members : Content(MemberPlace(o, k)) = Null
    BY ContentOf DEF Init, Members
  <2> QED BY <2>2, <2>3, <2>4, PlaceKinds DEF Members, Pointers
<1>5. Shapes /\ DestroyedIsDying /\ WinnersRun
  <2>1. Shape(NoFrame) /\ NoFrame.at = "none"
    BY DEF Shape, NoFrame
  <2> QED BY <1>3, <2>1 DEF Shapes, DestroyedIsDying, WinnersRun, Winner
<1>6. OnePlace /\ LiveIsHeld /\ SpentOnlyOnce
  BY <1>2, <1>4 DEF OnePlace, LiveIsHeld, SpentOnlyOnce, Held, IsOnce, Init
<1>7. AsMade /\ RunsOnce /\ OriginalsWait /\ ScopedAreAhead /\ CancelledAreInvalid /\ OriginalThere
  BY DEF Init, AsMade, MadeOf, RunsOnce, OriginalsWait, ScopedAreAhead, CancelledAreInvalid, OriginalThere
<1>8. CopiesAreRepeating
  BY <1>2 DEF Init, CopiesAreRepeating, IsOnce, Vars
<1> QED BY <1>1, <1>5, <1>6, <1>7, <1>8 DEF IInv

\* Every step keeps the invariant.
LEMMA NextKeeps ==
  ASSUME IInv, [Next]_vars PROVE IInv'
<1>1. Consistent'
  <2>1. CASE UNCHANGED vars
    BY <2>1, StutterKeeps
  <2>2. ASSUME NEW t \in Threads, Program(t) PROVE Consistent'
    BY <2>2, ProgramKeeps
  <2>3. ASSUME NEW t \in Threads, InvokeFunction(t) PROVE Consistent'
    BY <2>3, InvokeFunctionKeeps
  <2>4. ASSUME NEW t \in Threads, InvokeCallback(t) \/ InvokeThen(t) \/ RunThen(t) PROVE Consistent'
    BY <2>4, InvokeCallbackKeeps, InvokeThenKeeps, RunThenKeeps
  <2>5. ASSUME NEW t \in Threads, InvokeSplit(t) \/ RunOriginal(t) PROVE Consistent'
    BY <2>5, InvokeSplitKeeps, RunOriginalKeeps
  <2>6. ASSUME NEW t \in Threads, Leave(t) \/ Return(t) \/ TakeClosure(t) PROVE Consistent'
    BY <2>6, LeaveKeeps, ReturnKeeps, TakeClosureKeeps
  <2>7. ASSUME NEW t \in Threads, ReleaseRef(t) \/ Destroy(t) PROVE Consistent'
    BY <2>7, ReleaseKeeps, DestroyKeeps
  <2> QED BY <2>1, <2>2, <2>3, <2>4, <2>5, <2>6, <2>7 DEF Next
<1>2. steps' \in Nat
  <2>1. steps \in Nat /\ (steps' = steps + 1 \/ steps' = steps)
    BY DEF IInv, TypeOK, Next, vars
  <2> QED BY <2>1
<1> QED BY <1>1, <1>2 DEF Consistent, Apart, Typed, IInv, TypeOK

\* The invariant holds throughout.
LEMMA Invariance == Spec => []IInv
BY InitIsConsistent, NextKeeps, PTL DEF Spec

\* The variables, bind states and call stacks have their types throughout.
THEOREM TypeCorrect == Spec => []TypeOK
<1>1. IInv => TypeOK
  BY DEF IInv
<1> QED BY <1>1, Invariance, PTL

\* A bind state exists as long as somebody holds a reference to it or its functor
\* runs, and no longer: whatever a functor does to the callbacks of its thread,
\* the bound arguments it was called with stay (the holder in Run() && and Run()
\* const& of callback.h).
THEOREM BoundStatesLiveWhileHeld == Spec => []BoundWhileHeld
<1>1. IInv => BoundOutlivesRun
  <2> SUFFICES ASSUME IInv, NEW t \in Threads, NEW i \in DOMAIN frames[t],
                      frames[t][i].at \in {"invoke", "body", "c1", "c2", "winner", "return"}
               PROVE  bind[frames[t][i].bs].life = "live"
    BY DEF BoundOutlivesRun
  <2>1. i \in Levels /\ Fr(t, i) = frames[t][i]
    <3>1. frames[t] \in Seq(FrameType)
      BY DEF IInv, TypeOK
    <3>2. DOMAIN frames[t] = 1 .. Depth(t) /\ Depth(t) \in Nat
      BY <3>1 DEF Depth
    <3> QED BY <3>2 DEF Fr, Levels
  <2>2. Fr(t, i).bs \in BindStates /\ Fr(t, i).hold = Fr(t, i).bs
    BY <2>1 DEF IInv, Shapes, Shape
  <2>3. Content(FramePlace(t, i, "hold")) = Fr(t, i).bs /\ FramePlace(t, i, "hold") \in AllPlaces
    BY <2>1, <2>2, ContentOf, PlaceKinds DEF Referred
  <2> QED BY <2>1, <2>2, <2>3 DEF IInv, LiveIsHeld, Held
<1>2. IInv => LiveIffHeld
  <2> SUFFICES ASSUME IInv, NEW o \in BindStates PROVE (bind[o].life = "live") = (Places(o) # {})
    BY DEF LiveIffHeld
  <2>1. Places(o) # {} <=> Held(o)
    <3>1. Places(o) = {p \in AllPlaces : Content(p) = o}
      BY PlacesOf DEF IInv
    <3> QED BY <3>1 DEF Held
  <2>2. bind[o].life = "live" <=> Places(o) # {}
    BY <2>1 DEF IInv, LiveIsHeld
  <2> QED BY <2>2
<1>3. IInv => BoundWhileHeld
  BY <1>1, <1>2 DEF BoundWhileHeld
<1> QED BY <1>3, Invariance, PTL

\* Once callbacks run once, the half of a split callback that wins finds the
\* original, and a closure in a ScopedClosureRunner has run when it is gone.
THEOREM PromisesAreKept == Spec => []RunsAsPromised
<1>1. IInv => ScopedClosuresRun
  <2> SUFFICES ASSUME IInv, NEW o \in scoped, bind[o].fun = "user", bind[o].life = "dead"
               PROVE  runs[o] >= 1
    BY DEF ScopedClosuresRun
  <2>1. o \in BindStates /\ runs[o] \in 0 .. 2
    BY DEF IInv, TypeOK
  <2>2. \A p \in AllPlaces : Content(p) # o
    BY <2>1 DEF IInv, LiveIsHeld, Held
  <2>3. runs[o] # 0
    BY <2>2 DEF IInv, ScopedAreAhead
  <2> QED BY <2>1, <2>3
<1>2. IInv => RunsAsPromised
  BY <1>1 DEF IInv, RunsAsPromised, WinnerHasOriginal, OriginalThere
<1> QED BY <1>2, Invariance, PTL

\* No step calls the functor of a callback that IsCancelled() has said to be
\* cancelled.
THEOREM CancelledNeverRun == Spec => CancelledStaysCancelled
<1>1. ASSUME IInv, Next PROVE \A o \in cancelled : runs'[o] = runs[o]
  <2> SUFFICES ASSUME NEW o \in cancelled PROVE runs'[o] = runs[o]
    OBVIOUS
  <2>1. o \in BindStates /\ bind[o].fun = "weak" /\ ~valid
    BY <1>1 DEF IInv, TypeOK, CancelledAreInvalid
  <2>2. PICK t \in Threads : UNCHANGED runs \/ InvokeFunction(t)
    <3>1. ASSUME NEW t \in Threads, Program(t) PROVE UNCHANGED runs
      BY <3>1 DEF Program, BindFunction, BindCallback, Then, SplitOnceCallback, BindRunner, Move, Reset,
         Run, IsCancelled, Post, ReplaceClosure, Release, RunAndReset, MoveRunner, InvalidateWeakPtrs, Fail
    <3>2. ASSUME NEW t \in Threads, InvokeCallback(t) \/ InvokeThen(t) \/ RunThen(t) \/ InvokeSplit(t)
          PROVE  UNCHANGED runs
      BY <3>2 DEF InvokeCallback, InvokeThen, RunThen, InvokeSplit, Fail
    <3>3. ASSUME NEW t \in Threads,
                 RunOriginal(t) \/ Leave(t) \/ Return(t) \/ TakeClosure(t) \/ ReleaseRef(t) \/ Destroy(t)
          PROVE  UNCHANGED runs
      BY <3>3 DEF RunOriginal, Leave, Return, TakeClosure, ReleaseRef, Destroy, Fail
    <3> QED BY <1>1, <3>1, <3>2, <3>3 DEF Next
  <2>3. CASE InvokeFunction(t)
    BY <1>1, <2>1, <2>3 DEF InvokeFunction, IsReceiver, Fail, IInv, TypeOK
  <2> QED BY <2>2, <2>3
<1>2. IInv /\ [Next]_vars => [\A o \in cancelled : runs'[o] = runs[o]]_vars
  BY <1>1
<1> QED BY <1>2, Invariance, PTL DEF Spec, CancelledStaysCancelled
=============================================================================
