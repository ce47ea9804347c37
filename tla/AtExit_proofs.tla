---------------------------- MODULE AtExit_proofs ----------------------------
(***************************************************************************)
(* Calls nest, so the invariant is about the call stacks: each manager of  *)
(* the chain has one frame on the stack of Main, in the same order, and    *)
(* every other frame works on the manager whose scope it is in.            *)
(***************************************************************************)
EXTENDS AtExit, TLAPS

ScopePlaces == {"alive", "dtor"}
RunPlaces == {"run", "task", "finish", "clear"}

\* f is the frame of each manager of ms on the stack s: a frame works on the
\* manager of the last scope at or below it.
Placed(f, ms, s) ==
  /\ f \in [1 .. Len(ms) -> 1 .. Len(s)]
  /\ \A j \in 1 .. Len(ms) : s[f[j]].at \in ScopePlaces
  /\ \A j, k \in 1 .. Len(ms) : j < k => f[j] < f[k]
  /\ \A i \in 1 .. Len(s) : \E j \in 1 .. Len(ms) :
       /\ f[j] <= i
       /\ \A k \in 1 .. Len(ms) : j < k => i < f[k]
       /\ s[i].manager = ms[j]
       /\ s[i].at \in ScopePlaces => f[j] = i
Chained == \E f : Placed(f, managers, calls[Main])

Others ==
  \A t \in Threads \ {Main} : \A i \in DOMAIN calls[t] :
    /\ managers # <<>>
    /\ calls[t][i].at \notin ScopePlaces
    /\ calls[t][i].manager = Top

DtorAlone == (\E i \in DOMAIN calls[Main] : calls[Main][i].at = "dtor") => Alone

\* A running task is still in the local stack of its ProcessCallbacksNow.
TaskFrames ==
  \A t \in Threads : \A i \in DOMAIN calls[t] :
    calls[t][i].at = "task" => calls[t][i].tasks # <<>>

Stacks == TypeOK /\ Chained /\ Others /\ DtorAlone /\ TaskFrames

-----------------------------------------------------------------------------
\* What a step does to the stack of t: the innermost frame moves, a call is
\* made, or one returns.
KeepsBelow(t, n) ==
  /\ \A u \in Threads \ {t} : calls'[u] = calls[u]
  /\ \A i \in 1 .. n : calls'[t][i] = calls[t][i]

Moved(t) ==
  /\ calls[t] # <<>>
  /\ Len(calls'[t]) = Len(calls[t])
  /\ KeepsBelow(t, Len(calls[t]) - 1)
  /\ Frame(t).at \notin ScopePlaces
  /\ calls'[t][Len(calls[t])].at \notin ScopePlaces
  /\ calls'[t][Len(calls[t])].manager = Frame(t).manager

Called(t) ==
  /\ Len(calls'[t]) = Len(calls[t]) + 1
  /\ KeepsBelow(t, Len(calls[t]))
  /\ calls'[t][Len(calls[t]) + 1].at \notin ScopePlaces
  /\ calls'[t][Len(calls[t]) + 1].manager = Top
  /\ managers # <<>>
  /\ InProgram(t)

Returned(t) ==
  /\ calls[t] # <<>>
  /\ Frame(t).at \notin ScopePlaces
  /\ Len(calls'[t]) = Len(calls[t]) - 1
  /\ KeepsBelow(t, Len(calls[t]) - 1)

LEMMA FrameTyped ==
  ASSUME TypeOK, NEW t \in Threads, calls[t] # <<>>
  PROVE  /\ calls[t] \in Seq(FrameType)
         /\ Len(calls[t]) \in Nat \ {0}
         /\ Len(calls[t]) \in DOMAIN calls[t]
         /\ Frame(t) \in FrameType
         /\ Frame(t).at \in Places /\ Frame(t).manager \in Managers /\ Frame(t).tasks \in Seq(Nat)
<1>1. calls[t] \in Seq(FrameType)
  BY DEF TypeOK
<1>2. Len(calls[t]) \in Nat \ {0} /\ Len(calls[t]) \in DOMAIN calls[t]
  BY <1>1
<1>3. Frame(t) \in FrameType
  BY <1>1, <1>2 DEF Frame
<1> QED BY <1>1, <1>2, <1>3 DEF FrameType

LEMMA TopTyped ==
  ASSUME TypeOK, managers # <<>>
  PROVE  Top \in Managers /\ Len(managers) \in Nat \ {0} /\ Len(managers) \in DOMAIN managers
BY DEF TypeOK, Top

\* Replacing the innermost frame.
LEMMA MoveFrame ==
  ASSUME TypeOK, NEW t \in Threads, calls[t] # <<>>, NEW g \in FrameType,
         calls' = [calls EXCEPT ![t] = [@ EXCEPT ![Len(calls[t])] = g]],
         g.manager = Frame(t).manager,
         Frame(t).at \notin ScopePlaces, g.at \notin ScopePlaces
  PROVE  Moved(t) /\ calls' \in [Threads -> Seq(FrameType)] /\ calls'[t][Len(calls[t])] = g
<1>1. calls[t] \in Seq(FrameType) /\ Len(calls[t]) \in Nat \ {0} /\ Len(calls[t]) \in DOMAIN calls[t]
  BY FrameTyped
<1>2. calls \in [Threads -> Seq(FrameType)]
  BY DEF TypeOK
<1>3. calls'[t] = [calls[t] EXCEPT ![Len(calls[t])] = g]
  BY <1>2
<1>4. calls'[t] \in Seq(FrameType) /\ Len(calls'[t]) = Len(calls[t])
  BY <1>1, <1>3
<1>5. calls'[t][Len(calls[t])] = g /\ \A i \in 1 .. Len(calls[t]) - 1 : calls'[t][i] = calls[t][i]
  BY <1>1, <1>3
<1>6. \A u \in Threads \ {t} : calls'[u] = calls[u]
  BY <1>2
<1>7. calls' \in [Threads -> Seq(FrameType)]
  BY <1>2, <1>4, <1>6
<1> QED BY <1>4, <1>5, <1>6, <1>7 DEF Moved, KeepsBelow

LEMMA GotoFrame ==
  ASSUME TypeOK, NEW t \in Threads, calls[t] # <<>>, NEW p \in Places,
         Goto(t, p), Frame(t).at \notin ScopePlaces, p \notin ScopePlaces
  PROVE  /\ Moved(t) /\ calls' \in [Threads -> Seq(FrameType)]
         /\ calls'[t][Len(calls[t])].at = p
         /\ calls'[t][Len(calls[t])].tasks = Frame(t).tasks
<1> DEFINE g == [Frame(t) EXCEPT !.at = p]
<1>1. Frame(t) \in FrameType
  BY FrameTyped
<1>2. g \in FrameType /\ g.manager = Frame(t).manager /\ g.at = p /\ g.tasks = Frame(t).tasks
  BY <1>1 DEF FrameType
<1>3. calls' = [calls EXCEPT ![t] = [@ EXCEPT ![Len(calls[t])] = g]]
  BY DEF Goto, Frame
<1> HIDE DEF g
<1> QED BY <1>2, <1>3, MoveFrame

LEMMA CallFrame ==
  ASSUME TypeOK, NEW t \in Threads, NEW p \in Places, Call(t, p, Top),
         managers # <<>>, InProgram(t), p \notin ScopePlaces
  PROVE  /\ Called(t) /\ calls' \in [Threads -> Seq(FrameType)]
         /\ calls'[t][Len(calls[t]) + 1].at = p
<1> DEFINE g == [at |-> p, manager |-> Top, tasks |-> <<>>]
<1>1. g \in FrameType
  BY TopTyped DEF FrameType
<1>2. calls \in [Threads -> Seq(FrameType)]
  BY DEF TypeOK
<1>3. calls'[t] = Append(calls[t], g) /\ \A u \in Threads \ {t} : calls'[u] = calls[u]
  BY <1>2 DEF Call
<1>a. g.at = p /\ g.manager = Top
  OBVIOUS
<1> HIDE DEF g
<1>4. calls'[t] \in Seq(FrameType) /\ Len(calls'[t]) = Len(calls[t]) + 1
  BY <1>1, <1>2, <1>3
<1>5. calls'[t][Len(calls[t]) + 1] = g /\ \A i \in 1 .. Len(calls[t]) : calls'[t][i] = calls[t][i]
  BY <1>1, <1>2, <1>3
<1>6. calls' \in [Threads -> Seq(FrameType)]
  BY <1>2, <1>3, <1>4 DEF Call
<1> QED BY <1>a, <1>3, <1>4, <1>5, <1>6 DEF Called, KeepsBelow

LEMMA WithoutLast ==
  ASSUME NEW S, NEW s \in Seq(S), Len(s) \in Nat \ {0}
  PROVE  /\ SubSeq(s, 1, Len(s) - 1) \in Seq(S)
         /\ Len(SubSeq(s, 1, Len(s) - 1)) = Len(s) - 1
         /\ \A i \in 1 .. Len(s) - 1 : SubSeq(s, 1, Len(s) - 1)[i] = s[i]
<1> DEFINE n == Len(s) - 1
           r == SubSeq(s, 1, n)
<1>1. n \in Nat /\ \A i \in 1 .. n : s[i] \in S
  OBVIOUS
<1>2. DOMAIN r = 1 .. n
  BY <1>1
<1>3. \A i \in 1 .. n : r[i] = s[i]
  BY <1>1
<1>4. r \in Seq(S)
  BY <1>1, <1>2, <1>3
<1> HIDE DEF r
<1>5. Len(r) = n
  BY <1>1, <1>2, <1>4
<1> QED BY <1>3, <1>4, <1>5 DEF r

LEMMA ReturnFrame ==
  ASSUME TypeOK, NEW t \in Threads, calls[t] # <<>>, Return(t)
  PROVE  /\ calls' \in [Threads -> Seq(FrameType)]
         /\ Len(calls'[t]) = Len(calls[t]) - 1
         /\ KeepsBelow(t, Len(calls[t]) - 1)
         /\ Frame(t).at \notin ScopePlaces => Returned(t)
<1>1. /\ calls \in [Threads -> Seq(FrameType)] /\ calls[t] \in Seq(FrameType)
      /\ Len(calls[t]) \in Nat \ {0}
  BY FrameTyped DEF TypeOK
<1>2. calls'[t] = SubSeq(calls[t], 1, Len(calls[t]) - 1) /\ \A u \in Threads \ {t} : calls'[u] = calls[u]
  BY <1>1 DEF Return
<1>3. /\ calls'[t] \in Seq(FrameType) /\ Len(calls'[t]) = Len(calls[t]) - 1
      /\ \A i \in 1 .. Len(calls[t]) - 1 : calls'[t][i] = calls[t][i]
  BY <1>1, <1>2, WithoutLast
<1>4. calls' \in [Threads -> Seq(FrameType)]
  BY <1>1, <1>2, <1>3 DEF Return
<1> QED BY <1>2, <1>3, <1>4 DEF Returned, KeepsBelow

-----------------------------------------------------------------------------
\* The innermost frame of every thread works on the top manager.
LEMMA FrameOnTop ==
  ASSUME Stacks, NEW t \in Threads, calls[t] # <<>>
  PROVE  managers # <<>> /\ Frame(t).manager = Top
<1>1. Len(calls[t]) \in Nat \ {0} /\ Len(calls[t]) \in DOMAIN calls[t]
  BY FrameTyped DEF Stacks
<1>2. CASE t # Main
  BY <1>1, <1>2 DEF Stacks, Others, Frame
<1>3. CASE t = Main
  <2>1. PICK f : Placed(f, managers, calls[Main])
    BY DEF Stacks, Chained
  <2>2. PICK j \in 1 .. Len(managers) :
          /\ \A k \in 1 .. Len(managers) : j < k => Len(calls[Main]) < f[k]
          /\ calls[Main][Len(calls[Main])].manager = managers[j]
    BY <1>1, <1>3, <2>1 DEF Placed
  <2>3. managers \in Seq(Managers) /\ calls[Main] \in Seq(FrameType)
    BY <1>3, FrameTyped DEF Stacks, TypeOK
  <2>4. Len(managers) \in 1 .. Len(managers) /\ Len(managers) \in Nat
    BY <2>2, <2>3
  <2>5. f[Len(managers)] \in 1 .. Len(calls[Main])
    BY <2>1, <2>4 DEF Placed
  <2>6. j = Len(managers)
    BY <1>1, <1>3, <2>2, <2>3, <2>4, <2>5
  <2> QED BY <1>3, <2>2, <2>4, <2>6 DEF Frame, Top
<1> QED BY <1>2, <1>3

\* Scopes neither open nor close while managers stay as they are.
LEMMA ChainKept ==
  ASSUME Stacks, NEW t \in Threads, managers' = managers,
         calls' \in [Threads -> Seq(FrameType)], Moved(t) \/ Called(t) \/ Returned(t)
  PROVE  Chained' /\ Others' /\ DtorAlone'
<1> DEFINE n == Len(calls[t])
           c == calls'[t]
<1>1. calls[t] \in Seq(FrameType) /\ n \in Nat /\ c \in Seq(FrameType) /\ Main \in Threads
  BY MainAssumption DEF Stacks, TypeOK
<1>2. \A u \in Threads \ {t} : calls'[u] = calls[u]
  BY DEF Moved, Called, Returned, KeepsBelow
\* The frames of t after the step.
<1>3. \A i \in DOMAIN c :
        \/ i \in DOMAIN calls[t] /\ c[i] = calls[t][i]
        \/ /\ c[i].at \notin ScopePlaces /\ managers # <<>> /\ c[i].manager = Top
           /\ i >= n /\ (i = n => calls[t][i].at \notin ScopePlaces)
  <2>1. CASE Moved(t)
    <3>1. Frame(t).manager = Top /\ managers # <<>>
      BY <2>1, FrameOnTop DEF Moved
    <3> QED BY <1>1, <2>1, <3>1 DEF Moved, KeepsBelow, Frame
  <2>2. CASE Called(t)
    BY <1>1, <2>2 DEF Called, KeepsBelow
  <2>3. CASE Returned(t)
    BY <1>1, <2>3 DEF Returned, KeepsBelow
  <2> QED BY <2>1, <2>2, <2>3
<1>4. Others'
  <2>1. CASE t = Main
    BY <1>2, <2>1 DEF Stacks, Others, Top
  <2>2. CASE t # Main
    BY <1>1, <1>2, <1>3, <2>2 DEF Stacks, Others, Top
  <2> QED BY <2>1, <2>2
<1>5. DtorAlone'
  <2> SUFFICES ASSUME \E i \in DOMAIN calls'[Main] : calls'[Main][i].at = "dtor"
               PROVE  Alone'
    BY DEF DtorAlone
  <2>1. \E i \in DOMAIN calls[Main] : calls[Main][i].at = "dtor"
    BY <1>1, <1>2, <1>3 DEF ScopePlaces
  <2>2. Alone
    BY <2>1 DEF Stacks, DtorAlone
  <2>3. t = Main
    BY <2>1, <2>2 DEF Alone, Moved, Called, Returned, InProgram
  <2> QED BY <1>2, <2>2, <2>3 DEF Alone
<1>6. Chained'
  <2>1. CASE t # Main
    <3>1. calls'[Main] = calls[Main]
      BY <1>1, <1>2, <2>1
    <3> QED BY <3>1 DEF Stacks, Chained
  <2>2. CASE t = Main
    <3> DEFINE k0 == Len(managers)
    <3>1. PICK f : Placed(f, managers, calls[Main])
      BY DEF Stacks, Chained
    <3>2. ASSUME NEW j \in 1 .. k0
          PROVE  f[j] \in 1 .. Len(c) /\ c[f[j]] = calls[Main][f[j]]
      <4>1. f[j] \in 1 .. n /\ calls[Main][f[j]].at \in ScopePlaces
        BY <2>2, <3>1 DEF Placed
      <4>2. CASE Moved(t)
        <5>1. f[j] # n
          BY <2>2, <4>1, <4>2 DEF Moved, Frame
        <5>2. f[j] \in 1 .. n - 1 /\ Len(c) = n
          BY <1>1, <2>2, <4>1, <4>2, <5>1 DEF Moved
        <5> QED BY <2>2, <4>2, <5>2 DEF Moved, KeepsBelow
      <4>3. CASE Called(t)
        <5>1. Len(c) = n + 1 /\ f[j] \in 1 .. Len(c)
          BY <1>1, <2>2, <4>1, <4>3 DEF Called
        <5> QED BY <2>2, <4>1, <4>3, <5>1 DEF Called, KeepsBelow
      <4>4. CASE Returned(t)
        <5>1. f[j] # n
          BY <2>2, <4>1, <4>4 DEF Returned, Frame
        <5>2. f[j] \in 1 .. n - 1 /\ Len(c) = n - 1
          BY <1>1, <2>2, <4>1, <4>4, <5>1 DEF Returned
        <5> QED BY <2>2, <4>4, <5>2 DEF Returned, KeepsBelow
      <4> QED BY <4>2, <4>3, <4>4
    <3>3. f \in [1 .. k0 -> 1 .. Len(c)]
      BY <3>1, <3>2 DEF Placed
    <3>4. ASSUME NEW i \in 1 .. Len(c)
          PROVE  \E j \in 1 .. k0 :
                   /\ f[j] <= i
                   /\ \A k \in 1 .. k0 : j < k => i < f[k]
                   /\ c[i].manager = managers[j]
                   /\ c[i].at \in ScopePlaces => f[j] = i
      <4>1. CASE i \in DOMAIN calls[t] /\ c[i] = calls[t][i]
        <5>1. i \in 1 .. Len(calls[Main])
          BY <1>1, <2>2, <4>1
        <5> QED BY <2>2, <3>1, <4>1, <5>1 DEF Placed
      <4>2. CASE /\ c[i].at \notin ScopePlaces /\ managers # <<>> /\ c[i].manager = Top
                 /\ i >= n
        <5>1. k0 \in Nat \ {0} /\ k0 \in 1 .. k0
          BY <4>2, TopTyped DEF Stacks
        <5>2. f[k0] \in 1 .. n /\ i \in Nat
          BY <1>1, <2>2, <3>1, <5>1 DEF Placed
        <5>3. f[k0] <= i /\ \A k \in 1 .. k0 : ~(k0 < k)
          BY <1>1, <4>2, <5>1, <5>2
        <5> QED BY <4>2, <5>1, <5>3 DEF Top
      <4>3. i \in DOMAIN c
        BY <1>1
      <4> QED BY <1>3, <4>1, <4>2, <4>3
    <3>5. Placed(f, managers, c)
      BY <3>1, <3>2, <3>3, <3>4 DEF Placed
    <3> QED BY <2>2, <3>5 DEF Chained
  <2> QED BY <2>1, <2>2
<1> QED BY <1>4, <1>5, <1>6

\* A scope is opened, and the innermost one closed.
LEMMA PlaceOneMore ==
  ASSUME NEW f, NEW ms \in Seq(Managers), NEW s \in Seq(FrameType), Placed(f, ms, s),
         NEW m \in Managers, NEW g \in FrameType, g.at = "alive", g.manager = m
  PROVE  \E h : Placed(h, Append(ms, m), Append(s, g))
<1> DEFINE n == Len(ms)
           d == Len(s)
           ms2 == Append(ms, m)
           s2 == Append(s, g)
           h == [j \in 1 .. n + 1 |-> IF j = n + 1 THEN d + 1 ELSE f[j]]
<1>1. n \in Nat /\ d \in Nat
  OBVIOUS
<1>2. /\ Len(ms2) = n + 1 /\ Len(s2) = d + 1 /\ ms2[n + 1] = m /\ s2[d + 1] = g
      /\ (\A j \in 1 .. n : ms2[j] = ms[j]) /\ \A i \in 1 .. d : s2[i] = s[i]
  OBVIOUS
<1>3. /\ \A j \in 1 .. n : f[j] \in 1 .. d /\ s[f[j]].at \in ScopePlaces
      /\ \A j, k \in 1 .. n : j < k => f[j] < f[k]
  BY DEF Placed
<1>4. h[n + 1] = d + 1 /\ (\A j \in 1 .. n : h[j] = f[j]) /\ h \in [1 .. n + 1 -> 1 .. d + 1]
  BY <1>1, <1>3
<1>5. ASSUME NEW i \in 1 .. d
      PROVE  \E j \in 1 .. n :
               /\ f[j] <= i
               /\ \A k \in 1 .. n : j < k => i < f[k]
               /\ s[i].manager = ms[j]
               /\ s[i].at \in ScopePlaces => f[j] = i
  BY DEF Placed
<1> HIDE DEF n, d, ms2, s2, h
<1>6. \A j \in 1 .. n + 1 : s2[h[j]].at \in ScopePlaces
  <2> SUFFICES ASSUME NEW j \in 1 .. n + 1 PROVE s2[h[j]].at \in ScopePlaces
    OBVIOUS
  <2>1. CASE j = n + 1
    BY <1>2, <1>4, <2>1 DEF ScopePlaces
  <2>2. CASE j \in 1 .. n
    BY <1>2, <1>3, <1>4, <2>2
  <2> QED BY <1>1, <2>1, <2>2
<1>7. \A j, k \in 1 .. n + 1 : j < k => h[j] < h[k]
  <2> SUFFICES ASSUME NEW j \in 1 .. n + 1, NEW k \in 1 .. n + 1, j < k PROVE h[j] < h[k]
    OBVIOUS
  <2>1. j \in 1 .. n /\ f[j] \in 1 .. d /\ h[j] = f[j]
    BY <1>1, <1>3, <1>4
  <2>2. CASE k = n + 1
    BY <1>1, <1>4, <2>1, <2>2
  <2>3. CASE k \in 1 .. n
    BY <1>3, <1>4, <2>1, <2>3
  <2> QED BY <1>1, <2>2, <2>3
<1>8. ASSUME NEW i \in 1 .. d + 1
      PROVE  \E j \in 1 .. n + 1 :
               /\ h[j] <= i
               /\ \A k \in 1 .. n + 1 : j < k => i < h[k]
               /\ s2[i].manager = ms2[j]
               /\ s2[i].at \in ScopePlaces => h[j] = i
  <2>1. CASE i = d + 1
    <3>1. n + 1 \in 1 .. n + 1 /\ h[n + 1] <= i /\ \A k \in 1 .. n + 1 : ~(n + 1 < k)
      BY <1>1, <1>4, <2>1
    <3> QED BY <1>2, <1>4, <2>1, <3>1
  <2>2. CASE i \in 1 .. d
    <3>1. PICK j \in 1 .. n :
            /\ f[j] <= i
            /\ \A k \in 1 .. n : j < k => i < f[k]
            /\ s[i].manager = ms[j]
            /\ s[i].at \in ScopePlaces => f[j] = i
      BY <1>5, <2>2
    <3>2. ASSUME NEW k \in 1 .. n + 1, j < k PROVE i < h[k]
      <4>1. CASE k = n + 1
        BY <1>1, <1>4, <2>2, <4>1
      <4>2. CASE k \in 1 .. n
        BY <1>4, <3>1, <3>2, <4>2
      <4> QED BY <1>1, <4>1, <4>2
    <3>3. j \in 1 .. n + 1 /\ h[j] = f[j] /\ ms2[j] = ms[j] /\ s2[i] = s[i]
      BY <1>1, <1>2, <1>4, <2>2
    <3> QED BY <3>1, <3>2, <3>3
  <2> QED BY <1>1, <2>1, <2>2
<1>9. Placed(h, ms2, s2)
  BY <1>2, <1>4, <1>6, <1>7, <1>8 DEF Placed
<1> QED BY <1>9 DEF ms2, s2

LEMMA PlaceOneLess ==
  ASSUME NEW f, NEW ms \in Seq(Managers), NEW s \in Seq(FrameType), Placed(f, ms, s),
         Len(ms) \in Nat \ {0}, Len(s) \in Nat \ {0}, s[Len(s)].at \in ScopePlaces
  PROVE  \E h : Placed(h, SubSeq(ms, 1, Len(ms) - 1), SubSeq(s, 1, Len(s) - 1))
<1> DEFINE n == Len(ms)
           d == Len(s)
           ms2 == SubSeq(ms, 1, n - 1)
           s2 == SubSeq(s, 1, d - 1)
           h == [j \in 1 .. n - 1 |-> f[j]]
<1>1. n \in Nat \ {0} /\ d \in Nat \ {0} /\ s[d].at \in ScopePlaces
  OBVIOUS
<1>2. /\ Len(ms2) = n - 1 /\ Len(s2) = d - 1
      /\ (\A j \in 1 .. n - 1 : ms2[j] = ms[j]) /\ \A i \in 1 .. d - 1 : s2[i] = s[i]
  BY WithoutLast
<1>3. /\ \A j \in 1 .. n : f[j] \in 1 .. d /\ s[f[j]].at \in ScopePlaces
      /\ \A j, k \in 1 .. n : j < k => f[j] < f[k]
  BY DEF Placed
<1>4. \A i \in 1 .. d : \E j \in 1 .. n :
        /\ f[j] <= i
        /\ \A k \in 1 .. n : j < k => i < f[k]
        /\ s[i].manager = ms[j]
        /\ s[i].at \in ScopePlaces => f[j] = i
  BY DEF Placed
<1> HIDE DEF n, d, ms2, s2
<1>5. f[n] = d
  <2>0. d \in 1 .. d
    BY <1>1
  <2>1. PICK j \in 1 .. n : (\A k \in 1 .. n : j < k => d < f[k]) /\ f[j] = d
    <3>1. PICK j \in 1 .. n : /\ \A k \in 1 .. n : j < k => d < f[k]
                              /\ s[d].at \in ScopePlaces => f[j] = d
      BY <1>4, <2>0
    <3>2. f[j] = d
      BY <1>1, <3>1
    <3> QED BY <3>1, <3>2
  <2>2. n \in 1 .. n /\ f[n] \in 1 .. d
    BY <1>1, <1>3
  <2>3. j = n
    BY <1>1, <2>1, <2>2
  <2> QED BY <2>1, <2>3
<1>6. \A j \in 1 .. n - 1 : j \in 1 .. n /\ f[j] \in 1 .. d - 1
  <2> SUFFICES ASSUME NEW j \in 1 .. n - 1 PROVE j \in 1 .. n /\ f[j] \in 1 .. d - 1
    OBVIOUS
  <2>1. j \in 1 .. n /\ n \in 1 .. n /\ j < n
    BY <1>1
  <2>2. f[j] \in 1 .. d /\ f[j] < d
    BY <1>3, <1>5, <2>1
  <2> QED BY <1>1, <2>1, <2>2
<1>7. h \in [1 .. n - 1 -> 1 .. d - 1] /\ \A j \in 1 .. n - 1 : h[j] = f[j]
  BY <1>6
<1> HIDE DEF h
<1>8. /\ \A j \in 1 .. n - 1 : s2[h[j]].at \in ScopePlaces
      /\ \A j, k \in 1 .. n - 1 : j < k => h[j] < h[k]
  <2>1. \A j \in 1 .. n - 1 : s2[h[j]].at \in ScopePlaces
    BY <1>2, <1>3, <1>6, <1>7
  <2>2. \A j, k \in 1 .. n - 1 : j < k => h[j] < h[k]
    BY <1>3, <1>6, <1>7
  <2> QED BY <2>1, <2>2
<1>9. ASSUME NEW i \in 1 .. d - 1
      PROVE  \E j \in 1 .. n - 1 :
               /\ h[j] <= i
               /\ \A k \in 1 .. n - 1 : j < k => i < h[k]
               /\ s2[i].manager = ms2[j]
               /\ s2[i].at \in ScopePlaces => h[j] = i
  <2>1. i \in 1 .. d /\ i < d
    BY <1>1
  <2>2. PICK j \in 1 .. n :
          /\ f[j] <= i
          /\ \A k \in 1 .. n : j < k => i < f[k]
          /\ s[i].manager = ms[j]
          /\ s[i].at \in ScopePlaces => f[j] = i
    BY <1>4, <2>1
  <2>3. j \in 1 .. n - 1
    <3>1. j # n
      BY <1>1, <1>5, <2>1, <2>2
    <3> QED BY <1>1, <3>1
  <2>4. \A k \in 1 .. n - 1 : j < k => i < h[k]
    BY <1>6, <1>7, <2>2
  <2> QED BY <1>2, <1>7, <2>2, <2>3, <2>4
<1>10. Placed(h, ms2, s2)
  BY <1>2, <1>7, <1>8, <1>9 DEF Placed
<1> QED BY <1>10 DEF ms2, s2, n, d

LEMMA ConstructKeeps ==
  ASSUME Stacks, NEW m \in Managers, Alone,
         managers' = Append(managers, m), Call(Main, "alive", m)
  PROVE  /\ calls' \in [Threads -> Seq(FrameType)] /\ managers' \in Seq(Managers)
         /\ Chained' /\ Others' /\ DtorAlone'
<1> DEFINE g == [at |-> "alive", manager |-> m, tasks |-> <<>>]
<1>1. /\ calls \in [Threads -> Seq(FrameType)] /\ calls[Main] \in Seq(FrameType)
      /\ managers \in Seq(Managers) /\ Main \in Threads
  BY MainAssumption DEF Stacks, TypeOK
<1>2. g \in FrameType /\ g.at = "alive" /\ g.manager = m
  BY DEF FrameType, Places
<1>3. calls'[Main] = Append(calls[Main], g) /\ \A u \in Threads \ {Main} : calls'[u] = <<>>
  BY <1>1 DEF Call, Alone
<1> HIDE DEF g
<1>4. calls' \in [Threads -> Seq(FrameType)]
  BY <1>1, <1>2, <1>3 DEF Call
<1>5. Others' /\ DtorAlone'
  BY <1>3 DEF Others, DtorAlone, Alone
<1>6. Chained'
  <2>1. PICK f : Placed(f, managers, calls[Main])
    BY DEF Stacks, Chained
  <2>2. PICK h : Placed(h, Append(managers, m), Append(calls[Main], g))
    BY <1>1, <1>2, <2>1, PlaceOneMore
  <2> QED BY <1>3, <2>2 DEF Chained
<1> QED BY <1>1, <1>4, <1>5, <1>6

LEMMA PopKeeps ==
  ASSUME Stacks, Alone, calls[Main] # <<>>, Frame(Main).at \in ScopePlaces,
         managers' = Popped, Return(Main)
  PROVE  /\ calls' \in [Threads -> Seq(FrameType)] /\ managers' \in Seq(Managers)
         /\ Chained' /\ Others' /\ DtorAlone'
<1>1. /\ calls \in [Threads -> Seq(FrameType)] /\ calls[Main] \in Seq(FrameType)
      /\ managers \in Seq(Managers) /\ Main \in Threads
      /\ Len(calls[Main]) \in Nat \ {0} /\ Len(managers) \in Nat \ {0}
  BY MainAssumption, FrameTyped, FrameOnTop, TopTyped DEF Stacks, TypeOK
<1>2. /\ calls'[Main] = SubSeq(calls[Main], 1, Len(calls[Main]) - 1)
      /\ \A u \in Threads \ {Main} : calls'[u] = <<>>
  BY <1>1 DEF Return, Alone
<1>3. managers' \in Seq(Managers) /\ calls'[Main] \in Seq(FrameType)
  BY <1>1, <1>2, WithoutLast DEF Popped
<1>4. calls' \in [Threads -> Seq(FrameType)]
  BY <1>1, <1>2, <1>3 DEF Return
<1>5. Others' /\ DtorAlone'
  BY <1>2 DEF Others, DtorAlone, Alone
<1>6. Chained'
  <2>1. PICK f : Placed(f, managers, calls[Main])
    BY DEF Stacks, Chained
  <2>2. PICK h : Placed(h, SubSeq(managers, 1, Len(managers) - 1),
                           SubSeq(calls[Main], 1, Len(calls[Main]) - 1))
    BY <1>1, <2>1, PlaceOneLess DEF Frame
  <2> QED BY <1>2, <2>2 DEF Chained, Popped
<1> QED BY <1>3, <1>4, <1>5, <1>6

\* The destructor that goes on to ProcessCallbacksNow.
DestroyCalls ==
  calls' = [calls EXCEPT ![Main] =
              Append([@ EXCEPT ![Len(@)].at = "dtor"],
                     [at |-> "process", manager |-> Top, tasks |-> <<>>])]

LEMMA DestroyKeeps ==
  ASSUME Stacks, Alone, calls[Main] # <<>>, Frame(Main).at = "alive", DestroyCalls,
         managers' = managers
  PROVE  /\ calls' \in [Threads -> Seq(FrameType)]
         /\ Chained' /\ Others' /\ DtorAlone'
         /\ Len(calls'[Main]) = Len(calls[Main]) + 1
         /\ KeepsBelow(Main, Len(calls[Main]) - 1)
         /\ calls'[Main][Len(calls[Main])].at = "dtor"
         /\ calls'[Main][Len(calls[Main])].manager = Top
         /\ calls'[Main][Len(calls[Main]) + 1].at = "process"
         /\ calls'[Main][Len(calls[Main]) + 1].manager = Top
<1> DEFINE d == Len(calls[Main])
           n == Len(managers)
           b == [Frame(Main) EXCEPT !.at = "dtor"]
           g == [at |-> "process", manager |-> Top, tasks |-> <<>>]
           s == [calls[Main] EXCEPT ![d] = b]
           c == Append(s, g)
<1>1. /\ calls \in [Threads -> Seq(FrameType)] /\ calls[Main] \in Seq(FrameType)
      /\ managers \in Seq(Managers) /\ Main \in Threads
      /\ d \in Nat \ {0} /\ n \in Nat \ {0} /\ Top \in Managers
      /\ Frame(Main) \in FrameType /\ Frame(Main).manager = Top
  BY MainAssumption, FrameTyped, FrameOnTop, TopTyped DEF Stacks, TypeOK
<1>2. b \in FrameType /\ b.at = "dtor" /\ b.manager = Top
  BY <1>1 DEF FrameType, Places
<1>3. g \in FrameType /\ g.at = "process" /\ g.manager = Top
  BY <1>1 DEF FrameType, Places
<1>4. calls'[Main] = c /\ \A u \in Threads \ {Main} : calls'[u] = calls[u]
  BY <1>1 DEF DestroyCalls, Frame
<1> HIDE DEF b, g
<1>5. s \in Seq(FrameType) /\ Len(s) = d /\ s[d] = b /\ \A i \in 1 .. d - 1 : s[i] = calls[Main][i]
  BY <1>1, <1>2
<1> HIDE DEF s
<1>6. /\ c \in Seq(FrameType) /\ Len(c) = d + 1 /\ c[d] = b /\ c[d + 1] = g
      /\ \A i \in 1 .. d - 1 : c[i] = calls[Main][i]
  BY <1>1, <1>3, <1>5
<1> HIDE DEF c
<1>7. calls' \in [Threads -> Seq(FrameType)]
  BY <1>1, <1>4, <1>6 DEF DestroyCalls
<1>8. Others' /\ DtorAlone'
  BY <1>4 DEF Others, DtorAlone, Alone
<1>9. Chained'
  <2>1. PICK f : Placed(f, managers, calls[Main])
    BY DEF Stacks, Chained
  <2> HIDE DEF d, n
  <2>0. d \in Nat \ {0} /\ n \in Nat \ {0}
    BY <1>1
  <2>a. f \in [1 .. n -> 1 .. d]
    BY <2>1 DEF Placed, d, n
  <2>2. f \in [1 .. n -> 1 .. d + 1] /\ \A j \in 1 .. n : f[j] \in 1 .. d
    BY <2>0, <2>a
  <2>3. \A i \in 1 .. d : /\ c[i].manager = calls[Main][i].manager
                          /\ c[i].at \in ScopePlaces <=> calls[Main][i].at \in ScopePlaces
    <3>1. c[d].manager = Top /\ c[d].at \in ScopePlaces
      BY <1>2, <1>6 DEF ScopePlaces
    <3>2. calls[Main][d].manager = Top /\ calls[Main][d].at \in ScopePlaces
      BY <1>1 DEF ScopePlaces, Frame, d
    <3>3. \A i \in 1 .. d : i = d \/ i \in 1 .. d - 1
      BY <2>0
    <3>4. \A i \in 1 .. d - 1 : c[i] = calls[Main][i]
      BY <1>6
    <3> QED BY <3>1, <3>2, <3>3, <3>4
  <2>4. \A j \in 1 .. n : c[f[j]].at \in ScopePlaces
    BY <2>1, <2>2, <2>3 DEF Placed, n
  <2>5. ASSUME NEW i \in 1 .. d + 1
        PROVE  \E j \in 1 .. n :
                 /\ f[j] <= i
                 /\ \A k \in 1 .. n : j < k => i < f[k]
                 /\ c[i].manager = managers[j]
                 /\ c[i].at \in ScopePlaces => f[j] = i
    <3>1. CASE i = d + 1
      <4>1. n \in 1 .. n /\ f[n] \in 1 .. d /\ f[n] <= i /\ \A k \in 1 .. n : ~(n < k)
        BY <1>1, <2>2, <3>1
      <4> QED BY <1>3, <1>6, <3>1, <4>1 DEF ScopePlaces, Top, n
    <3>2. CASE i \in 1 .. d
      <4>1. PICK j \in 1 .. n :
              /\ f[j] <= i
              /\ \A k \in 1 .. n : j < k => i < f[k]
              /\ calls[Main][i].manager = managers[j]
              /\ calls[Main][i].at \in ScopePlaces => f[j] = i
        BY <2>1, <3>2 DEF Placed, d, n
      <4>2. c[i].manager = managers[j] /\ (c[i].at \in ScopePlaces => f[j] = i)
        BY <2>3, <3>2, <4>1
      <4> QED BY <4>1, <4>2
    <3>3. i = d + 1 \/ i \in 1 .. d
      BY <2>0
    <3> QED BY <3>1, <3>2, <3>3
  <2>6. \A j, k \in 1 .. n : j < k => f[j] < f[k]
    BY <2>1 DEF Placed, n
  <2>7. Placed(f, managers, c)
    BY <1>6, <2>2, <2>4, <2>5, <2>6 DEF Placed, n
  <2> QED BY <1>4, <2>7 DEF Chained
<1>10. KeepsBelow(Main, d - 1)
  BY <1>4, <1>6 DEF KeepsBelow
<1> QED BY <1>2, <1>3, <1>4, <1>6, <1>7, <1>8, <1>9, <1>10

-----------------------------------------------------------------------------
LEMMA AtFrame ==
  ASSUME TypeOK, NEW t \in Threads, NEW p, p # "outside", At(t, p)
  PROVE  crash = "none" /\ calls[t] # <<>> /\ Frame(t).at = p /\ managers # <<>> /\ Top \in Managers
BY TopTyped DEF At, Where, TypeOK

\* The steps of threads other than the life of managers, and what each does to
\* the stack.
StartStep(t) == RegisterTask(t) \/ ProcessCallbacksNow(t) \/ DisableAllAtExitManagers(t)
StayStep(t) == NoManager(t) \/ (Push(t) /\ calls' = calls) \/ (Clear(t) /\ calls' = calls)
MoveStep(t) == TakeLock(t) \/ Swap(t) \/ RunTask(t) \/ PopTask(t) \/ (EndLoop(t) /\ dcheck_is_on)
ReturnStep(t) ==
  \/ Push(t) /\ Return(t)
  \/ Clear(t) /\ Return(t)
  \/ Set(t)
  \/ EndLoop(t) /\ ~dcheck_is_on

LEMMA StartShape ==
  ASSUME TypeOK, NEW t \in Threads, NEW p \in {"register", "process", "disable"}, Start(t, p)
  PROVE  /\ Called(t) /\ calls' \in [Threads -> Seq(FrameType)]
         /\ calls'[t][Len(calls[t]) + 1].at = p
BY CallFrame DEF Start, MayCall, ScopePlaces, Places

LEMMA TakeShape ==
  ASSUME TypeOK, NEW t \in Threads,
         NEW p \in {"register", "process", "finish", "disable"},
         NEW b \in {"push", "swap", "clear", "set"}, Take(t, p, b)
  PROVE  /\ Moved(t) /\ calls' \in [Threads -> Seq(FrameType)]
         /\ calls[t] # <<>> /\ Frame(t).at = p
         /\ calls'[t][Len(calls[t])].at = b
BY AtFrame, GotoFrame DEF Take, ScopePlaces, Places

LEMMA SwapShape ==
  ASSUME TypeOK, NEW t \in Threads, Swap(t)
  PROVE  /\ Moved(t) /\ calls' \in [Threads -> Seq(FrameType)]
         /\ calls[t] # <<>> /\ Frame(t).at = "swap"
         /\ calls'[t][Len(calls[t])].at = "run"
         /\ calls'[t][Len(calls[t])].tasks = stack[Top]
         /\ managers # <<>> /\ Top \in Managers
<1> DEFINE g == [Frame(t) EXCEPT !.at = "run", !.tasks = stack[Top]]
<1>1. calls[t] # <<>> /\ Frame(t).at = "swap" /\ Top \in Managers /\ Frame(t) \in FrameType /\ managers # <<>>
  BY AtFrame, FrameTyped DEF Swap
<1>2. stack[Top] \in Seq(Nat)
  BY <1>1 DEF TypeOK
<1>3. g \in FrameType /\ g.at = "run" /\ g.manager = Frame(t).manager /\ g.tasks = stack[Top]
  BY <1>1, <1>2 DEF FrameType, Places
<1>4. calls' = [calls EXCEPT ![t] = [@ EXCEPT ![Len(calls[t])] = g]]
  BY DEF Swap, Frame
<1> HIDE DEF g
<1>5. Moved(t) /\ calls' \in [Threads -> Seq(FrameType)] /\ calls'[t][Len(calls[t])] = g
  BY <1>1, <1>3, <1>4, MoveFrame DEF ScopePlaces
<1> QED BY <1>1, <1>3, <1>5

LEMMA PopTaskShape ==
  ASSUME TypeOK, NEW t \in Threads, PopTask(t)
  PROVE  /\ Moved(t) /\ calls' \in [Threads -> Seq(FrameType)]
         /\ calls[t] # <<>> /\ Frame(t).at = "task"
         /\ calls'[t][Len(calls[t])].at = "run"
         /\ calls'[t][Len(calls[t])].tasks = SubSeq(Frame(t).tasks, 1, Len(Frame(t).tasks) - 1)
<1> DEFINE s == Frame(t).tasks
           g == [Frame(t) EXCEPT !.at = "run", !.tasks = SubSeq(s, 1, Len(s) - 1)]
<1>1. calls[t] # <<>> /\ Frame(t).at = "task" /\ Frame(t) \in FrameType /\ s \in Seq(Nat)
  BY AtFrame, FrameTyped DEF PopTask
<1>2. SubSeq(s, 1, Len(s) - 1) \in Seq(Nat)
  <2>1. CASE Len(s) = 0
    BY <1>1, <2>1
  <2>2. CASE Len(s) # 0
    BY <1>1, <2>2, WithoutLast
  <2> QED BY <2>1, <2>2
<1>3. g \in FrameType /\ g.at = "run" /\ g.manager = Frame(t).manager
      /\ g.tasks = SubSeq(s, 1, Len(s) - 1)
  BY <1>1, <1>2 DEF FrameType, Places
<1>4. calls' = [calls EXCEPT ![t] = [@ EXCEPT ![Len(calls[t])] = g]]
  BY DEF PopTask, Frame
<1> HIDE DEF g
<1>5. Moved(t) /\ calls' \in [Threads -> Seq(FrameType)] /\ calls'[t][Len(calls[t])] = g
  BY <1>1, <1>3, <1>4, MoveFrame DEF ScopePlaces
<1> QED BY <1>1, <1>3, <1>5

LEMMA StepShapes ==
  ASSUME TypeOK, NEW t \in Threads
  PROVE  /\ StartStep(t) => Called(t) /\ calls'[t][Len(calls[t]) + 1].at # "task"
         /\ StayStep(t) => calls' = calls
         /\ MoveStep(t) =>
              /\ Moved(t)
              /\ calls'[t][Len(calls[t])].at = "task" => calls'[t][Len(calls[t])].tasks # <<>>
         /\ ReturnStep(t) => Returned(t)
         /\ StartStep(t) \/ StayStep(t) \/ MoveStep(t) \/ ReturnStep(t) =>
              calls' \in [Threads -> Seq(FrameType)] /\ managers' = managers
<1>1. ASSUME StartStep(t)
      PROVE  /\ Called(t) /\ calls'[t][Len(calls[t]) + 1].at # "task"
             /\ calls' \in [Threads -> Seq(FrameType)] /\ managers' = managers
  BY <1>1, StartShape DEF StartStep, RegisterTask, ProcessCallbacksNow, DisableAllAtExitManagers, Start
<1>2. ASSUME StayStep(t)
      PROVE  calls' = calls /\ calls' \in [Threads -> Seq(FrameType)] /\ managers' = managers
  BY <1>2 DEF StayStep, NoManager, Fail, Push, Clear, TypeOK
<1>3. ASSUME MoveStep(t)
      PROVE  /\ Moved(t) /\ calls' \in [Threads -> Seq(FrameType)] /\ managers' = managers
             /\ calls'[t][Len(calls[t])].at = "task" => calls'[t][Len(calls[t])].tasks # <<>>
  <2>1. CASE TakeLock(t)
    BY <2>1, TakeShape DEF TakeLock, Take
  <2>2. CASE Swap(t)
    BY <2>2, SwapShape DEF Swap
  <2>3. CASE RunTask(t)
    BY <2>3, AtFrame, GotoFrame DEF RunTask, ScopePlaces, Places
  <2>4. CASE PopTask(t)
    BY <2>4, PopTaskShape DEF PopTask
  <2>5. CASE EndLoop(t) /\ dcheck_is_on
    BY <2>5, AtFrame, GotoFrame DEF EndLoop, ScopePlaces, Places
  <2> QED BY <1>3, <2>1, <2>2, <2>3, <2>4, <2>5 DEF MoveStep
<1>4. ASSUME ReturnStep(t)
      PROVE  Returned(t) /\ calls' \in [Threads -> Seq(FrameType)] /\ managers' = managers
  <2>1. Return(t) /\ managers' = managers
    BY <1>4 DEF ReturnStep, Push, Fail, Clear, Set, EndLoop
  <2>2. calls[t] # <<>> /\ Frame(t).at \in {"push", "clear", "set", "run"}
    BY <1>4, AtFrame DEF ReturnStep, Push, Clear, Set, EndLoop
  <2> QED BY <2>1, <2>2, ReturnFrame DEF ScopePlaces
<1> QED BY <1>1, <1>2, <1>3, <1>4

\* Every step is one of these or changes managers.
LEMMA StepCases ==
  ASSUME Next
  PROVE  \/ \E m \in Managers, shadow \in BOOLEAN : Construct(m, shadow)
         \/ Destroy
         \/ EndDestroy
         \/ \E t \in Threads : StartStep(t) \/ StayStep(t) \/ MoveStep(t) \/ ReturnStep(t)
<1>1. ASSUME NEW t \in Threads, Push(t) PROVE calls' = calls \/ Return(t)
  BY <1>1 DEF Push, Fail
<1>2. ASSUME NEW t \in Threads, Clear(t) PROVE calls' = calls \/ Return(t)
  BY <1>2 DEF Clear, Fail
<1> QED BY <1>1, <1>2 DEF Next, StartStep, StayStep, MoveStep, ReturnStep

\* A stack with frames has a manager under them.
LEMMA PlacedNonEmpty ==
  ASSUME NEW f, NEW ms \in Seq(Managers), NEW s \in Seq(FrameType), Placed(f, ms, s), s # <<>>
  PROVE  ms # <<>>
<1>1. 1 \in 1 .. Len(s)
  OBVIOUS
<1>2. PICK j \in 1 .. Len(ms) : f[j] <= 1
  BY <1>1 DEF Placed
<1> QED BY <1>2

\* What is left of the type invariant once the stacks are known to be right.
Values ==
  /\ dcheck_is_on \in BOOLEAN
  /\ g_disable_managers \in BOOLEAN
  /\ stack \in [Managers -> Seq(Nat)]
  /\ processing_callbacks \in SUBSET Managers
  /\ lock \in [Managers -> Threads \cup {NoThread}]
  /\ registered \in Nat
  /\ late \in SUBSET Nat /\ finished \in SUBSET Nat /\ dropped \in SUBSET Nat
  /\ crash \in Crashes

LEMMA TypesFollow ==
  ASSUME NEW cs \in [Threads -> Seq(FrameType)], NEW ms \in Seq(Managers),
         \E f : Placed(f, ms, cs[Main]),
         \A t \in Threads \ {Main} : \A i \in DOMAIN cs[t] : ms # <<>>
  PROVE  \A t \in Threads : cs[t] # <<>> => ms # <<>>
<1> SUFFICES ASSUME NEW t \in Threads, cs[t] # <<>> PROVE ms # <<>>
  OBVIOUS
<1>1. cs[t] \in Seq(FrameType) /\ 1 \in DOMAIN cs[t]
  OBVIOUS
<1>2. CASE t = Main
  BY <1>1, <1>2, PlacedNonEmpty
<1>3. CASE t # Main
  BY <1>1, <1>3
<1> QED BY <1>2, <1>3

LEMMA TypesFromStacks ==
  ASSUME Values', calls' \in [Threads -> Seq(FrameType)], managers' \in Seq(Managers),
         Chained', Others'
  PROVE  TypeOK'
<1>1. \A t \in Threads : calls'[t] # <<>> => managers' # <<>>
  BY TypesFollow DEF Chained, Others
<1> QED BY <1>1 DEF TypeOK, Values

LEMMA TaskFramesKept ==
  ASSUME Stacks, NEW t \in Threads, calls' \in [Threads -> Seq(FrameType)],
         \/ Moved(t) /\ (calls'[t][Len(calls[t])].at = "task" => calls'[t][Len(calls[t])].tasks # <<>>)
         \/ Called(t) /\ calls'[t][Len(calls[t]) + 1].at # "task"
         \/ Returned(t)
  PROVE  TaskFrames'
<1>1. calls[t] \in Seq(FrameType) /\ calls'[t] \in Seq(FrameType) /\ Len(calls[t]) \in Nat
  BY DEF Stacks, TypeOK
<1>2. \A u \in Threads \ {t} : calls'[u] = calls[u]
  BY DEF Moved, Called, Returned, KeepsBelow
<1>3. \A i \in DOMAIN calls'[t] : calls'[t][i].at = "task" => calls'[t][i].tasks # <<>>
  <2>1. CASE Moved(t) /\ (calls'[t][Len(calls[t])].at = "task" => calls'[t][Len(calls[t])].tasks # <<>>)
    BY <1>1, <2>1 DEF Stacks, TaskFrames, Moved, KeepsBelow
  <2>2. CASE Called(t) /\ calls'[t][Len(calls[t]) + 1].at # "task"
    BY <1>1, <2>2 DEF Stacks, TaskFrames, Called, KeepsBelow
  <2>3. CASE Returned(t)
    BY <1>1, <2>3 DEF Stacks, TaskFrames, Returned, KeepsBelow
  <2> QED BY <2>1, <2>2, <2>3
<1> QED BY <1>2, <1>3 DEF Stacks, TaskFrames

LEMMA ValuesKept ==
  ASSUME Stacks, [Next]_vars
  PROVE  Values'
<1> USE DEF Stacks
<1>0. Values
  BY DEF TypeOK, Values
<1>1. ASSUME NEW m \in Managers, NEW shadow \in BOOLEAN, Construct(m, shadow) PROVE Values'
  <2>1. CASE Fail("second_manager")
    BY <1>0, <2>1 DEF Fail, Values, Crashes
  <2>2. CASE ~Fail("second_manager")
    <3>1. /\ stack' = [stack EXCEPT ![m] = <<>>] /\ processing_callbacks' = processing_callbacks \ {m}
          /\ UNCHANGED <<dcheck_is_on, g_disable_managers, lock, registered, late, finished, dropped, crash>>
      BY <1>1, <2>2 DEF Construct
    <3>2. stack' \in [Managers -> Seq(Nat)] /\ processing_callbacks' \in SUBSET Managers
      BY <1>0, <3>1 DEF Values
    <3> QED BY <1>0, <3>1, <3>2 DEF Values
  <2> QED BY <2>1, <2>2
<1>2. ASSUME Pop, managers # <<>> PROVE Values'
  <2>1. Top \in Managers /\ stack[Top] \in Seq(Nat)
    BY <1>2, TopTyped DEF TypeOK
  <2>2. Tasks(stack[Top]) \subseteq Nat
    BY <2>1 DEF Tasks
  <2>3. stack' = [stack EXCEPT ![Top] = <<>>] /\ dropped' = dropped \cup Tasks(stack[Top])
    BY <1>2 DEF Pop
  <2>4. stack' \in [Managers -> Seq(Nat)]
    BY <1>0, <2>1, <2>3 DEF Values
  <2>5. dropped' \in SUBSET Nat
    BY <1>0, <2>2, <2>3 DEF Values
  <2> QED BY <1>0, <1>2, <2>4, <2>5 DEF Pop, Values
<1>3. CASE Destroy
  <2>1. managers # <<>>
    BY <1>3, AtFrame, MainAssumption DEF Destroy
  <2> QED BY <1>0, <1>2, <1>3, <2>1 DEF Destroy, Fail, Values, Crashes
<1>4. CASE EndDestroy
  <2>1. managers # <<>>
    BY <1>4, AtFrame, MainAssumption DEF EndDestroy
  <2> QED BY <1>2, <1>4, <2>1 DEF EndDestroy
<1>5. ASSUME NEW t \in Threads, StartStep(t) PROVE Values'
  BY <1>0, <1>5 DEF StartStep, RegisterTask, ProcessCallbacksNow, DisableAllAtExitManagers, Start, Values
<1>6. ASSUME NEW t \in Threads, NoManager(t) PROVE Values'
  BY <1>0, <1>6 DEF NoManager, Fail, Values, Crashes
<1>7. ASSUME NEW t \in Threads, TakeLock(t) PROVE Values'
  BY <1>0, <1>7 DEF TakeLock, Take, Values
<1>8. ASSUME NEW t \in Threads, Push(t) PROVE Values'
  <2>1. Top \in Managers /\ stack[Top] \in Seq(Nat) /\ registered + 1 \in Nat
    BY <1>8, AtFrame DEF Push, TypeOK
  <2>2. Append(stack[Top], registered + 1) \in Seq(Nat)
    BY <2>1
  <2> QED BY <1>0, <1>8, <2>1, <2>2 DEF Push, Pushed, Unlocked, Fail, Values, Crashes
<1>9. ASSUME NEW t \in Threads, Swap(t) PROVE Values'
  <2>1. Top \in Managers
    BY <1>9, AtFrame DEF Swap
  <2> QED BY <1>0, <1>9, <2>1 DEF Swap, Left, Unlocked, Values
<1>10. ASSUME NEW t \in Threads, RunTask(t) PROVE Values'
  BY <1>0, <1>10 DEF RunTask, Values
<1>11. ASSUME NEW t \in Threads, PopTask(t) PROVE Values'
  <2> DEFINE s == Frame(t).tasks
  <2>1. s \in Seq(Nat) /\ s # <<>>
    BY <1>11, AtFrame, FrameTyped DEF PopTask, TaskFrames, Frame
  <2>2. s[Len(s)] \in Nat
    BY <2>1
  <2> QED BY <1>0, <1>11, <2>2 DEF PopTask, Values
<1>12. ASSUME NEW t \in Threads, EndLoop(t) PROVE Values'
  BY <1>0, <1>12 DEF EndLoop, Values
<1>13. ASSUME NEW t \in Threads, Clear(t) PROVE Values'
  BY <1>0, <1>13 DEF Clear, Cleared, Unlocked, Fail, Values, Crashes
<1>14. ASSUME NEW t \in Threads, Set(t) PROVE Values'
  BY <1>0, <1>14 DEF Set, Unlocked, Values
<1>15. CASE UNCHANGED vars
  BY <1>0, <1>15 DEF vars, Values
<1> QED BY <1>1, <1>3, <1>4, <1>5, <1>6, <1>7, <1>8, <1>9, <1>10, <1>11, <1>12, <1>13, <1>14, <1>15
        DEF Next, StartStep

LEMMA StacksStep ==
  ASSUME Stacks, [Next]_vars
  PROVE  Stacks'
<1>1. Values'
  BY ValuesKept
<1>a. managers \in Seq(Managers) /\ calls \in [Threads -> Seq(FrameType)] /\ Main \in Threads
  BY MainAssumption DEF Stacks, TypeOK
<1>2. SUFFICES /\ calls' \in [Threads -> Seq(FrameType)] /\ managers' \in Seq(Managers)
               /\ Chained' /\ Others' /\ DtorAlone' /\ TaskFrames'
  BY <1>1, TypesFromStacks DEF Stacks
<1>b. CASE calls' = calls /\ managers' = managers
  BY <1>a, <1>b DEF Stacks, Chained, Others, DtorAlone, Alone, TaskFrames, Top
<1>3. ASSUME NEW m \in Managers, NEW shadow \in BOOLEAN, Construct(m, shadow)
      PROVE  /\ calls' \in [Threads -> Seq(FrameType)] /\ managers' \in Seq(Managers)
             /\ Chained' /\ Others' /\ DtorAlone' /\ TaskFrames'
  <2>1. CASE Fail("second_manager")
    BY <1>b, <2>1 DEF Fail
  <2>2. CASE Alone /\ managers' = Append(managers, m) /\ Call(Main, "alive", m)
    <3>1. TaskFrames'
      BY <1>a, <2>2 DEF Call, Stacks, TaskFrames, Alone
    <3> QED BY <2>2, <3>1, ConstructKeeps
  <2> QED BY <1>3, <2>1, <2>2 DEF Construct
<1>4. ASSUME Alone, calls[Main] # <<>>, Frame(Main).at \in ScopePlaces, Pop
      PROVE  /\ calls' \in [Threads -> Seq(FrameType)] /\ managers' \in Seq(Managers)
             /\ Chained' /\ Others' /\ DtorAlone' /\ TaskFrames'
  <2>1. managers' = Popped /\ Return(Main)
    BY <1>4 DEF Pop
  <2>2. TaskFrames'
    <3>1. /\ Len(calls'[Main]) = Len(calls[Main]) - 1 /\ KeepsBelow(Main, Len(calls[Main]) - 1)
          /\ calls'[Main] \in Seq(FrameType) /\ calls[Main] \in Seq(FrameType)
          /\ Len(calls[Main]) \in Nat \ {0}
      BY <1>4, <1>a, <2>1, ReturnFrame, FrameTyped DEF Stacks
    <3>a. DOMAIN calls'[Main] = 1 .. Len(calls[Main]) - 1 /\ DOMAIN calls[Main] = 1 .. Len(calls[Main])
      BY <3>1
    <3>b. \A i \in 1 .. Len(calls[Main]) - 1 : i \in 1 .. Len(calls[Main])
      BY <3>1
    <3>2. \A i \in DOMAIN calls'[Main] : i \in DOMAIN calls[Main] /\ calls'[Main][i] = calls[Main][i]
      BY <3>1, <3>a, <3>b DEF KeepsBelow
    <3>3. \A u \in Threads \ {Main} : calls'[u] = calls[u]
      BY <3>1 DEF KeepsBelow
    <3> QED BY <3>2, <3>3 DEF Stacks, TaskFrames
  <2> QED BY <1>4, <2>1, <2>2, PopKeeps
<1>5. CASE Destroy
  <2>1. Alone /\ calls[Main] # <<>> /\ Frame(Main).at = "alive"
    BY <1>5, <1>a, AtFrame DEF Destroy, Stacks
  <2>2. CASE Fail("not_top")
    BY <1>b, <2>2 DEF Fail
  <2>3. CASE Pop
    BY <1>4, <2>1, <2>3 DEF ScopePlaces
  <2>4. CASE DestroyCalls /\ managers' = managers
    <3>1. /\ calls'[Main] \in Seq(FrameType) /\ calls[Main] \in Seq(FrameType)
          /\ Len(calls'[Main]) = Len(calls[Main]) + 1 /\ KeepsBelow(Main, Len(calls[Main]) - 1)
          /\ Len(calls[Main]) \in Nat \ {0}
          /\ calls'[Main][Len(calls[Main])].at = "dtor"
          /\ calls'[Main][Len(calls[Main]) + 1].at = "process"
      BY <1>a, <2>1, <2>4, DestroyKeeps, FrameTyped DEF Stacks
    <3>2. TaskFrames'
      <4>1. \A i \in DOMAIN calls'[Main] :
              \/ i \in DOMAIN calls[Main] /\ calls'[Main][i] = calls[Main][i]
              \/ calls'[Main][i].at # "task"
        BY <1>a, <3>1 DEF KeepsBelow
      <4>2. \A u \in Threads \ {Main} : calls'[u] = calls[u]
        BY <3>1 DEF KeepsBelow
      <4> QED BY <4>1, <4>2 DEF Stacks, TaskFrames
    <3> QED BY <1>a, <2>1, <2>4, <3>2, DestroyKeeps
  <2> QED BY <1>5, <2>2, <2>3, <2>4 DEF Destroy, DestroyCalls
<1>6. CASE EndDestroy
  <2>1. calls[Main] # <<>> /\ Frame(Main).at = "dtor" /\ Pop
    BY <1>6, <1>a, AtFrame DEF EndDestroy, Stacks
  <2>2. Alone
    BY <1>a, <2>1, FrameTyped DEF Stacks, DtorAlone, Frame
  <2> QED BY <1>4, <2>1, <2>2 DEF ScopePlaces
<1>7. ASSUME NEW t \in Threads, StartStep(t) \/ StayStep(t) \/ MoveStep(t) \/ ReturnStep(t)
      PROVE  /\ calls' \in [Threads -> Seq(FrameType)] /\ managers' \in Seq(Managers)
             /\ Chained' /\ Others' /\ DtorAlone' /\ TaskFrames'
  <2>1. CASE StayStep(t)
    BY <1>7, <1>b, <2>1, StepShapes DEF Stacks
  <2>2. CASE ~StayStep(t)
    BY <1>7, <1>a, <2>2, StepShapes, ChainKept, TaskFramesKept DEF Stacks
  <2> QED BY <2>1, <2>2
<1>8. CASE UNCHANGED vars
  BY <1>b, <1>8 DEF vars
<1> QED BY <1>3, <1>5, <1>6, <1>7, <1>8, StepCases

LEMMA StacksInit == Init => Stacks
<1> SUFFICES ASSUME Init PROVE Stacks
  OBVIOUS
<1>1. TypeOK
  <2>1. stack \in [Managers -> Seq(Nat)] /\ calls \in [Threads -> Seq(FrameType)]
    BY DEF Init
  <2>2. lock \in [Managers -> Threads \cup {NoThread}] /\ managers \in Seq(Managers)
    BY DEF Init
  <2>3. \A t \in Threads : calls[t] = <<>>
    BY DEF Init
  <2> QED BY <2>1, <2>2, <2>3, BuildsAssumption DEF Init, TypeOK, Crashes
<1>2. Chained
  <2> DEFINE f == [j \in 1 .. 0 |-> 0]
  <2>1. Placed(f, <<>>, <<>>)
    BY DEF Placed
  <2> QED BY <2>1, MainAssumption DEF Init, Chained
<1> QED BY <1>1, <1>2, MainAssumption DEF Init, Stacks, Others, DtorAlone, TaskFrames

\* Every variable keeps its type, and a call in progress has a manager to work
\* on, however calls nest.
THEOREM TypeCorrect == Spec => []TypeOK
<1>1. Stacks /\ [Next]_vars => Stacks'
  BY StacksStep
<1>2. Stacks => TypeOK
  BY DEF Stacks
<1> QED BY <1>1, <1>2, StacksInit, PTL DEF Spec

-----------------------------------------------------------------------------
\* Where threads are after a step of t.
LEMMA WhereAfter ==
  ASSUME TypeOK, NEW t \in Threads, calls' \in [Threads -> Seq(FrameType)],
         Moved(t) \/ Called(t) \/ Returned(t)
  PROVE  /\ \A u \in Threads \ {t} : Where(u)' = Where(u)
         /\ Moved(t) => Where(t)' = calls'[t][Len(calls[t])].at
         /\ Called(t) => Where(t)' = calls'[t][Len(calls[t]) + 1].at
<1>1. calls[t] \in Seq(FrameType) /\ calls'[t] \in Seq(FrameType) /\ Len(calls[t]) \in Nat
  BY DEF TypeOK
<1>2. \A u \in Threads \ {t} : calls'[u] = calls[u]
  BY DEF Moved, Called, Returned, KeepsBelow
<1>3. \A u \in Threads \ {t} : Where(u)' = Where(u)
  BY <1>2 DEF Where, Frame
<1>4. ASSUME Moved(t) PROVE Where(t)' = calls'[t][Len(calls[t])].at
  BY <1>1, <1>4 DEF Moved, Where, Frame
<1>5. ASSUME Called(t) PROVE Where(t)' = calls'[t][Len(calls[t]) + 1].at
  BY <1>1, <1>5 DEF Called, Where, Frame
<1> QED BY <1>3, <1>4, <1>5

\* No thread holds a lock.
NoneHeld == \A m \in Managers, t \in Threads : lock[m] # t

LEMMA HolderStep ==
  ASSUME Stacks, HolderNeverWaits, [Next]_vars
  PROVE  HolderNeverWaits'
<1>t. TypeOK /\ NoThread \notin Threads /\ Main \in Threads
  BY MainAssumption DEF Stacks
<1>a. CASE NoneHeld /\ lock' = lock
  BY <1>a DEF NoneHeld, HolderNeverWaits
<1>b. ASSUME lock' = Unlocked, managers # <<>> PROVE HolderNeverWaits'
  <2>1. Top \in Managers
    BY <1>b, <1>t, TopTyped
  <2> QED BY <1>b, <1>t, <2>1 DEF HolderNeverWaits, Unlocked, TypeOK
\* A thread that is not in a block under the lock holds none.
<1>c. ASSUME NEW t \in Threads, Where(t) \notin {"push", "swap", "clear", "set"},
             lock' = lock, managers' = managers,
             \A u \in Threads \ {t} : Where(u)' = Where(u)
      PROVE  HolderNeverWaits'
  BY <1>c DEF HolderNeverWaits, Top
<1>d. ASSUME Alone, Where(Main) \notin {"push", "swap", "clear", "set"} PROVE NoneHeld
  BY <1>d DEF Alone, NoneHeld, HolderNeverWaits, Where
<1>e. CASE lock' = lock /\ calls' = calls /\ managers' = managers
  BY <1>e DEF HolderNeverWaits, Where, Frame, Top
<1>1. ASSUME NEW m \in Managers, NEW shadow \in BOOLEAN, Construct(m, shadow) PROVE HolderNeverWaits'
  <2>1. NoneHeld
    BY <1>1, <1>d DEF Construct, InProgram
  <2>2. lock' = lock
    BY <1>1 DEF Construct, Fail
  <2> QED BY <1>a, <2>1, <2>2
<1>2. CASE Destroy
  <2>1. NoneHeld
    BY <1>2, <1>d DEF Destroy, At
  <2>2. lock' = lock
    BY <1>2 DEF Destroy, Fail, Pop
  <2> QED BY <1>a, <2>1, <2>2
<1>3. CASE EndDestroy
  <2>1. Where(Main) = "dtor" /\ calls[Main] # <<>> /\ Frame(Main).at = "dtor"
    BY <1>3, <1>t, AtFrame DEF EndDestroy, At
  <2>2. Alone
    BY <1>t, <2>1, FrameTyped DEF Stacks, DtorAlone, Frame
  <2>3. NoneHeld /\ lock' = lock
    BY <1>3, <1>d, <2>1, <2>2 DEF EndDestroy, Pop
  <2> QED BY <1>a, <2>3
<1>4. ASSUME NEW t \in Threads, StartStep(t) PROVE HolderNeverWaits'
  <2>1. \A u \in Threads \ {t} : Where(u)' = Where(u)
    BY <1>4, <1>t, StepShapes, WhereAfter
  <2>2. Where(t) \notin {"push", "swap", "clear", "set"} /\ lock' = lock /\ managers' = managers
    BY <1>4 DEF StartStep, RegisterTask, ProcessCallbacksNow, DisableAllAtExitManagers, Start, MayCall, InProgram
  <2> QED BY <1>c, <2>1, <2>2
<1>5. ASSUME NEW t \in Threads, NEW p \in {"register", "process", "finish", "disable"},
             NEW b \in {"push", "swap", "clear", "set"}, Take(t, p, b)
      PROVE  HolderNeverWaits'
  <2>1. /\ Where(t)' = b /\ \A u \in Threads \ {t} : Where(u)' = Where(u)
    BY <1>5, <1>t, TakeShape, WhereAfter
  <2>2. Top' = Top /\ lock[Top] = NoThread /\ lock' = [lock EXCEPT ![Top] = t]
    BY <1>5 DEF Take, Top
  <2>3. NoneHeld
    BY <1>t, <2>2 DEF NoneHeld, HolderNeverWaits
  <2>4. \A m \in Managers : m # Top => lock'[m] = lock[m]
    BY <1>t, <2>2 DEF TypeOK
  <2>5. Top \in Managers
    BY <1>5, <1>t, AtFrame DEF Take
  <2>6. lock'[Top] = t
    BY <1>t, <2>2, <2>5 DEF TypeOK
  <2> QED BY <2>1, <2>2, <2>3, <2>4, <2>6 DEF NoneHeld, HolderNeverWaits
<1>6. ASSUME NEW t \in Threads, RunTask(t) \/ PopTask(t) \/ EndLoop(t) PROVE HolderNeverWaits'
  <2>1. Where(t) \notin {"push", "swap", "clear", "set"} /\ lock' = lock
    BY <1>6 DEF RunTask, PopTask, EndLoop, At
  <2>2. MoveStep(t) \/ ReturnStep(t)
    BY <1>6, <1>t DEF MoveStep, ReturnStep, TypeOK
  <2>3. managers' = managers /\ \A u \in Threads \ {t} : Where(u)' = Where(u)
    BY <1>t, <2>2, StepShapes, WhereAfter
  <2> QED BY <1>c, <2>1, <2>3
<1>7. ASSUME NEW t \in Threads, Push(t) \/ Swap(t) \/ Clear(t) \/ Set(t), lock' = Unlocked
      PROVE  HolderNeverWaits'
  <2>1. managers # <<>>
    BY <1>7, <1>t, AtFrame DEF Push, Swap, Clear, Set
  <2> QED BY <1>7, <1>b, <2>1
<1>8. ASSUME NEW t \in Threads, NoManager(t) \/ Push(t) \/ Swap(t) \/ Clear(t) \/ Set(t)
      PROVE  HolderNeverWaits'
  BY <1>8, <1>e, <1>7 DEF NoManager, Push, Swap, Clear, Set, Fail
<1>9. CASE UNCHANGED vars
  BY <1>e, <1>9 DEF vars
<1> QED BY <1>1, <1>2, <1>3, <1>4, <1>5, <1>6, <1>8, <1>9 DEF Next, StartStep, TakeLock

\* Tasks run without the lock of their manager: whoever has it is in one of the
\* short blocks under it and waits for nothing.
THEOREM NobodyWaitsHolding == Spec => []HolderNeverWaits
<1>1. Init => HolderNeverWaits
  BY MainAssumption DEF Init, HolderNeverWaits
<1>2. Stacks /\ HolderNeverWaits /\ [Next]_vars => Stacks' /\ HolderNeverWaits'
  BY StacksStep, HolderStep
<1> QED BY <1>1, <1>2, StacksInit, PTL DEF Spec

-----------------------------------------------------------------------------
\* What becomes of the tasks.  A manager is marked only while a call runs its
\* tasks (a nested call may clear the mark before that).
FlagMeansRunning ==
  /\ ~dcheck_is_on => processing_callbacks = {}
  /\ \A m \in processing_callbacks : IsProcessing(m)

\* What is on the stack of a manager whose tasks run was put there meanwhile.
LeftAreLate == \A m \in Managers : IsProcessing(m) => Tasks(stack[m]) \subseteq late

\* A destructor is waiting for the ProcessCallbacksNow it has called...
ProcessPlaces == {"process", "swap"} \cup RunPlaces
DtorProcesses ==
  \A i \in DOMAIN calls[Main] :
    calls[Main][i].at = "dtor" /\ i < Len(calls[Main]) => calls[Main][i + 1].at \in ProcessPlaces

\* ... and when that has returned only what came too late is left.
DtorDone ==
  Where(Main) = "dtor" =>
    /\ Tasks(stack[Top]) \subseteq late
    /\ dcheck_is_on => stack[Top] = <<>>

Fates == FlagMeansRunning /\ LeftAreLate /\ DtorProcesses /\ DtorDone

RunAt(f, m) == f.at \in RunPlaces /\ f.manager = m

\* Whether tasks of m run changes only with the frames that are not kept.
LEMMA ProcessingKept ==
  ASSUME TypeOK, NEW t \in Threads, calls' \in [Threads -> Seq(FrameType)],
         NEW n \in Nat, n <= Len(calls[t]), n <= Len(calls'[t]), KeepsBelow(t, n),
         NEW m
  PROVE  /\ IsProcessing(m) =>
              IsProcessing(m)' \/ \E i \in n + 1 .. Len(calls[t]) : RunAt(calls[t][i], m)
         /\ IsProcessing(m)' =>
              IsProcessing(m) \/ \E i \in n + 1 .. Len(calls'[t]) : RunAt(calls'[t][i], m)
<1>1. calls[t] \in Seq(FrameType) /\ calls'[t] \in Seq(FrameType)
  BY DEF TypeOK
<1>2. \A k \in 1 .. n : k \in DOMAIN calls[t] /\ k \in DOMAIN calls'[t] /\ calls'[t][k] = calls[t][k]
  BY <1>1 DEF KeepsBelow
<1>3. /\ \A i \in DOMAIN calls[t] : i \in 1 .. n \/ i \in n + 1 .. Len(calls[t])
      /\ \A i \in DOMAIN calls'[t] : i \in 1 .. n \/ i \in n + 1 .. Len(calls'[t])
  BY <1>1
<1>4. \A u \in Threads \ {t} : calls'[u] = calls[u]
  BY DEF KeepsBelow
<1>5. IsProcessing(m) <=> \E u \in Threads : \E i \in DOMAIN calls[u] : RunAt(calls[u][i], m)
  BY DEF IsProcessing, Running, RunAt, RunPlaces
<1>6. IsProcessing(m)' <=> \E u \in Threads : \E i \in DOMAIN calls'[u] : RunAt(calls'[u][i], m)
  BY DEF IsProcessing, Running, RunAt, RunPlaces
<1>7. ASSUME NEW u \in Threads, NEW i \in DOMAIN calls[u], RunAt(calls[u][i], m)
      PROVE  IsProcessing(m)' \/ \E k \in n + 1 .. Len(calls[t]) : RunAt(calls[t][k], m)
  <2>1. CASE u # t
    BY <1>4, <1>6, <1>7, <2>1
  <2>2. CASE u = t
    BY <1>2, <1>3, <1>6, <1>7, <2>2
  <2> QED BY <2>1, <2>2
<1>8. ASSUME NEW u \in Threads, NEW i \in DOMAIN calls'[u], RunAt(calls'[u][i], m)
      PROVE  IsProcessing(m) \/ \E k \in n + 1 .. Len(calls'[t]) : RunAt(calls'[t][k], m)
  <2>1. CASE u # t
    BY <1>4, <1>5, <1>8, <2>1
  <2>2. CASE u = t
    BY <1>2, <1>3, <1>5, <1>8, <2>2
  <2> QED BY <2>1, <2>2
<1> QED BY <1>5, <1>6, <1>7, <1>8

\* Where a frame that moves goes: into ProcessCallbacksNow's loop only by Swap.
LEMMA MovePlaces ==
  ASSUME TypeOK, NEW t \in Threads, MoveStep(t)
  PROVE  LET p == Frame(t).at
             q == calls'[t][Len(calls[t])].at
         IN  /\ q \in RunPlaces <=> p \in RunPlaces \/ Swap(t)
             /\ p \in ProcessPlaces => q \in ProcessPlaces
<1> USE DEF RunPlaces, ProcessPlaces
<1>1. CASE Take(t, "register", "push")
  BY <1>1, TakeShape DEF Swap, At, Where
<1>2. CASE Take(t, "process", "swap")
  BY <1>2, TakeShape DEF Swap, At, Where
<1>3. CASE Take(t, "finish", "clear")
  BY <1>3, TakeShape
<1>4. CASE Take(t, "disable", "set")
  BY <1>4, TakeShape DEF Swap, At, Where
<1>5. CASE Swap(t)
  BY <1>5, SwapShape
<1>6. CASE RunTask(t)
  BY <1>6, AtFrame, GotoFrame DEF RunTask, ScopePlaces, Places
<1>7. CASE PopTask(t)
  BY <1>7, PopTaskShape
<1>8. CASE EndLoop(t) /\ dcheck_is_on
  BY <1>8, AtFrame, GotoFrame DEF EndLoop, ScopePlaces, Places
<1> QED BY <1>1, <1>2, <1>3, <1>4, <1>5, <1>6, <1>7, <1>8 DEF MoveStep, TakeLock

\* Construct, the end of a destructor and its call of ProcessCallbacksNow.
ScopeStep ==
  \/ \E m \in Managers : managers' = Append(managers, m) /\ Call(Main, "alive", m)
  \/ calls[Main] # <<>> /\ Frame(Main).at \in ScopePlaces /\ Alone /\ Pop
  \/ calls[Main] # <<>> /\ Frame(Main).at = "alive" /\ Alone /\ DestroyCalls /\ managers' = managers

\* They start and end no loop over tasks.
LEMMA ScopeProcessing ==
  ASSUME Stacks, ScopeStep, calls' \in [Threads -> Seq(FrameType)], NEW m
  PROVE  IsProcessing(m)' <=> IsProcessing(m)
<1> DEFINE n == Len(calls[Main])
<1>1. TypeOK /\ Main \in Threads /\ calls \in [Threads -> Seq(FrameType)]
      /\ calls[Main] \in Seq(FrameType) /\ calls'[Main] \in Seq(FrameType) /\ n \in Nat
  BY MainAssumption DEF Stacks, TypeOK
<1>a. ASSUME NEW k \in Nat, k <= n, k <= Len(calls'[Main]), KeepsBelow(Main, k),
             \A i \in k + 1 .. n : ~RunAt(calls[Main][i], m),
             \A i \in k + 1 .. Len(calls'[Main]) : ~RunAt(calls'[Main][i], m)
      PROVE  IsProcessing(m)' <=> IsProcessing(m)
  BY <1>1, <1>a, ProcessingKept
<1>2. CASE \E k \in Managers : Call(Main, "alive", k)
  <2>1. PICK k \in Managers :
          calls'[Main] = Append(calls[Main], [at |-> "alive", manager |-> k, tasks |-> <<>>])
    BY <1>1, <1>2 DEF Call
  <2>2. KeepsBelow(Main, n) /\ Len(calls'[Main]) = n + 1 /\ calls'[Main][n + 1].at = "alive"
    BY <1>1, <1>2, <2>1 DEF Call, KeepsBelow
  <2>3. \A i \in n + 1 .. Len(calls'[Main]) : ~RunAt(calls'[Main][i], m)
    BY <1>1, <2>2 DEF RunAt, RunPlaces
  <2>4. n + 1 .. n = {} /\ n <= n /\ n <= Len(calls'[Main])
    BY <1>1, <2>2
  <2> HIDE DEF n
  <2> QED BY <1>1, <1>a, <2>2, <2>3, <2>4
<1>3. CASE calls[Main] # <<>> /\ Frame(Main).at \in ScopePlaces /\ Return(Main)
  <2>1. n - 1 \in Nat /\ n - 1 <= n /\ (n - 1) + 1 = n
    BY <1>1, <1>3
  <2>2. KeepsBelow(Main, n - 1) /\ Len(calls'[Main]) = n - 1
    BY <1>1, <1>3, ReturnFrame
  <2>3. \A i \in (n - 1) + 1 .. n : ~RunAt(calls[Main][i], m)
    BY <1>1, <1>3 DEF RunAt, RunPlaces, ScopePlaces, Frame
  <2>4. (n - 1) + 1 .. Len(calls'[Main]) = {} /\ n - 1 <= Len(calls'[Main])
    BY <1>1, <2>1, <2>2
  <2> HIDE DEF n
  <2> QED BY <1>a, <2>1, <2>2, <2>3, <2>4
<1>4. CASE calls[Main] # <<>> /\ Frame(Main).at = "alive" /\ Alone /\ DestroyCalls /\ managers' = managers
  <2>1. n - 1 \in Nat /\ n - 1 <= n
    BY <1>1, <1>4
  <2>2. /\ Len(calls'[Main]) = n + 1 /\ KeepsBelow(Main, n - 1)
        /\ calls'[Main][n].at = "dtor" /\ calls'[Main][n + 1].at = "process"
    BY <1>4, DestroyKeeps
  <2>3. \A i \in (n - 1) + 1 .. n : ~RunAt(calls[Main][i], m)
    BY <1>1, <1>4 DEF RunAt, RunPlaces, Frame
  <2>4. \A i \in (n - 1) + 1 .. Len(calls'[Main]) : ~RunAt(calls'[Main][i], m)
    BY <1>1, <2>2 DEF RunAt, RunPlaces
  <2>5. n - 1 <= Len(calls'[Main])
    BY <1>1, <2>2
  <2> HIDE DEF n
  <2> QED BY <1>a, <2>1, <2>2, <2>3, <2>4, <2>5
<1> QED BY <1>2, <1>3, <1>4 DEF ScopeStep, Pop

\* Steps of a thread that are not about scopes: Swap starts the loop of the top
\* manager, the return from it may end it.
LEMMA ThreadProcessing ==
  ASSUME Stacks, NEW t \in Threads, NEW m,
         StartStep(t) \/ StayStep(t) \/ MoveStep(t) \/ ReturnStep(t)
  PROVE  /\ IsProcessing(m)' => IsProcessing(m) \/ (m = Top /\ Swap(t))
         /\ m = Top /\ Swap(t) => IsProcessing(m)'
         /\ IsProcessing(m) =>
              IsProcessing(m)' \/ (m = Top /\ ReturnStep(t) /\ Frame(t).at \in RunPlaces)
<1> DEFINE s == calls[t]
           n == Len(s)
<1>1. TypeOK /\ calls[t] \in Seq(FrameType) /\ calls' \in [Threads -> Seq(FrameType)]
      /\ calls'[t] \in Seq(FrameType) /\ n \in Nat /\ managers' = managers
  BY StepShapes DEF Stacks, TypeOK
<1>2. CASE StartStep(t)
  <2>1. Called(t) /\ calls'[t][n + 1].at \in {"register", "process", "disable"}
    BY <1>1, <1>2, StartShape DEF StartStep, RegisterTask, ProcessCallbacksNow, DisableAllAtExitManagers
  <2>2. \A i \in n + 1 .. Len(calls'[t]) : ~RunAt(calls'[t][i], m)
    BY <1>1, <2>1 DEF RunAt, RunPlaces, Called
  <2>3. n + 1 .. Len(s) = {}
    BY <1>1
  <2>4. ~Swap(t)
    BY <1>2, <1>1, AtFrame DEF StartStep, RegisterTask, ProcessCallbacksNow, DisableAllAtExitManagers,
       Start, MayCall, InProgram, Swap, At
  <2>5. n <= Len(calls[t]) /\ n <= Len(calls'[t]) /\ KeepsBelow(t, n)
    BY <1>1, <2>1 DEF Called
  <2> HIDE DEF n
  <2> QED BY <1>1, <2>2, <2>3, <2>4, <2>5, ProcessingKept DEF s
<1>3. CASE StayStep(t)
  <2>1. calls' = calls
    BY <1>1, <1>3, StepShapes
  <2>2. ~Swap(t)
    BY <1>3 DEF StayStep, NoManager, InProgram, Push, Clear, Swap, At
  <2> QED BY <2>1, <2>2 DEF IsProcessing, Running
<1>4. CASE MoveStep(t)
  <2>1. Moved(t)
    BY <1>1, <1>4, StepShapes
  <2>2. n - 1 \in Nat /\ (n - 1) + 1 = n
    BY <1>1, <2>1 DEF Moved
  <2>3. Frame(t) = s[n] /\ Frame(t).manager = Top /\ calls'[t][n].manager = Top
    BY <1>1, <2>1, FrameOnTop DEF Moved, Frame
  <2>4. RunAt(calls'[t][n], m) <=> RunAt(s[n], m) \/ (m = Top /\ Swap(t))
    BY <1>1, <1>4, <2>3, MovePlaces DEF RunAt
  <2>5. RunAt(calls'[t][n], m) => IsProcessing(m)'
    BY <1>1, <2>1, <2>2 DEF RunAt, RunPlaces, Moved, IsProcessing, Running
  <2>6. RunAt(s[n], m) => IsProcessing(m)
    BY <1>1, <2>2 DEF RunAt, RunPlaces, IsProcessing, Running
  <2>7. m = Top /\ Swap(t) => IsProcessing(m)'
    BY <2>4, <2>5
  <2>8. n - 1 <= Len(calls[t]) /\ n - 1 <= Len(calls'[t]) /\ KeepsBelow(t, n - 1) /\ Len(calls'[t]) = n
    BY <1>1, <2>1, <2>2 DEF Moved
  <2>9. n .. n = {n}
    BY <1>1
  <2> HIDE DEF n
  <2>10. /\ IsProcessing(m) => IsProcessing(m)' \/ \E i \in n .. n : RunAt(calls[t][i], m)
         /\ IsProcessing(m)' => IsProcessing(m) \/ \E i \in n .. n : RunAt(calls'[t][i], m)
    BY <1>1, <2>2, <2>8, ProcessingKept DEF s, n
  <2> QED BY <2>4, <2>5, <2>6, <2>7, <2>9, <2>10
<1>5. CASE ReturnStep(t)
  <2>1. Returned(t)
    BY <1>1, <1>5, StepShapes
  <2>2. n - 1 \in Nat /\ (n - 1) + 1 = n
    BY <1>1, <2>1 DEF Returned
  <2>3. Frame(t) = s[n] /\ Frame(t).manager = Top
    BY <1>1, <2>1, FrameOnTop DEF Returned, Frame
  <2>4. n - 1 <= Len(calls[t]) /\ n - 1 <= Len(calls'[t]) /\ KeepsBelow(t, n - 1) /\ Len(calls'[t]) = n - 1
    BY <1>1, <2>1, <2>2 DEF Returned
  <2>5. n .. n = {n} /\ n .. n - 1 = {}
    BY <1>1
  <2>6. ~Swap(t)
    BY <1>5 DEF ReturnStep, Push, Clear, Set, EndLoop, Swap, At
  <2> HIDE DEF n
  <2>7. /\ IsProcessing(m) => IsProcessing(m)' \/ \E i \in n .. n : RunAt(calls[t][i], m)
        /\ IsProcessing(m)' => IsProcessing(m) \/ \E i \in n .. n - 1 : RunAt(calls'[t][i], m)
    BY <1>1, <2>2, <2>4, ProcessingKept DEF s, n
  <2> QED BY <1>5, <2>3, <2>5, <2>6, <2>7 DEF RunAt
<1> QED BY <1>2, <1>3, <1>4, <1>5

-----------------------------------------------------------------------------
\* What a step is, for the invariants about tasks.
Frozen ==
  UNCHANGED <<dcheck_is_on, managers, g_disable_managers, stack,
              processing_callbacks, calls, late, dropped>>
Opening ==
  \E m \in Managers :
    /\ InProgram(Main)
    /\ managers' = Append(managers, m)
    /\ stack' = [stack EXCEPT ![m] = <<>>]
    /\ processing_callbacks' = processing_callbacks \ {m}
    /\ Call(Main, "alive", m)
    /\ UNCHANGED <<dcheck_is_on, g_disable_managers, late, dropped>>
Closing ==
  /\ calls[Main] # <<>> /\ Frame(Main).at = "alive" /\ Alone
  /\ DestroyCalls
  /\ UNCHANGED <<dcheck_is_on, managers, g_disable_managers, stack,
                 processing_callbacks, late, dropped>>
Closed ==
  /\ calls[Main] # <<>> /\ Frame(Main).at \in ScopePlaces /\ Alone
  /\ g_disable_managers \/ Frame(Main).at = "dtor"
  /\ Pop
ThreadStep(t) == StartStep(t) \/ StayStep(t) \/ MoveStep(t) \/ ReturnStep(t)

LEMMA StepKinds ==
  ASSUME Stacks, [Next]_vars
  PROVE  Frozen \/ Opening \/ Closing \/ Closed \/ \E t \in Threads : ThreadStep(t)
<1>1. TypeOK /\ Main \in Threads
  BY MainAssumption DEF Stacks
<1>2. ASSUME NEW m \in Managers, NEW shadow \in BOOLEAN, Construct(m, shadow)
      PROVE  Frozen \/ Opening
  BY <1>2 DEF Construct, Fail, Frozen, Opening
<1>3. CASE Destroy
  <2>1. Alone /\ calls[Main] # <<>> /\ Frame(Main).at = "alive"
    BY <1>1, <1>3, AtFrame DEF Destroy
  <2> QED BY <1>3, <2>1 DEF Destroy, DestroyCalls, Fail, Frozen, Closing, Closed, ScopePlaces
<1>4. CASE EndDestroy
  <2>1. calls[Main] # <<>> /\ Frame(Main).at = "dtor" /\ Pop
    BY <1>1, <1>4, AtFrame DEF EndDestroy
  <2>2. Alone
    BY <1>1, <2>1, FrameTyped DEF Stacks, DtorAlone, Frame
  <2> QED BY <2>1, <2>2 DEF Closed, ScopePlaces
<1>5. CASE UNCHANGED vars
  BY <1>5 DEF vars, Frozen
<1> QED BY <1>2, <1>3, <1>4, <1>5, StepCases DEF ThreadStep

\* Such steps of scopes start and end no loop over tasks.
LEMMA ScopesOnly ==
  ASSUME Stacks, [Next]_vars, Opening \/ Closing \/ Closed, NEW m
  PROVE  IsProcessing(m)' <=> IsProcessing(m)
<1>1. calls' \in [Threads -> Seq(FrameType)]
  BY StacksStep DEF Stacks, TypeOK
<1>2. ScopeStep
  BY DEF Opening, Closing, Closed, ScopeStep
<1> QED BY <1>1, <1>2, ScopeProcessing

\* What a thread's step does to the rest of the state.
LEMMA ThreadEffects ==
  ASSUME Stacks, NEW t \in Threads, ThreadStep(t)
  PROVE  /\ dcheck_is_on' = dcheck_is_on /\ managers' = managers /\ dropped' = dropped
         /\ late \subseteq late'
         /\ g_disable_managers => g_disable_managers'
         /\ ~Push(t) /\ ~Swap(t) => stack' = stack
         /\ Swap(t) => stack' = [stack EXCEPT ![Top] = <<>>]
         /\ Push(t) =>
              \/ stack' = stack
              \/ /\ stack' = [stack EXCEPT ![Top] = Append(@, registered')]
                 /\ IsProcessing(Top) => registered' \in late'
         /\ Swap(t) => processing_callbacks' =
              IF dcheck_is_on THEN processing_callbacks \cup {Top} ELSE processing_callbacks
         /\ ~Swap(t) => processing_callbacks' \subseteq processing_callbacks
         /\ ReturnStep(t) /\ Frame(t).at \in RunPlaces =>
              ~dcheck_is_on \/ processing_callbacks' = processing_callbacks \ {Top}
<1> USE DEF Fail, Left, Pushed
<1>1. CASE StartStep(t)
  <2>1. UNCHANGED <<dcheck_is_on, managers, g_disable_managers, stack, processing_callbacks, late, dropped>>
    BY <1>1 DEF StartStep, RegisterTask, ProcessCallbacksNow, DisableAllAtExitManagers, Start
  <2>2. ~Push(t) /\ ~Swap(t) /\ ~ReturnStep(t)
    BY <1>1 DEF StartStep, RegisterTask, ProcessCallbacksNow, DisableAllAtExitManagers, Start, MayCall,
       InProgram, Push, Swap, ReturnStep, Clear, Set, EndLoop, At
  <2> QED BY <2>1, <2>2
<1>2. CASE NoManager(t)
  <2>1. ~Push(t) /\ ~Swap(t) /\ ~ReturnStep(t)
    BY <1>2 DEF NoManager, InProgram, Push, Swap, ReturnStep, Clear, Set, EndLoop, At
  <2> QED BY <1>2, <2>1 DEF NoManager
<1>3. CASE Push(t)
  <2>1. ~Swap(t) /\ Frame(t).at \notin RunPlaces
    BY <1>3, AtFrame DEF Push, Swap, At, RunPlaces, Stacks
  <2> QED BY <1>3, <2>1 DEF Push
<1>4. CASE Clear(t)
  <2>1. ~Push(t) /\ ~Swap(t)
    BY <1>4 DEF Push, Swap, Clear, At
  <2>2. ReturnStep(t) => Clear(t) /\ Return(t)
    BY <1>4 DEF ReturnStep, Push, Clear, Set, EndLoop, At
  <2>3. Return(t) => calls' # calls
    <3>1. calls[t] # <<>>
      BY <1>4, AtFrame DEF Clear, Stacks
    <3> QED BY <3>1, FrameTyped, ReturnFrame DEF Stacks
  <2> QED BY <1>4, <2>1, <2>2, <2>3 DEF Clear, Cleared
<1>5. CASE TakeLock(t)
  <2>1. ~Push(t) /\ ~Swap(t) /\ ~ReturnStep(t)
    BY <1>5 DEF TakeLock, Take, Push, Swap, ReturnStep, Clear, Set, EndLoop, At
  <2> QED BY <1>5, <2>1 DEF TakeLock, Take
<1>6. CASE Swap(t)
  <2>1. ~Push(t) /\ ~ReturnStep(t)
    BY <1>6 DEF Push, Swap, ReturnStep, Clear, Set, EndLoop, At
  <2> QED BY <1>6, <2>1 DEF Swap
<1>7. CASE RunTask(t) \/ PopTask(t)
  <2>1. ~Push(t) /\ ~Swap(t)
    BY <1>7 DEF RunTask, PopTask, Push, Swap, At
  <2>2. ReturnStep(t) => RunTask(t) /\ EndLoop(t)
    BY <1>7 DEF RunTask, PopTask, ReturnStep, Push, Clear, Set, EndLoop, At
  <2>3. ~(RunTask(t) /\ EndLoop(t))
    BY DEF RunTask, EndLoop
  <2> QED BY <1>7, <2>1, <2>2, <2>3 DEF RunTask, PopTask
<1>8. CASE EndLoop(t)
  <2>1. ~Push(t) /\ ~Swap(t)
    BY <1>8 DEF EndLoop, Push, Swap, At
  <2>2. ReturnStep(t) => ~dcheck_is_on
    BY <1>8 DEF ReturnStep, Push, Clear, Set, EndLoop, At
  <2> QED BY <1>8, <2>1, <2>2 DEF EndLoop
<1>9. CASE Set(t)
  <2>1. ~Push(t) /\ ~Swap(t) /\ Frame(t).at \notin RunPlaces
    BY <1>9, AtFrame DEF Set, Push, Swap, At, RunPlaces, Stacks
  <2> QED BY <1>9, <2>1 DEF Set
<1> QED BY <1>1, <1>2, <1>3, <1>4, <1>5, <1>6, <1>7, <1>8, <1>9
        DEF ThreadStep, StayStep, MoveStep, ReturnStep

-----------------------------------------------------------------------------
LEMMA FlagStep ==
  ASSUME Stacks, FlagMeansRunning, [Next]_vars
  PROVE  FlagMeansRunning'
<1>1. CASE Frozen
  BY <1>1 DEF Frozen, FlagMeansRunning, IsProcessing, Running
<1>2. CASE Opening \/ Closing \/ Closed
  <2>1. dcheck_is_on' = dcheck_is_on /\ processing_callbacks' \subseteq processing_callbacks
    BY <1>2 DEF Opening, Closing, Closed, Pop
  <2> QED BY <1>2, <2>1, ScopesOnly DEF FlagMeansRunning
<1>3. ASSUME NEW t \in Threads, ThreadStep(t) PROVE FlagMeansRunning'
  <2>1. /\ dcheck_is_on' = dcheck_is_on
        /\ ~dcheck_is_on => processing_callbacks' \subseteq processing_callbacks
        /\ \/ processing_callbacks' \subseteq processing_callbacks
           \/ Swap(t) /\ processing_callbacks' \subseteq processing_callbacks \cup {Top}
    BY <1>3, ThreadEffects
  <2>2. ASSUME NEW m \in processing_callbacks' PROVE IsProcessing(m)'
    <3>1. CASE m = Top /\ Swap(t)
      BY <1>3, <3>1, ThreadProcessing DEF ThreadStep
    <3>2. CASE ~(m = Top /\ Swap(t))
      <4>1. m \in processing_callbacks /\ IsProcessing(m)
        BY <2>1, <2>2, <3>2 DEF FlagMeansRunning
      <4>2. m = Top /\ ReturnStep(t) /\ Frame(t).at \in RunPlaces =>
              m \notin processing_callbacks' \/ m \notin processing_callbacks
        BY <1>3, ThreadEffects DEF FlagMeansRunning
      <4> QED BY <1>3, <2>2, <4>1, <4>2, ThreadProcessing DEF ThreadStep
    <3> QED BY <3>1, <3>2
  <2> QED BY <2>1, <2>2 DEF FlagMeansRunning
<1> QED BY <1>1, <1>2, <1>3, StepKinds

LEMMA TasksOf ==
  /\ Tasks(<<>>) = {}
  /\ \A s \in Seq(Nat), k \in Nat : Tasks(Append(s, k)) \subseteq Tasks(s) \cup {k}
BY DEF Tasks

LEMMA LateStep ==
  ASSUME Stacks, LeftAreLate, [Next]_vars
  PROVE  LeftAreLate'
<1>t. stack \in [Managers -> Seq(Nat)] /\ registered' \in Nat
  BY StacksStep DEF Stacks, TypeOK
<1>1. CASE Frozen
  BY <1>1 DEF Frozen, LeftAreLate, IsProcessing, Running, Tasks
<1>2. CASE Opening \/ Closing \/ Closed
  <2>1. late' = late /\ \A m \in Managers : stack'[m] \in {stack[m], <<>>}
    BY <1>2, <1>t DEF Opening, Closing, Closed, Pop
  <2>2. ASSUME NEW m \in Managers, IsProcessing(m)' PROVE Tasks(stack'[m]) \subseteq late'
    BY <1>2, <2>1, <2>2, ScopesOnly, TasksOf DEF LeftAreLate
  <2> QED BY <2>2 DEF LeftAreLate, Tasks
<1>3. ASSUME NEW t \in Threads, ThreadStep(t), NEW m \in Managers, IsProcessing(m)'
      PROVE  Tasks(stack'[m]) \subseteq late'
  <2>1. late \subseteq late'
    BY <1>3, ThreadEffects
  <2>2. IsProcessing(m) \/ (m = Top /\ Swap(t))
    BY <1>3, ThreadProcessing DEF ThreadStep
  <2>3. CASE m = Top /\ Swap(t)
    BY <1>3, <1>t, <2>3, ThreadEffects, TasksOf
  <2>4. CASE IsProcessing(m) /\ stack'[m] = stack[m]
    BY <2>1, <2>4 DEF LeftAreLate
  <2>5. CASE IsProcessing(m) /\ m = Top /\ Push(t) /\ stack' # stack
    <3>1. stack'[m] = Append(stack[m], registered') /\ registered' \in late'
      BY <1>3, <1>t, <2>5, ThreadEffects
    <3> QED BY <1>t, <2>1, <2>5, <3>1, TasksOf DEF LeftAreLate
  <2>6. \/ stack'[m] = stack[m]
        \/ m = Top /\ Swap(t)
        \/ m = Top /\ Push(t) /\ stack' # stack
    <3>1. \/ stack' = stack
          \/ Swap(t) /\ stack' = [stack EXCEPT ![Top] = <<>>]
          \/ Push(t) /\ stack' = [stack EXCEPT ![Top] = Append(@, registered')]
      BY <1>3, ThreadEffects
    <3>2. m # Top => stack'[m] = stack[m]
      BY <1>t, <3>1
    <3> QED BY <3>1, <3>2
  <2> QED BY <2>2, <2>3, <2>4, <2>5, <2>6
<1>4. (\E t \in Threads : ThreadStep(t)) => LeftAreLate'
  BY <1>3 DEF LeftAreLate, Tasks
<1> QED BY <1>1, <1>2, <1>4, StepKinds

\* Whoever is under a frame of a destructor keeps to ProcessCallbacksNow.
LEMMA DtorProcessesStep ==
  ASSUME Stacks, DtorProcesses, [Next]_vars
  PROVE  DtorProcesses'
<1> DEFINE n == Len(calls[Main])
<1>t. /\ TypeOK /\ Main \in Threads /\ calls \in [Threads -> Seq(FrameType)]
      /\ calls[Main] \in Seq(FrameType) /\ calls'[Main] \in Seq(FrameType) /\ n \in Nat
  BY StacksStep, MainAssumption DEF Stacks, TypeOK
<1>1. CASE calls'[Main] = calls[Main]
  BY <1>1 DEF DtorProcesses
<1>2. ASSUME n > 0, KeepsBelow(Main, n - 1), Len(calls'[Main]) = n - 1 PROVE DtorProcesses'
  <2>1. SUFFICES ASSUME NEW i \in 1 .. n - 1, i < n - 1, calls'[Main][i].at = "dtor"
                 PROVE  calls'[Main][i + 1].at \in ProcessPlaces
    BY <1>2, <1>t DEF DtorProcesses
  <2>2. /\ i \in DOMAIN calls[Main] /\ i < n
        /\ i \in 1 .. n - 1 /\ i + 1 \in 1 .. n - 1
    BY <1>t, <2>1
  <2>3. calls'[Main][i] = calls[Main][i] /\ calls'[Main][i + 1] = calls[Main][i + 1]
    BY <1>2, <2>2 DEF KeepsBelow
  <2> QED BY <2>1, <2>2, <2>3 DEF DtorProcesses
<1>3. ASSUME KeepsBelow(Main, n), Len(calls'[Main]) = n + 1, n > 0 => calls[Main][n].at # "dtor"
      PROVE  DtorProcesses'
  <2>1. SUFFICES ASSUME NEW i \in 1 .. n, calls'[Main][i].at = "dtor"
                 PROVE  calls'[Main][i + 1].at \in ProcessPlaces
    BY <1>3, <1>t DEF DtorProcesses
  <2>2. i \in DOMAIN calls[Main] /\ calls'[Main][i] = calls[Main][i]
    BY <1>3, <1>t, <2>1 DEF KeepsBelow
  <2>3. i # n /\ i + 1 \in 1 .. n
    BY <1>3, <1>t, <2>1, <2>2
  <2>4. calls'[Main][i + 1] = calls[Main][i + 1]
    BY <1>3, <2>3 DEF KeepsBelow
  <2> QED BY <1>t, <2>1, <2>2, <2>3, <2>4 DEF DtorProcesses
<1>4. ASSUME n > 0, KeepsBelow(Main, n - 1), Len(calls'[Main]) = n,
             calls[Main][n].at \in ProcessPlaces => calls'[Main][n].at \in ProcessPlaces
      PROVE  DtorProcesses'
  <2>1. SUFFICES ASSUME NEW i \in 1 .. n - 1, calls'[Main][i].at = "dtor"
                 PROVE  calls'[Main][i + 1].at \in ProcessPlaces
    BY <1>4, <1>t DEF DtorProcesses
  <2>2. /\ i \in DOMAIN calls[Main] /\ i < n
        /\ calls'[Main][i] = calls[Main][i]
    BY <1>4, <1>t, <2>1 DEF KeepsBelow
  <2>3. calls[Main][i + 1].at \in ProcessPlaces
    BY <2>1, <2>2 DEF DtorProcesses
  <2>4. CASE i = n - 1
    BY <1>4, <1>t, <2>3, <2>4
  <2>5. CASE i < n - 1
    <3>1. calls'[Main][i + 1] = calls[Main][i + 1]
      BY <1>4, <1>t, <2>1, <2>5 DEF KeepsBelow
    <3> QED BY <2>3, <3>1
  <2> QED BY <1>t, <2>1, <2>4, <2>5
<1>5. ASSUME n > 0, KeepsBelow(Main, n - 1), Len(calls'[Main]) = n + 1,
             calls[Main][n].at = "alive", calls'[Main][n + 1].at = "process"
      PROVE  DtorProcesses'
  <2>1. SUFFICES ASSUME NEW i \in 1 .. n, calls'[Main][i].at = "dtor"
                 PROVE  calls'[Main][i + 1].at \in ProcessPlaces
    BY <1>5, <1>t DEF DtorProcesses
  <2>2. CASE i = n
    BY <1>5, <2>2 DEF ProcessPlaces
  <2>3. CASE i = n - 1
    <3>1. calls[Main][i].at = "dtor" /\ i \in DOMAIN calls[Main] /\ i < n
      BY <1>t, <1>5, <2>1, <2>3 DEF KeepsBelow
    <3>2. calls[Main][n].at \in ProcessPlaces
      BY <1>t, <2>3, <3>1 DEF DtorProcesses
    <3> QED BY <1>5, <3>2 DEF ProcessPlaces, RunPlaces
  <2>4. CASE i < n - 1
    <3>1. /\ i \in DOMAIN calls[Main] /\ i < n
          /\ calls'[Main][i] = calls[Main][i] /\ calls'[Main][i + 1] = calls[Main][i + 1]
      BY <1>5, <1>t, <2>1, <2>4 DEF KeepsBelow
    <3> QED BY <2>1, <3>1 DEF DtorProcesses
  <2> QED BY <1>t, <2>2, <2>3, <2>4
<1>6. CASE Frozen
  BY <1>1, <1>6 DEF Frozen
<1>7. CASE Opening
  <2>1. KeepsBelow(Main, n) /\ Len(calls'[Main]) = n + 1
    BY <1>t, <1>7 DEF Opening, Call, KeepsBelow
  <2>2. n > 0 => calls[Main][n].at # "dtor"
    BY <1>t, <1>7 DEF Opening, InProgram, Where, Frame
  <2> QED BY <1>3, <2>1, <2>2
<1>8. CASE Closing
  BY <1>5, <1>8, <1>t, DestroyKeeps DEF Closing, Frame
<1>9. CASE Closed
  BY <1>2, <1>9, <1>t, ReturnFrame DEF Closed, Pop
<1>10. ASSUME NEW t \in Threads, ThreadStep(t), t # Main PROVE DtorProcesses'
  <2>1. calls'[Main] = calls[Main]
    BY <1>t, <1>10, StepShapes DEF ThreadStep, Moved, Called, Returned, KeepsBelow
  <2> QED BY <1>1, <2>1
<1>11. CASE ThreadStep(Main)
  <2>1. CASE StartStep(Main)
    <3>1. Called(Main)
      BY <1>t, <2>1, StepShapes
    <3>2. n > 0 => calls[Main][n].at # "dtor"
      BY <1>t, <3>1 DEF Called, InProgram, Where, Frame
    <3> QED BY <1>3, <3>1, <3>2 DEF Called
  <2>2. CASE StayStep(Main)
    BY <1>1, <1>t, <2>2, StepShapes
  <2>3. CASE MoveStep(Main)
    BY <1>4, <1>t, <2>3, StepShapes, MovePlaces DEF Moved, Frame
  <2>4. CASE ReturnStep(Main)
    BY <1>2, <1>t, <2>4, StepShapes DEF Returned
  <2> QED BY <1>11, <2>1, <2>2, <2>3, <2>4 DEF ThreadStep
<1> QED BY <1>6, <1>7, <1>8, <1>9, <1>10, <1>11, StepKinds

\* Only the return of the call it has made brings a destructor back.
LEMMA DtorReturn ==
  ASSUME TypeOK, NEW s, s = calls'[Main], s \in Seq(FrameType), DtorProcesses, calls[Main] # <<>>,
         Len(s) = Len(calls[Main]) - 1, KeepsBelow(Main, Len(calls[Main]) - 1),
         Where(Main)' = "dtor"
  PROVE  Frame(Main).at \in ProcessPlaces
<1> DEFINE n == Len(calls[Main])
<1>1. calls[Main] \in Seq(FrameType) /\ n \in Nat \ {0} /\ Main \in Threads
  BY MainAssumption, FrameTyped
<1>2. s # <<>> /\ s[Len(s)].at = "dtor"
  BY DEF Where, Frame
<1>3. n - 1 \in 1 .. n - 1 /\ n - 1 \in DOMAIN calls[Main] /\ n - 1 < n
  BY <1>1, <1>2
<1>4. calls[Main][n - 1].at = "dtor"
  BY <1>2, <1>3 DEF KeepsBelow
<1>5. calls[Main][(n - 1) + 1].at \in ProcessPlaces
  BY <1>3, <1>4 DEF DtorProcesses
<1> QED BY <1>1, <1>5 DEF Frame

LEMMA DtorDoneStep ==
  ASSUME Stacks, LeftAreLate, DtorProcesses, DtorDone, [Next]_vars
  PROVE  DtorDone'
<1> DEFINE n == Len(calls[Main])
<1>t. /\ TypeOK /\ Main \in Threads /\ calls \in [Threads -> Seq(FrameType)]
      /\ calls' \in [Threads -> Seq(FrameType)]
      /\ calls[Main] \in Seq(FrameType) /\ calls'[Main] \in Seq(FrameType) /\ n \in Nat
  <2>1. TypeOK /\ TypeOK'
    BY StacksStep DEF Stacks
  <2>2. calls \in [Threads -> Seq(FrameType)] /\ calls' \in [Threads -> Seq(FrameType)]
    BY <2>1 DEF TypeOK
  <2> QED BY <2>1, <2>2, MainAssumption
<1>1. CASE Frozen
  BY <1>1 DEF Frozen, DtorDone, Where, Frame, Top, Tasks
<1>2. CASE Opening
  <2>1. Len(calls'[Main]) = n + 1 /\ calls'[Main][n + 1].at = "alive"
    BY <1>t, <1>2 DEF Opening, Call
  <2>2. Where(Main)' # "dtor"
    BY <1>t, <2>1 DEF Where, Frame
  <2> QED BY <2>2 DEF DtorDone
<1>3. CASE Closing
  <2>1. Len(calls'[Main]) = n + 1 /\ calls'[Main][n + 1].at = "process"
    BY <1>t, <1>3, DestroyKeeps DEF Closing
  <2>2. Where(Main)' # "dtor"
    BY <1>t, <2>1 DEF Where, Frame
  <2> QED BY <2>2 DEF DtorDone
<1>4. CASE Closed
  <2>1. /\ Len(calls'[Main]) = n - 1 /\ KeepsBelow(Main, n - 1)
        /\ calls[Main] # <<>> /\ Frame(Main).at \in ScopePlaces
    BY <1>t, <1>4, ReturnFrame DEF Closed, Pop
  <2>2. Where(Main)' # "dtor"
    BY <1>t, <2>1, DtorReturn DEF ScopePlaces, ProcessPlaces, RunPlaces
  <2> QED BY <2>2 DEF DtorDone
<1>5. ASSUME NEW t \in Threads, ThreadStep(t), t # Main PROVE DtorDone'
  <2>1. calls'[Main] = calls[Main]
    BY <1>t, <1>5, StepShapes DEF ThreadStep, Moved, Called, Returned, KeepsBelow
  <2>2. Where(Main)' = Where(Main)
    BY <2>1 DEF Where, Frame
  <2>3. CASE Where(Main) = "dtor"
    <3>1. calls[Main] # <<>> /\ n \in DOMAIN calls[Main] /\ calls[Main][n].at = "dtor"
      BY <1>t, <2>3 DEF Where, Frame
    <3>2. ~InProgram(t) /\ calls[t] = <<>>
      BY <1>5, <3>1 DEF InProgram, Stacks, DtorAlone, Alone
    <3>3. \A p : p # "outside" => ~At(t, p)
      BY <3>2 DEF At, Where
    <3>4. ~StartStep(t) /\ ~StayStep(t)
      BY <3>2, <3>3 DEF StartStep, StayStep, RegisterTask, ProcessCallbacksNow,
         DisableAllAtExitManagers, Start, MayCall, NoManager, Push, Clear
    <3>5. ~MoveStep(t) /\ ~ReturnStep(t)
      BY <3>3 DEF MoveStep, ReturnStep, TakeLock, Take, Swap, RunTask, PopTask, EndLoop, Push, Clear, Set
    <3> QED BY <1>5, <3>4, <3>5 DEF ThreadStep
  <2> QED BY <2>2, <2>3 DEF DtorDone
<1>6. ASSUME StartStep(Main) PROVE DtorDone'
  <2>1. Where(Main)' # "dtor"
    BY <1>6, <1>t, StepShapes, WhereAfter DEF Called, ScopePlaces
  <2> QED BY <2>1 DEF DtorDone
<1>7. ASSUME MoveStep(Main) PROVE DtorDone'
  <2>1. Where(Main)' # "dtor"
    BY <1>7, <1>t, StepShapes, WhereAfter DEF Moved, ScopePlaces
  <2> QED BY <2>1 DEF DtorDone
<1>8. ASSUME StayStep(Main) PROVE DtorDone'
  <2>1. calls' = calls
    BY <1>8, <1>t, StepShapes
  <2>2. Where(Main) # "dtor"
    BY <1>8 DEF StayStep, NoManager, InProgram, Push, Clear, At
  <2>3. Where(Main)' = Where(Main)
    BY <2>1 DEF Where, Frame
  <2> QED BY <2>2, <2>3 DEF DtorDone
<1>9. ASSUME ReturnStep(Main), Where(Main)' = "dtor"
      PROVE  Tasks(stack'[Top']) \subseteq late' /\ (dcheck_is_on' => stack'[Top'] = <<>>)
  <2>1. Returned(Main) /\ managers' = managers
    BY <1>9, <1>t, StepShapes
  <2>2. Frame(Main).at \in ProcessPlaces
    BY <1>9, <1>t, <2>1, DtorReturn DEF Returned
  <2>3. Top' = Top
    BY <2>1 DEF Top
  <2>4. ~Push(Main) /\ ~Set(Main)
    <3>1. ASSUME At(Main, "push") \/ At(Main, "set") PROVE FALSE
      <4>1. Frame(Main).at \in {"push", "set"}
        BY <1>t, <3>1, AtFrame
      <4> QED BY <2>2, <4>1 DEF ProcessPlaces, RunPlaces
    <3> QED BY <3>1 DEF Push, Set
  <2>5. CASE Clear(Main) /\ Return(Main)
    <3>1. stack' = stack /\ late' = late /\ stack[Top] = <<>>
      <4>1. Len(calls'[Main]) # Len(calls[Main])
        BY <1>t, <2>1 DEF Returned
      <4> QED BY <2>5, <4>1 DEF Clear, Fail, MissesTasks
    <3> QED BY <2>3, <3>1, TasksOf
  <2>6. CASE EndLoop(Main) /\ ~dcheck_is_on
    <3>1. stack' = stack /\ late' = late /\ dcheck_is_on' = dcheck_is_on /\ Frame(Main).at = "run"
      BY <1>t, <2>6, AtFrame DEF EndLoop
    <3>2. /\ Frame(Main).manager = Top /\ managers # <<>> /\ calls[Main] # <<>>
          /\ n \in DOMAIN calls[Main] /\ Top \in Managers
      BY <1>t, <2>1, FrameOnTop, FrameTyped, TopTyped DEF Returned
    <3>3. n \in Running(Main, Top)
      BY <3>1, <3>2 DEF Running, Frame
    <3>4. IsProcessing(Top)
      BY <1>t, <3>3 DEF IsProcessing
    <3> QED BY <2>3, <2>6, <3>1, <3>2, <3>4 DEF LeftAreLate
  <2> QED BY <1>9, <2>4, <2>5, <2>6 DEF ReturnStep
<1>10. ReturnStep(Main) => DtorDone'
  BY <1>9 DEF DtorDone, Tasks, Top
<1> QED BY <1>1, <1>2, <1>3, <1>4, <1>5, <1>6, <1>7, <1>8, <1>10, <1>t, StepKinds DEF ThreadStep

LEMMA FatesStep ==
  ASSUME Stacks, Fates, [Next]_vars
  PROVE  Fates'
BY FlagStep, LateStep, DtorProcessesStep, DtorDoneStep DEF Fates

LEMMA FatesInit == Init => Fates
<1> SUFFICES ASSUME Init PROVE Fates
  OBVIOUS
<1>1. \A t \in Threads : calls[t] = <<>>
  BY DEF Init
<1>2. \A m \in Managers : ~IsProcessing(m)
  BY <1>1 DEF IsProcessing, Running
<1> QED BY <1>1, <1>2, MainAssumption
        DEF Init, Fates, FlagMeansRunning, LeftAreLate, DtorProcesses, DtorDone, Where

\* What a destructor drops came too late, or managers have been disabled.
LEMMA DroppedStep ==
  ASSUME Stacks, Fates, NothingIsDropped, [Next]_vars
  PROVE  NothingIsDropped'
<1>1. CASE Frozen \/ Opening \/ Closing
  BY <1>1 DEF Frozen, Opening, Closing, NothingIsDropped
<1>2. CASE Closed
  <2>1. /\ dropped' = dropped \cup Tasks(stack[Top])
        /\ dcheck_is_on' = dcheck_is_on /\ g_disable_managers' = g_disable_managers /\ late' = late
    BY <1>2 DEF Closed, Pop
  <2>2. CASE g_disable_managers
    BY <2>1, <2>2 DEF NothingIsDropped
  <2>3. CASE Frame(Main).at = "dtor"
    <3>1. Where(Main) = "dtor"
      BY <1>2, <2>3 DEF Closed, Where
    <3>2. Tasks(stack[Top]) \subseteq late /\ (dcheck_is_on => Tasks(stack[Top]) = {})
      BY <3>1, TasksOf DEF Fates, DtorDone
    <3> QED BY <2>1, <3>2 DEF NothingIsDropped
  <2> QED BY <1>2, <2>2, <2>3 DEF Closed
<1>3. ASSUME NEW t \in Threads, ThreadStep(t) PROVE NothingIsDropped'
  BY <1>3, ThreadEffects DEF NothingIsDropped
<1> QED BY <1>1, <1>2, <1>3, StepKinds

\* The DCHECKs fail for no other reason.
LEMMA FailsStep ==
  ASSUME Stacks, Fates, OnlyLateRegistrationsFail, [Next]_vars
  PROVE  OnlyLateRegistrationsFail'
<1>t. TypeOK /\ Main \in Threads
  BY MainAssumption DEF Stacks
<1>1. CASE UNCHANGED vars
  BY <1>1 DEF vars, OnlyLateRegistrationsFail, IsProcessing, Running
<1>2. ASSUME Next PROVE crash = "none"
  BY <1>2 DEF Next, Construct, Destroy, EndDestroy, RegisterTask, ProcessCallbacksNow,
     DisableAllAtExitManagers, Start, MayCall, InProgram, NoManager, TakeLock, Take, Push, Swap,
     RunTask, PopTask, EndLoop, Clear, Set, At
<1>3. CASE crash' = crash /\ crash = "none"
  BY <1>3 DEF OnlyLateRegistrationsFail
<1>4. ASSUME NEW c, Fail(c), c \notin {"processing", "not_empty", "not_top"}
      PROVE  OnlyLateRegistrationsFail'
  BY <1>4 DEF Fail, OnlyLateRegistrationsFail
<1>5. ASSUME NEW m \in Managers, NEW shadow \in BOOLEAN, Construct(m, shadow)
      PROVE  OnlyLateRegistrationsFail'
  BY <1>3, <1>4, <1>5 DEF Construct, InProgram
<1>6. CASE Destroy
  <2>1. Frame(Main).manager = Top /\ crash = "none"
    BY <1>t, <1>6, AtFrame, FrameOnTop DEF Destroy
  <2> QED BY <1>3, <1>6, <2>1 DEF Destroy, Pop
<1>7. CASE EndDestroy
  BY <1>3, <1>7 DEF EndDestroy, Pop, At
<1>8. ASSUME NEW t \in Threads, Push(t) PROVE OnlyLateRegistrationsFail'
  <2>1. CASE crash' = crash
    BY <1>3, <1>8, <2>1 DEF Push, At
  <2>2. CASE Fail("processing") /\ Top \in processing_callbacks
    <3>1. \E m \in Managers : IsProcessing(m)
      BY <1>t, <2>2 DEF Fates, FlagMeansRunning, TypeOK
    <3>2. \E m \in Managers : IsProcessing(m)'
      BY <2>2, <3>1 DEF Fail, IsProcessing, Running
    <3> QED BY <2>2, <3>2 DEF Fail, OnlyLateRegistrationsFail
  <2> QED BY <1>8, <2>1, <2>2 DEF Push
<1>9. ASSUME NEW t \in Threads, Clear(t) PROVE OnlyLateRegistrationsFail'
  <2>1. CASE crash' = crash
    BY <1>3, <1>9, <2>1 DEF Clear, At
  <2>2. CASE Fail("not_empty") /\ stack[Top] # <<>>
    <3>1. /\ calls[t] # <<>> /\ Frame(t).at = "clear" /\ Frame(t).manager = Top
          /\ Len(calls[t]) \in DOMAIN calls[t] /\ Top \in Managers
      BY <1>t, <1>9, AtFrame, FrameOnTop, FrameTyped DEF Clear
    <3>2. Len(calls[t]) \in Running(t, Top)
      BY <3>1 DEF Running, Frame
    <3>3. Tasks(stack[Top]) \subseteq late
      BY <3>1, <3>2 DEF IsProcessing, Fates, LeftAreLate
    <3>4. Tasks(stack[Top]) # {}
      <4>1. stack[Top] \in Seq(Nat)
        BY <1>t, <3>1 DEF TypeOK
      <4>2. 1 \in DOMAIN stack[Top]
        BY <2>2, <4>1
      <4> QED BY <4>2 DEF Tasks
    <3> QED BY <2>2, <3>3, <3>4 DEF Fail, OnlyLateRegistrationsFail
  <2> QED BY <1>9, <2>1, <2>2 DEF Clear, MissesTasks
<1>10. ASSUME NEW t \in Threads, NoManager(t) PROVE OnlyLateRegistrationsFail'
  BY <1>4, <1>10 DEF NoManager
<1>11. ASSUME NEW t \in Threads,
              StartStep(t) \/ TakeLock(t) \/ Swap(t) \/ RunTask(t) \/ PopTask(t) \/ EndLoop(t) \/ Set(t)
       PROVE  crash' = crash
  BY <1>11 DEF StartStep, RegisterTask, ProcessCallbacksNow, DisableAllAtExitManagers, Start,
     TakeLock, Take, Swap, RunTask, PopTask, EndLoop, Set
<1> QED BY <1>1, <1>2, <1>3, <1>5, <1>6, <1>7, <1>8, <1>9, <1>10, <1>11 DEF Next, StartStep

LEMMA FatesAlways == Spec => [](Stacks /\ Fates)
<1>1. Stacks /\ Fates /\ [Next]_vars => Stacks' /\ Fates'
  BY StacksStep, FatesStep
<1> QED BY <1>1, StacksInit, FatesInit, PTL DEF Spec

\* A manager that is not disabled drops nothing with DCHECKs, and without them
\* only what was registered while its tasks were being run, whatever other calls
\* came between.
THEOREM NothingLost == Spec => []NothingIsDropped
<1>1. Init => NothingIsDropped
  BY DEF Init, NothingIsDropped
<1>2. Stacks /\ Fates /\ NothingIsDropped /\ [Next]_vars => NothingIsDropped'
  BY DroppedStep
<1> QED BY <1>1, <1>2, FatesAlways, PTL DEF Spec

\* The DCHECKs about callbacks stop only programs that register tasks while tasks
\* are being run.
THEOREM OnlyLateFail == Spec => []OnlyLateRegistrationsFail
<1>1. Init => OnlyLateRegistrationsFail
  BY DEF Init, OnlyLateRegistrationsFail
<1>2. Stacks /\ Fates /\ OnlyLateRegistrationsFail /\ [Next]_vars => OnlyLateRegistrationsFail'
  BY FailsStep
<1> QED BY <1>1, <1>2, FatesAlways, PTL DEF Spec

-----------------------------------------------------------------------------
\* Tasks are numbered as they are registered: in every stack, taken or not, the
\* numbers ascend, and what a call has taken is older than what is left or was
\* taken from the same manager by a call inside it.
Ascending(s) == \A i, j \in DOMAIN s : i < j => s[i] < s[j]
Before(r, s) == \A k \in Tasks(r), n \in Tasks(s) : k < n
Known(s, latest) == \A k \in Tasks(s) : k <= latest
InOrder ==
  /\ \A m \in Managers : Ascending(stack[m]) /\ Known(stack[m], registered)
  /\ \A t \in Threads : \A i \in DOMAIN calls[t] :
       /\ Ascending(calls[t][i].tasks) /\ Known(calls[t][i].tasks, registered)
       /\ Before(calls[t][i].tasks, stack[calls[t][i].manager])
       /\ \A j \in DOMAIN calls[t] :
            i < j /\ calls[t][i].manager = calls[t][j].manager
              => Before(calls[t][i].tasks, calls[t][j].tasks)

\* r is what is left of s, or s with the latest number.
PartOf(r, s) == Tasks(r) \subseteq Tasks(s) /\ (Ascending(s) => Ascending(r))
Latest(r, s) == r = Append(s, registered') /\ registered' = registered + 1
StacksFollow ==
  \A m \in Managers : stack'[m] \in {stack[m], <<>>} \/ Latest(stack'[m], stack[m])
FramesFollow ==
  \A t \in Threads : \A i \in DOMAIN calls'[t] :
    \/ calls'[t][i].tasks = <<>>
    \/ /\ i \in DOMAIN calls[t]
       /\ calls'[t][i].manager = calls[t][i].manager
       /\ PartOf(calls'[t][i].tasks, calls[t][i].tasks)

LEMMA PartsOf ==
  /\ \A s \in Seq(Nat) : PartOf(s, s) /\ PartOf(SubSeq(s, 1, Len(s) - 1), s)
  /\ Ascending(<<>>) /\ Tasks(<<>>) = {}
<1>1. Ascending(<<>>) /\ Tasks(<<>>) = {}
  BY DEF Ascending, Tasks
<1>2. ASSUME NEW s \in Seq(Nat) PROVE PartOf(s, s) /\ PartOf(SubSeq(s, 1, Len(s) - 1), s)
  <2> DEFINE r == SubSeq(s, 1, Len(s) - 1)
  <2>1. CASE Len(s) = 0
    <3>1. r = <<>>
      BY <1>2, <2>1
    <3> QED BY <1>1, <3>1 DEF PartOf
  <2>2. CASE Len(s) # 0
    <3>1. r \in Seq(Nat) /\ Len(r) = Len(s) - 1 /\ \A i \in 1 .. Len(s) - 1 : r[i] = s[i]
      BY <1>2, <2>2, WithoutLast
    <3> HIDE DEF r
    <3>2. DOMAIN r \subseteq DOMAIN s /\ \A i \in DOMAIN r : r[i] = s[i]
      BY <1>2, <2>2, <3>1
    <3>3. Tasks(r) \subseteq Tasks(s)
      BY <3>2 DEF Tasks
    <3>4. Ascending(s) => Ascending(r)
      BY <3>2 DEF Ascending
    <3> QED BY <3>3, <3>4 DEF PartOf, r
  <2> QED BY <2>1, <2>2
<1> QED BY <1>1, <1>2

\* A number that is new is greater than all.
LEMMA LatestLast ==
  ASSUME NEW s \in Seq(Nat), NEW r, registered \in Nat, Ascending(s), Known(s, registered), Latest(r, s)
  PROVE  Ascending(r) /\ Tasks(r) = Tasks(s) \cup {registered'}
<1>1. /\ r \in Seq(Nat) /\ Len(r) = Len(s) + 1 /\ r[Len(s) + 1] = registered'
      /\ \A i \in DOMAIN s : r[i] = s[i]
  BY DEF Latest
<1>2. DOMAIN r = DOMAIN s \cup {Len(s) + 1} /\ \A i \in DOMAIN s : i < Len(s) + 1
  BY <1>1
<1>3. Tasks(r) = Tasks(s) \cup {registered'}
  BY <1>1, <1>2 DEF Tasks
<1>4. \A i \in DOMAIN s : s[i] \in Nat /\ s[i] < registered'
  <2>1. registered' = registered + 1
    BY DEF Latest
  <2>2. ASSUME NEW i \in DOMAIN s PROVE s[i] \in Nat /\ s[i] <= registered
    BY <2>2 DEF Known, Tasks
  <2> QED BY <2>1, <2>2
<1>5. Ascending(r)
  BY <1>1, <1>2, <1>4 DEF Ascending
<1> QED BY <1>3, <1>5

LEMMA FollowsInOrder ==
  ASSUME InOrder, TypeOK, TypeOK', StacksFollow, FramesFollow,
         registered' \in {registered, registered + 1}
  PROVE  InOrder'
<1>t. /\ registered \in Nat /\ stack \in [Managers -> Seq(Nat)]
      /\ calls \in [Threads -> Seq(FrameType)]
      /\ calls' \in [Threads -> Seq(FrameType)]
  BY DEF TypeOK
<1>f. \A t \in Threads : \A i \in DOMAIN calls[t] :
        calls[t][i].manager \in Managers /\ calls[t][i].tasks \in Seq(Nat)
  <2>1. ASSUME NEW t \in Threads, NEW i \in DOMAIN calls[t] PROVE calls[t][i] \in FrameType
    BY <1>t
  <2> QED BY <2>1 DEF FrameType
<1>n. \A s \in Seq(Nat) : \A k \in Tasks(s) : k \in Nat
  BY DEF Tasks
<1>1. ASSUME NEW m \in Managers
      PROVE  /\ Ascending(stack'[m])
             /\ \A n \in Tasks(stack'[m]) : n \in Tasks(stack[m]) \/ (n = registered + 1 /\ n = registered')
  <2>1. Ascending(stack[m]) /\ Known(stack[m], registered) /\ stack[m] \in Seq(Nat)
    BY <1>t DEF InOrder
  <2>2. CASE Latest(stack'[m], stack[m])
    <3>1. Ascending(stack'[m]) /\ Tasks(stack'[m]) = Tasks(stack[m]) \cup {registered'}
      BY <1>t, <2>1, <2>2, LatestLast
    <3>2. registered' = registered + 1
      BY <2>2 DEF Latest
    <3> QED BY <3>1, <3>2
  <2>3. CASE stack'[m] \in {stack[m], <<>>}
    BY <2>1, <2>3, PartsOf
  <2> QED BY <2>2, <2>3 DEF StacksFollow
<1>2. ASSUME NEW m \in Managers PROVE Known(stack'[m], registered')
  <2>1. \A n \in Tasks(stack[m]) : n \in Nat /\ n <= registered
    BY <1>n, <1>t DEF InOrder, Known
  <2>2. registered \in Nat
    BY <1>t
  <2>3. \A n \in Tasks(stack[m]) : n <= registered'
    BY <2>1, <2>2
  <2> QED BY <1>1, <2>2, <2>3 DEF Known
<1>3. ASSUME NEW t \in Threads, NEW i \in DOMAIN calls'[t], calls'[t][i].tasks # <<>>
      PROVE  /\ i \in DOMAIN calls[t]
             /\ calls'[t][i].manager = calls[t][i].manager
             /\ Tasks(calls'[t][i].tasks) \subseteq Tasks(calls[t][i].tasks)
             /\ Ascending(calls'[t][i].tasks)
  BY <1>3 DEF InOrder, FramesFollow, PartOf
<1>4. ASSUME NEW t \in Threads, NEW i \in DOMAIN calls'[t]
      PROVE  /\ Ascending(calls'[t][i].tasks) /\ Known(calls'[t][i].tasks, registered')
             /\ Before(calls'[t][i].tasks, stack'[calls'[t][i].manager])
             /\ \A j \in DOMAIN calls'[t] :
                  i < j /\ calls'[t][i].manager = calls'[t][j].manager
                    => Before(calls'[t][i].tasks, calls'[t][j].tasks)
  <2>1. CASE calls'[t][i].tasks = <<>>
    BY <2>1, PartsOf DEF Known, Before
  <2>2. CASE calls'[t][i].tasks # <<>>
    <3> DEFINE r == calls'[t][i].tasks
               s == calls[t][i].tasks
               m == calls[t][i].manager
    <3>1. /\ i \in DOMAIN calls[t] /\ calls'[t][i].manager = m /\ Tasks(r) \subseteq Tasks(s)
          /\ Ascending(r)
      BY <1>3, <2>2
    <3>2. Known(s, registered) /\ Before(s, stack[m]) /\ s \in Seq(Nat) /\ m \in Managers
      BY <1>f, <3>1 DEF InOrder
    <3>3. \A k \in Tasks(r) : k \in Nat /\ k <= registered
      BY <1>n, <3>1, <3>2 DEF Known
    <3>4. Known(r, registered')
      BY <1>t, <3>3 DEF Known
    <3>5. Before(r, stack'[m])
      <4> SUFFICES ASSUME NEW k \in Tasks(r), NEW n \in Tasks(stack'[m]) PROVE k < n
        BY DEF Before
      <4>1. CASE n \in Tasks(stack[m])
        BY <3>1, <3>2, <4>1 DEF Before
      <4>2. CASE n = registered + 1
        <5>1. k \in Nat /\ k <= registered
          BY <3>3
        <5>2. registered \in Nat
          BY <1>t
        <5> QED BY <4>2, <5>1, <5>2
      <4> QED BY <1>1, <3>2, <4>1, <4>2
    <3>6. ASSUME NEW j \in DOMAIN calls'[t], i < j, calls'[t][i].manager = calls'[t][j].manager
          PROVE  Before(r, calls'[t][j].tasks)
      <4>1. CASE calls'[t][j].tasks = <<>>
        BY <4>1, PartsOf DEF Before
      <4>2. CASE calls'[t][j].tasks # <<>>
        <5>1. /\ j \in DOMAIN calls[t] /\ calls[t][j].manager = m
              /\ Tasks(calls'[t][j].tasks) \subseteq Tasks(calls[t][j].tasks)
          BY <1>3, <3>1, <3>6, <4>2
        <5>2. Before(s, calls[t][j].tasks)
          BY <3>1, <3>6, <5>1 DEF InOrder
        <5> QED BY <3>1, <5>1, <5>2 DEF Before
      <4> QED BY <4>1, <4>2
    <3> QED BY <3>1, <3>4, <3>5, <3>6
  <2> QED BY <2>1, <2>2
<1> QED BY <1>1, <1>2, <1>4 DEF InOrder

\* How the frames of one stack follow from those before.
LEMMA FramesFollowFrom ==
  ASSUME TypeOK, calls' \in [Threads -> Seq(FrameType)],
         NEW t \in Threads, NEW n \in 0 .. Len(calls[t]), KeepsBelow(t, n),
         \A i \in n + 1 .. Len(calls'[t]) :
           \/ calls'[t][i].tasks = <<>>
           \/ /\ i \in DOMAIN calls[t]
              /\ calls'[t][i].manager = calls[t][i].manager
              /\ PartOf(calls'[t][i].tasks, calls[t][i].tasks)
  PROVE  FramesFollow
<1>1. calls \in [Threads -> Seq(FrameType)] /\ calls[t] \in Seq(FrameType) /\ calls'[t] \in Seq(FrameType)
  BY DEF TypeOK
<1>2. ASSUME NEW u \in Threads, NEW i \in DOMAIN calls[u]
      PROVE  PartOf(calls[u][i].tasks, calls[u][i].tasks)
  <2>1. calls[u][i] \in FrameType
    BY <1>1
  <2> QED BY <2>1, PartsOf DEF FrameType
<1>3. ASSUME NEW u \in Threads, NEW i \in DOMAIN calls'[u]
      PROVE  \/ calls'[u][i].tasks = <<>>
             \/ /\ i \in DOMAIN calls[u]
                /\ calls'[u][i].manager = calls[u][i].manager
                /\ PartOf(calls'[u][i].tasks, calls[u][i].tasks)
  <2>1. CASE u # t
    BY <1>2, <2>1 DEF KeepsBelow
  <2>2. CASE u = t
    <3>1. i \in 1 .. Len(calls'[t]) /\ n \in Nat /\ n <= Len(calls[t]) /\ Len(calls[t]) \in Nat
      BY <1>1, <2>2
    <3>2. CASE i \in 1 .. n
      <4>1. i \in DOMAIN calls[t] /\ calls'[t][i] = calls[t][i]
        BY <1>1, <3>1, <3>2 DEF KeepsBelow
      <4> QED BY <1>2, <2>2, <4>1
    <3>3. CASE i \in n + 1 .. Len(calls'[t])
      BY <2>2, <3>3
    <3> QED BY <3>1, <3>2, <3>3
  <2> QED BY <2>1, <2>2
<1> QED BY <1>3 DEF FramesFollow

LEMMA MovedFollows ==
  ASSUME TypeOK, calls' \in [Threads -> Seq(FrameType)], NEW t \in Threads, Moved(t),
         PartOf(calls'[t][Len(calls[t])].tasks, Frame(t).tasks)
  PROVE  FramesFollow
<1> DEFINE d == Len(calls[t])
<1>1. calls[t] # <<>> /\ d \in Nat \ {0} /\ d \in DOMAIN calls[t]
  BY FrameTyped DEF Moved
<1>2. d - 1 \in 0 .. Len(calls[t]) /\ KeepsBelow(t, d - 1) /\ Len(calls'[t]) = d
  BY <1>1 DEF Moved
<1>3. \A i \in (d - 1) + 1 .. Len(calls'[t]) : i = d
  BY <1>1, <1>2
<1>4. calls'[t][d].manager = calls[t][d].manager /\ PartOf(calls'[t][d].tasks, calls[t][d].tasks)
  BY DEF Moved, Frame
<1> HIDE DEF d
<1> QED BY <1>1, <1>2, <1>3, <1>4, FramesFollowFrom

\* Of the steps that change neither managers nor scopes all but Swap.
LEMMA ThreadFramesFollow ==
  ASSUME Stacks, NEW t \in Threads, ThreadStep(t), ~Swap(t)
  PROVE  FramesFollow
<1>t. /\ TypeOK /\ calls' \in [Threads -> Seq(FrameType)] /\ calls \in [Threads -> Seq(FrameType)]
      /\ calls[t] \in Seq(FrameType) /\ calls'[t] \in Seq(FrameType) /\ Len(calls[t]) \in Nat
  BY StepShapes DEF Stacks, TypeOK, ThreadStep
<1>p. calls[t] # <<>> => PartOf(Frame(t).tasks, Frame(t).tasks)
  BY <1>t, FrameTyped, PartsOf
<1>1. CASE StartStep(t)
  <2>1. Called(t)
    BY <1>1, <1>t, StepShapes
  <2>2. PICK p : Call(t, p, Top)
    BY <1>1 DEF StartStep, RegisterTask, ProcessCallbacksNow, DisableAllAtExitManagers, Start
  <2>3. calls'[t] = Append(calls[t], [at |-> p, manager |-> Top, tasks |-> <<>>])
    BY <1>t, <2>2 DEF Call
  <2>4. calls'[t][Len(calls[t]) + 1].tasks = <<>>
    BY <1>t, <2>3
  <2>5. KeepsBelow(t, Len(calls[t])) /\ \A i \in Len(calls[t]) + 1 .. Len(calls'[t]) : i = Len(calls[t]) + 1
    BY <1>t, <2>1 DEF Called
  <2>6. Len(calls[t]) \in 0 .. Len(calls[t])
    BY <1>t
  <2> QED BY <1>t, <2>4, <2>5, <2>6, FramesFollowFrom
<1>2. CASE StayStep(t)
  <2>1. calls' = calls
    BY <1>2, <1>t, StepShapes
  <2>2. 0 \in 0 .. Len(calls[t]) /\ KeepsBelow(t, Len(calls[t])) /\ Len(calls[t]) \in 0 .. Len(calls[t])
        /\ \A i \in Len(calls[t]) + 1 .. Len(calls'[t]) : FALSE
    BY <1>t, <2>1 DEF KeepsBelow
  <2> QED BY <1>t, <2>2, FramesFollowFrom
<1>3. CASE MoveStep(t)
  <2>1. Moved(t) /\ calls[t] # <<>> /\ Frame(t).at \notin ScopePlaces
    BY <1>3, <1>t, StepShapes DEF Moved
  <2>2. CASE PopTask(t)
    <3>1. PartOf(SubSeq(Frame(t).tasks, 1, Len(Frame(t).tasks) - 1), Frame(t).tasks)
      BY <1>t, <2>1, FrameTyped, PartsOf
    <3> QED BY <1>t, <2>1, <2>2, <3>1, PopTaskShape, MovedFollows
  <2>3. CASE \E p \in Places \ ScopePlaces : Goto(t, p)
    <3>1. PICK p \in Places \ ScopePlaces : Goto(t, p)
      BY <2>3
    <3>2. calls'[t][Len(calls[t])].tasks = Frame(t).tasks
      BY <1>t, <2>1, <3>1, GotoFrame
    <3> QED BY <1>p, <1>t, <2>1, <3>2, MovedFollows
  <2>4. TakeLock(t) \/ RunTask(t) \/ (EndLoop(t) /\ dcheck_is_on) => \E p \in Places \ ScopePlaces : Goto(t, p)
    BY DEF TakeLock, Take, RunTask, EndLoop, Places, ScopePlaces
  <2> QED BY <1>3, <2>2, <2>3, <2>4 DEF MoveStep
<1>4. CASE ReturnStep(t)
  <2>1. /\ Len(calls[t]) - 1 \in 0 .. Len(calls[t]) /\ KeepsBelow(t, Len(calls[t]) - 1)
        /\ \A i \in (Len(calls[t]) - 1) + 1 .. Len(calls'[t]) : FALSE
    BY <1>4, <1>t, StepShapes, FrameTyped DEF Returned
  <2> QED BY <1>t, <2>1, FramesFollowFrom
<1> QED BY <1>1, <1>2, <1>3, <1>4 DEF ThreadStep

\* The steps of managers.
LEMMA ScopeFramesFollow ==
  ASSUME Stacks, TypeOK', Frozen \/ Opening \/ Closing \/ Closed
  PROVE  FramesFollow
<1> DEFINE d == Len(calls[Main])
<1>t. /\ TypeOK /\ Main \in Threads
      /\ calls' \in [Threads -> Seq(FrameType)] /\ calls \in [Threads -> Seq(FrameType)]
      /\ calls[Main] \in Seq(FrameType) /\ calls'[Main] \in Seq(FrameType) /\ d \in Nat
  BY MainAssumption DEF Stacks, TypeOK
<1>1. CASE Frozen
  <2>1. /\ KeepsBelow(Main, d) /\ d \in 0 .. Len(calls[Main])
        /\ \A i \in d + 1 .. Len(calls'[Main]) : FALSE
    BY <1>1, <1>t DEF Frozen, KeepsBelow
  <2> QED BY <1>t, <2>1, FramesFollowFrom
<1>2. CASE Opening
  <2>1. PICK m \in Managers : Call(Main, "alive", m)
    BY <1>2 DEF Opening
  <2> DEFINE g == [at |-> "alive", manager |-> m, tasks |-> <<>>]
  <2>2. calls'[Main] = Append(calls[Main], g) /\ \A u \in Threads \ {Main} : calls'[u] = calls[u]
    BY <1>t, <2>1 DEF Call
  <2>3. g.tasks = <<>>
    OBVIOUS
  <2> HIDE DEF g
  <2>4. /\ KeepsBelow(Main, d) /\ d \in 0 .. Len(calls[Main])
        /\ \A i \in d + 1 .. Len(calls'[Main]) : calls'[Main][i] = g
    BY <1>t, <2>2 DEF KeepsBelow
  <2> QED BY <1>t, <2>3, <2>4, FramesFollowFrom
<1>3. CASE Closing
  <2> DEFINE g == [at |-> "process", manager |-> Top, tasks |-> <<>>]
             b == [Frame(Main) EXCEPT !.at = "dtor"]
             s == [calls[Main] EXCEPT ![d] = b]
  <2>1. calls[Main] # <<>> /\ d \in Nat \ {0} /\ Frame(Main) \in FrameType /\ Frame(Main) = calls[Main][d]
    BY <1>3, <1>t, FrameTyped DEF Closing, Frame
  <2>2. b.tasks = Frame(Main).tasks /\ b.manager = Frame(Main).manager /\ Frame(Main).tasks \in Seq(Nat)
    BY <2>1 DEF FrameType
  <2>3. calls'[Main] = Append(s, g) /\ \A u \in Threads \ {Main} : calls'[u] = calls[u]
    BY <1>3, <1>t, <2>1 DEF Closing, DestroyCalls
  <2>4. g.tasks = <<>>
    OBVIOUS
  <2>5. Len(s) = d /\ s[d] = b /\ \A i \in 1 .. d - 1 : s[i] = calls[Main][i]
    <3> HIDE DEF b
    <3>1. DOMAIN s = DOMAIN calls[Main] /\ Len(s) = d
      BY <1>t, <2>1
    <3> QED BY <1>t, <2>1, <3>1
  <2>6. Len(calls'[Main]) = d + 1 /\ calls'[Main][d] = b /\ calls'[Main][d + 1] = g
    <3>1. s \in Seq(FrameType)
      <4>1. b \in FrameType
        BY <2>1 DEF FrameType, Places
      <4> QED BY <1>t, <2>1, <4>1
    <3> HIDE DEF s, g, b, d
    <3> QED BY <2>1, <2>3, <2>5, <3>1
  <2>7. KeepsBelow(Main, d - 1) /\ d - 1 \in 0 .. Len(calls[Main]) /\ d \in DOMAIN calls[Main]
    BY <1>3, <1>t, <2>1, DestroyKeeps DEF Closing
  <2>8. \A i \in (d - 1) + 1 .. Len(calls'[Main]) : i = d \/ i = d + 1
    BY <2>1, <2>6
  <2>9. PartOf(b.tasks, calls[Main][d].tasks) /\ b.manager = calls[Main][d].manager
    BY <2>1, <2>2, PartsOf
  <2> HIDE DEF g, b, s, d
  <2> QED BY <1>t, <2>4, <2>6, <2>7, <2>8, <2>9, FramesFollowFrom DEF d
<1>4. CASE Closed
  <2>1. calls[Main] # <<>> /\ Return(Main)
    BY <1>4 DEF Closed, Pop
  <2>2. /\ KeepsBelow(Main, d - 1) /\ d - 1 \in 0 .. Len(calls[Main])
        /\ \A i \in (d - 1) + 1 .. Len(calls'[Main]) : FALSE
    BY <1>t, <2>1, ReturnFrame, FrameTyped
  <2> QED BY <1>t, <2>2, FramesFollowFrom
<1> QED BY <1>1, <1>2, <1>3, <1>4

LEMMA StacksFollowStep ==
  ASSUME Stacks, [Next]_vars
  PROVE  StacksFollow /\ registered' \in {registered, registered + 1}
<1>t. stack \in [Managers -> Seq(Nat)]
  BY DEF Stacks, TypeOK
<1>1. ASSUME NEW t \in Threads, Push(t)
      PROVE  StacksFollow /\ registered' \in {registered, registered + 1}
  <2>1. CASE Fail("processing")
    BY <2>1 DEF Fail, StacksFollow
  <2>2. CASE registered' = registered + 1 /\ stack' = [stack EXCEPT ![Top] = Append(@, registered')]
    BY <1>t, <2>2 DEF StacksFollow, Latest
  <2> QED BY <1>1, <2>1, <2>2 DEF Push, Pushed
<1>2. ASSUME UNCHANGED registered, \A m \in Managers : stack'[m] \in {stack[m], <<>>}
      PROVE  StacksFollow /\ registered' \in {registered, registered + 1}
  BY <1>2 DEF StacksFollow
<1>3. CASE UNCHANGED vars
  BY <1>2, <1>3 DEF vars
<1>4. ASSUME NEW m \in Managers, NEW shadow \in BOOLEAN, Construct(m, shadow)
      PROVE  UNCHANGED registered /\ \A k \in Managers : stack'[k] \in {stack[k], <<>>}
  BY <1>4, <1>t DEF Construct, Fail
<1>5. CASE Destroy \/ EndDestroy
  <2>1. UNCHANGED registered /\ \A k \in Managers : stack'[k] \in {stack[k], <<>>}
    BY <1>5, <1>t DEF Destroy, EndDestroy, Pop, Fail
  <2> QED BY <1>2, <2>1
<1>6. ASSUME NEW t \in Threads,
             StartStep(t) \/ NoManager(t) \/ TakeLock(t) \/ Swap(t) \/ RunTask(t) \/ PopTask(t)
               \/ EndLoop(t) \/ Clear(t) \/ Set(t)
      PROVE  UNCHANGED registered /\ \A k \in Managers : stack'[k] \in {stack[k], <<>>}
  BY <1>6, <1>t DEF StartStep, RegisterTask, ProcessCallbacksNow, DisableAllAtExitManagers, Start,
     NoManager, Fail, TakeLock, Take, Swap, Left, RunTask, PopTask, EndLoop, Clear, Set
<1> QED BY <1>1, <1>2, <1>3, <1>4, <1>5, <1>6 DEF Next, StartStep

\* The tasks a call takes are newer than those taken from the same manager by the
\* calls around it, which are older than all it left.
LEMMA SwapInOrder ==
  ASSUME Stacks, InOrder, NEW t \in Threads, Swap(t)
  PROVE  InOrder'
<1> DEFINE d == Len(calls[t])
<1>t. /\ TypeOK /\ calls \in [Threads -> Seq(FrameType)] /\ stack \in [Managers -> Seq(Nat)]
      /\ calls' \in [Threads -> Seq(FrameType)] /\ registered' = registered
  BY SwapShape DEF Stacks, TypeOK, Swap
<1>1. /\ calls[t] # <<>> /\ Frame(t).manager = Top /\ Top \in Managers
      /\ d \in Nat \ {0} /\ d \in DOMAIN calls[t]
  BY <1>t, SwapShape, FrameOnTop, FrameTyped
<1>2. stack' = [stack EXCEPT ![Top] = <<>>]
  BY DEF Swap, Left
<1>3. ASSUME NEW m \in Managers PROVE stack'[m] \in {stack[m], <<>>}
  BY <1>t, <1>2
<1>4. /\ Len(calls'[t]) = d /\ KeepsBelow(t, d - 1)
      /\ calls'[t][d].manager = Top /\ calls'[t][d].tasks = stack[Top]
  BY <1>t, <1>1, SwapShape DEF Moved
<1>5. ASSUME NEW m \in Managers PROVE Ascending(stack'[m]) /\ Known(stack'[m], registered')
  <2>1. Ascending(stack[m]) /\ Known(stack[m], registered)
    BY DEF InOrder
  <2> QED BY <1>t, <1>3, <2>1, PartsOf DEF Known
<1>6. ASSUME NEW u \in Threads, NEW i \in DOMAIN calls'[u], ~(u = t /\ i = d)
      PROVE  i \in DOMAIN calls[u] /\ calls'[u][i] = calls[u][i] /\ (u = t => i < d)
  <2>1. CASE u # t
    BY <1>4, <1>6, <2>1 DEF KeepsBelow
  <2>2. CASE u = t
    <3>1. i \in 1 .. d
      BY <1>t, <1>4, <2>2
    <3>2. i \in 1 .. d - 1 /\ i < d
      BY <1>1, <1>6, <2>2, <3>1
    <3> QED BY <1>1, <1>4, <1>t, <2>2, <3>2 DEF KeepsBelow
  <2> QED BY <2>1, <2>2
<1>7. ASSUME NEW u \in Threads, NEW i \in DOMAIN calls'[u]
      PROVE  /\ Ascending(calls'[u][i].tasks) /\ Known(calls'[u][i].tasks, registered')
             /\ Before(calls'[u][i].tasks, stack'[calls'[u][i].manager])
             /\ \A j \in DOMAIN calls'[u] :
                  i < j /\ calls'[u][i].manager = calls'[u][j].manager
                    => Before(calls'[u][i].tasks, calls'[u][j].tasks)
  <2>1. CASE u = t /\ i = d
    <3>1. Ascending(stack[Top]) /\ Known(stack[Top], registered)
      BY <1>1 DEF InOrder
    <3>2. Before(stack[Top], stack'[Top])
      BY <1>1, <1>2, <1>t, PartsOf DEF Before
    <3>3. \A j \in DOMAIN calls'[u] : ~(i < j)
      <4>1. DOMAIN calls'[t] = 1 .. d
        BY <1>t, <1>4
      <4> QED BY <1>1, <2>1, <4>1
    <3> QED BY <1>4, <1>t, <2>1, <3>1, <3>2, <3>3
  <2>2. CASE ~(u = t /\ i = d)
    <3> DEFINE m == calls[u][i].manager
               s == calls[u][i].tasks
    <3>1. i \in DOMAIN calls[u] /\ calls'[u][i] = calls[u][i] /\ (u = t => i < d)
      BY <1>6, <2>2
    <3>2. Ascending(s) /\ Known(s, registered) /\ Before(s, stack[m])
      BY <3>1 DEF InOrder
    <3>3. m \in Managers
      <4>1. calls[u][i] \in FrameType
        BY <1>t, <3>1
      <4> QED BY <4>1 DEF FrameType
    <3>4. Before(s, stack'[m])
      BY <1>3, <3>2, <3>3, PartsOf DEF Before
    <3>5. ASSUME NEW j \in DOMAIN calls'[u], i < j, m = calls'[u][j].manager
          PROVE  Before(s, calls'[u][j].tasks)
      <4>1. CASE u = t /\ j = d
        BY <1>4, <3>2, <3>5, <4>1
      <4>2. CASE ~(u = t /\ j = d)
        <5>1. j \in DOMAIN calls[u] /\ calls'[u][j] = calls[u][j]
          BY <1>6, <4>2
        <5> QED BY <3>1, <3>5, <5>1 DEF InOrder
      <4> QED BY <4>1, <4>2
    <3> QED BY <1>t, <3>1, <3>2, <3>4, <3>5
  <2> QED BY <2>1, <2>2
<1> QED BY <1>5, <1>7 DEF InOrder

LEMMA InOrderStep ==
  ASSUME Stacks, InOrder, [Next]_vars
  PROVE  InOrder'
<1>1. TypeOK /\ TypeOK'
  BY StacksStep DEF Stacks
<1>2. StacksFollow /\ registered' \in {registered, registered + 1}
  BY StacksFollowStep
<1>3. CASE Frozen \/ Opening \/ Closing \/ Closed
  BY <1>1, <1>2, <1>3, ScopeFramesFollow, FollowsInOrder
<1>4. ASSUME NEW t \in Threads, ThreadStep(t) PROVE InOrder'
  <2>1. CASE Swap(t)
    BY <2>1, SwapInOrder
  <2>2. CASE ~Swap(t)
    BY <1>1, <1>2, <1>4, <2>2, ThreadFramesFollow, FollowsInOrder
  <2> QED BY <2>1, <2>2
<1> QED BY <1>3, <1>4, StepKinds

LEMMA InOrderInit == Init => InOrder
<1> SUFFICES ASSUME Init PROVE InOrder
  OBVIOUS
<1>1. /\ \A m \in Managers : stack[m] = <<>>
      /\ \A t \in Threads : DOMAIN calls[t] = {}
  BY DEF Init
<1> QED BY <1>1, PartsOf DEF InOrder, Known

\* Only a task that returns has run.
LEMMA FinishedStep ==
  ASSUME Stacks, InOrder, [Next]_vars, NEW k \in finished' \ finished
  PROVE  \E t \in Threads :
           /\ At(t, "task")
           /\ \A i \in Running(t, Frame(t).manager) : \A n \in Tasks(calls[t][i].tasks) : n <= k
<1>1. PICK t \in Threads : PopTask(t)
  <2>1. CASE UNCHANGED vars
    BY <2>1 DEF vars
  <2>2. ASSUME NEW m \in Managers, NEW shadow \in BOOLEAN, Construct(m, shadow) PROVE FALSE
    BY <2>2 DEF Construct, Fail
  <2>3. CASE Destroy \/ EndDestroy
    BY <2>3 DEF Destroy, EndDestroy, Pop, Fail
  <2>4. ASSUME NEW t \in Threads,
               StartStep(t) \/ NoManager(t) \/ TakeLock(t) \/ Push(t) \/ Swap(t) \/ RunTask(t)
                 \/ EndLoop(t) \/ Clear(t) \/ Set(t)
        PROVE  FALSE
    BY <2>4 DEF StartStep, RegisterTask, ProcessCallbacksNow, DisableAllAtExitManagers, Start,
       NoManager, Fail, TakeLock, Take, Push, Swap, RunTask, EndLoop, Clear, Set
  <2> QED BY <2>1, <2>2, <2>3, <2>4 DEF Next, StartStep
<1> DEFINE d == Len(calls[t])
           s == Frame(t).tasks
           m == Frame(t).manager
<1>2. /\ calls[t] \in Seq(FrameType) /\ calls[t] # <<>> /\ Frame(t).at = "task"
      /\ d \in Nat \ {0} /\ d \in DOMAIN calls[t] /\ Frame(t) = calls[t][d] /\ s \in Seq(Nat)
  BY <1>1, AtFrame, FrameTyped DEF Stacks, PopTask, Frame
<1>3. s # <<>>
  BY <1>2 DEF Stacks, TaskFrames
<1>4. k = s[Len(s)]
  BY <1>1 DEF PopTask
<1>5. Len(s) \in DOMAIN s /\ k \in Tasks(s)
  BY <1>2, <1>3, <1>4 DEF Tasks
<1>6. ASSUME NEW i \in Running(t, m), NEW n \in Tasks(calls[t][i].tasks) PROVE n <= k
  <2>1. i \in DOMAIN calls[t] /\ calls[t][i].manager = m
    BY DEF Running
  <2>2. n \in Nat /\ k \in Nat
    <3>1. calls[t][i] \in FrameType
      BY <1>2, <2>1
    <3>2. calls[t][i].tasks \in Seq(Nat)
      BY <3>1 DEF FrameType
    <3>3. \A q \in Seq(Nat) : Tasks(q) \subseteq Nat
      BY DEF Tasks
    <3> QED BY <1>2, <1>5, <3>2, <3>3
  <2>3. CASE i = d
    <3>1. PICK j \in DOMAIN s : n = s[j]
      BY <1>2, <2>3 DEF Tasks
    <3>2. Ascending(s)
      BY <1>2 DEF InOrder
    <3>3. j = Len(s) \/ s[j] < s[Len(s)]
      BY <1>2, <1>5, <3>2 DEF Ascending
    <3> QED BY <1>4, <2>2, <3>1, <3>3
  <2>4. CASE i # d
    <3>1. i < d
      BY <1>2, <2>1, <2>4
    <3>2. Before(calls[t][i].tasks, s)
      BY <1>2, <2>1, <3>1 DEF InOrder
    <3>3. n < k
      BY <1>5, <3>2 DEF Before
    <3> QED BY <2>2, <3>3
  <2> QED BY <2>3, <2>4
<1>7. At(t, "task")
  BY <1>1 DEF PopTask
<1> QED BY <1>6, <1>7

\* Tasks run in LIFO order: whatever calls nest inside a task, and whatever other
\* threads register or take meanwhile, the task that has run was the newest of
\* those its thread had taken from that manager.
THEOREM NewestRuns == Spec => NewestFirst
<1> DEFINE A == \A k \in finished' \ finished :
                  \E t \in Threads :
                    /\ At(t, "task")
                    /\ \A i \in Running(t, Frame(t).manager) : \A n \in Tasks(calls[t][i].tasks) : n <= k
<1>1. Stacks /\ InOrder /\ [Next]_vars => A
  BY FinishedStep
<1>2. Stacks /\ InOrder /\ [Next]_vars => InOrder'
  BY InOrderStep
<1>3. NewestFirst <=> [][A]_vars
  BY DEF NewestFirst
<1> QED BY <1>1, <1>2, <1>3, InOrderInit, FatesAlways, PTL DEF Spec
=============================================================================
