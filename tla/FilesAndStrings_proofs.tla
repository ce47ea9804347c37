------------------------ MODULE FilesAndStrings_proofs ------------------------
(***************************************************************************)
(* Two components that own what they write to: a descriptor, and a buffer. *)
(*                                                                         *)
(* ScopedFD, for any threads, ScopedFDs, descriptors and stray calls of    *)
(* close(): a descriptor that a ScopedFD holds has one owner, and the      *)
(* table of owners stops no program that closes only what is its own.  The *)
(* argument is a ledger.  Each call in progress has books: what its        *)
(* remaining steps will close, release, enter and set.  The accounts are   *)
(* in order when there is an owner for every descriptor such that nothing  *)
(* belongs to two places at once and the table has what the books say.     *)
(* First come the lists of steps and their books, then what beginning a    *)
(* call and taking a step does to the ledger, and last the invariant.      *)
(*                                                                         *)
(* StringReplace, for any strings and lengths: the in-place replacement    *)
(* ends with the string that the definition by recursion gives.  Each loop *)
(* keeps one equation: what is written, then the replacement, then what    *)
(* the recursion makes of the rest of the string at first, is the result.  *)
(* The rest is still in the buffer, and where the string grows, the room   *)
(* between the two is what the matches that are left will need.  First     *)
(* come parts of strings and the search in them, then the recursive        *)
(* definitions, then what a round does, and last the invariant.            *)
(***************************************************************************)
EXTENDS ScopedFD, StringReplace, SequenceTheorems, WellFoundedInduction, TLAPS

-----------------------------------------------------------------------------
(* The lists of steps                                                      *)

Names == {"acquire", "release", "check", "libc_close", "set", "check_stray", "stray_close"}
StrayNames == {"check_stray", "stray_close"}
KeepNames == {"libc_close", "set"}
AnyFd == Fds \cup {Invalid}
AnySlot == FdSlots \cup {Invalid}
StepType == [name : Names, slot : AnySlot, fd : AnyFd]

\* What is left of a call: the descriptors it is to close or to put into a
\* ScopedFD, those it is to take from the table and to enter there, the ScopedFDs
\* that get another descriptor, and all that it uses.
At(q, names) == {i \in DOMAIN q : q[i].name \in names}
Keeps(q) == {q[i].fd : i \in At(q, KeepNames)} \ {Invalid}
Releases(q) == {q[i].fd : i \in At(q, {"release"})}
Acquires(q) == {<<q[i].slot, q[i].fd>> : i \in At(q, {"acquire"})}
Sets(q) == {q[i].slot : i \in At(q, {"set"})}
Uses(q) == {q[i].slot : i \in DOMAIN q} \ {Invalid}

\* The order of the steps of a call.
Typed(q) ==
  \A i \in DOMAIN q :
    /\ q[i] \in StepType
    /\ q[i].name # "set" => q[i].fd \in Fds
    /\ q[i].name \in {"set", "acquire"} => q[i].slot \in FdSlots
Once(q) ==
  \A i, j \in DOMAIN q :
    /\ q[i].name \in KeepNames /\ q[j].name \in KeepNames /\ q[i].fd = q[j].fd /\ q[i].fd # Invalid
         => i = j
    /\ q[i].name \in {"release", "acquire"} /\ q[j].name = q[i].name /\ q[i].fd = q[j].fd => i = j
    /\ q[i].name = "set" /\ q[j].name = "set" => i = j
Ordered(q) ==
  \A i, j \in DOMAIN q :
    q[i].fd = q[j].fd =>
      /\ q[i].name = "release" /\ q[j].name \in KeepNames \cup {"check"} => i < j
      /\ q[i].name = "acquire" /\ q[j].name \in KeepNames => j < i
Paired(q) ==
  \A i \in DOMAIN q :
    /\ q[i].name = "check" =>
         i + 1 \in DOMAIN q /\ q[i + 1].name = "libc_close" /\ q[i + 1].fd = q[i].fd
    /\ q[i].name = "set" /\ q[i].fd # Invalid =>
         /\ i + 1 \in DOMAIN q /\ q[i + 1].name = "acquire"
         /\ q[i + 1].fd = q[i].fd /\ q[i + 1].slot = q[i].slot
    /\ q[i].name = "acquire" =>
         \/ i = 1
         \/ q[i - 1].name = "set" /\ q[i - 1].fd = q[i].fd /\ q[i - 1].slot = q[i].slot
Shape(q) == q \in Seq(StepType) /\ Typed(q) /\ Once(q) /\ Ordered(q) /\ Paired(q)

\* The second half of a stray close() comes behind the first.
Strayless(q) ==
  \A i \in DOMAIN q : q[i].name = "stray_close" => i > 1 /\ q[i - 1].name = "check_stray"

\* The elements of the rest of a list are those of the list but for the first.
LEMMA TailElements ==
  ASSUME NEW S, NEW q \in Seq(S), q # <<>>
  PROVE  /\ Tail(q) \in Seq(S)
         /\ \A i \in DOMAIN Tail(q) : i + 1 \in DOMAIN q /\ Tail(q)[i] = q[i + 1]
         /\ \A i \in DOMAIN q : i # 1 => i - 1 \in DOMAIN Tail(q) /\ Tail(q)[i - 1] = q[i]
         /\ 1 \in DOMAIN q /\ Head(q) = q[1]
         /\ DOMAIN q \subseteq Nat /\ DOMAIN Tail(q) \subseteq Nat
         /\ \A i \in DOMAIN q, j \in Nat : 1 <= j /\ j <= i => j \in DOMAIN q
<1>1. Len(q) \in Nat /\ DOMAIN q = 1..Len(q) /\ Len(q) # 0
  OBVIOUS
<1>2. Tail(q) \in Seq(S) /\ DOMAIN Tail(q) = 1..(Len(q) - 1)
  BY <1>1
<1>3. \A i \in DOMAIN Tail(q) : Tail(q)[i] = q[i + 1]
  BY <1>1, <1>2
<1> QED BY <1>1, <1>2, <1>3

\* A step is taken: what is left has the right order.
LEMMA TailShape ==
  ASSUME NEW q, Shape(q), q # <<>>
  PROVE  Shape(Tail(q))
<1>1. PICK r : r = Tail(q)
  OBVIOUS
<1>2. q \in Seq(StepType) /\ Typed(q) /\ Once(q) /\ Ordered(q) /\ Paired(q)
  BY DEF Shape
<1>3. r \in Seq(StepType)
  BY <1>1, <1>2, TailElements
<1>4. \A i \in DOMAIN r : i + 1 \in DOMAIN q /\ r[i] = q[i + 1] /\ i \in Nat
  BY <1>1, <1>2, TailElements
<1>5. \A i \in DOMAIN q : i # 1 => i - 1 \in DOMAIN r /\ r[i - 1] = q[i]
  BY <1>1, <1>2, TailElements
<1>6. Typed(r)
  BY <1>2, <1>4 DEF Typed
<1>7. Once(r)
  <2> SUFFICES ASSUME NEW i \in DOMAIN r, NEW j \in DOMAIN r
               PROVE  /\ /\ r[i].name \in KeepNames /\ r[j].name \in KeepNames
                         /\ r[i].fd = r[j].fd /\ r[i].fd # Invalid
                         => i = j
                      /\ /\ r[i].name \in {"release", "acquire"} /\ r[j].name = r[i].name
                         /\ r[i].fd = r[j].fd
                         => i = j
                      /\ r[i].name = "set" /\ r[j].name = "set" => i = j
    BY DEF Once
  <2>1. i + 1 = j + 1 => i = j
    BY <1>4
  <2> QED BY <1>2, <1>4, <2>1 DEF Once
<1>8. Ordered(r)
  <2> SUFFICES ASSUME NEW i \in DOMAIN r, NEW j \in DOMAIN r, r[i].fd = r[j].fd
               PROVE  /\ r[i].name = "release" /\ r[j].name \in KeepNames \cup {"check"} => i < j
                      /\ r[i].name = "acquire" /\ r[j].name \in KeepNames => j < i
    BY DEF Ordered
  <2>1. (i + 1 < j + 1 => i < j) /\ (j + 1 < i + 1 => j < i)
    BY <1>4
  <2> QED BY <1>2, <1>4, <2>1 DEF Ordered
<1>9. Paired(r)
  <2> SUFFICES ASSUME NEW i \in DOMAIN r
               PROVE  /\ r[i].name = "check" =>
                           /\ i + 1 \in DOMAIN r /\ r[i + 1].name = "libc_close"
                           /\ r[i + 1].fd = r[i].fd
                      /\ r[i].name = "set" /\ r[i].fd # Invalid =>
                           /\ i + 1 \in DOMAIN r /\ r[i + 1].name = "acquire"
                           /\ r[i + 1].fd = r[i].fd /\ r[i + 1].slot = r[i].slot
                      /\ r[i].name = "acquire" =>
                           \/ i = 1
                           \/ /\ r[i - 1].name = "set" /\ r[i - 1].fd = r[i].fd
                              /\ r[i - 1].slot = r[i].slot
    BY DEF Paired
  <2>1. i + 1 \in DOMAIN q /\ r[i] = q[i + 1] /\ i \in Nat
    BY <1>4
  <2>2. i + 2 \in DOMAIN q => i + 1 \in DOMAIN r /\ r[i + 1] = q[i + 2]
    BY <1>5, <2>1
  <2>3. i # 1 => i - 1 \in DOMAIN r /\ r[i - 1] = q[i]
    BY <1>1, <1>2, <1>5, <2>1, TailElements
  <2>4. /\ q[i + 1].name = "check" =>
             i + 2 \in DOMAIN q /\ q[i + 2].name = "libc_close" /\ q[i + 2].fd = q[i + 1].fd
        /\ q[i + 1].name = "set" /\ q[i + 1].fd # Invalid =>
             /\ i + 2 \in DOMAIN q /\ q[i + 2].name = "acquire"
             /\ q[i + 2].fd = q[i + 1].fd /\ q[i + 2].slot = q[i + 1].slot
        /\ q[i + 1].name = "acquire" =>
             q[i].name = "set" /\ q[i].fd = q[i + 1].fd /\ q[i].slot = q[i + 1].slot
    <3>1. (i + 1) + 1 = i + 2 /\ (i + 1) - 1 = i /\ i + 1 # 1
      BY <1>1, <1>2, <2>1, TailElements
    <3> QED BY <1>2, <2>1, <3>1 DEF Paired
  <2> QED BY <2>1, <2>2, <2>3, <2>4
<1> QED BY <1>1, <1>3, <1>6, <1>7, <1>8, <1>9 DEF Shape

\* What a step was, and what is left.
LEMMA TailSets ==
  ASSUME NEW q, Shape(q), q # <<>>, NEW h, h = Head(q)
  PROVE  /\ h \in StepType
         /\ h.name # "set" => h.fd \in Fds
         /\ h.name \in {"set", "acquire"} => h.slot \in FdSlots
         /\ Keeps(Tail(q)) = IF h.name \in KeepNames THEN Keeps(q) \ {h.fd} ELSE Keeps(q)
         /\ Releases(Tail(q)) = IF h.name = "release" THEN Releases(q) \ {h.fd} ELSE Releases(q)
         /\ Acquires(Tail(q)) =
              IF h.name = "acquire" THEN Acquires(q) \ {<<h.slot, h.fd>>} ELSE Acquires(q)
         /\ Sets(Tail(q)) = IF h.name = "set" THEN Sets(q) \ {h.slot} ELSE Sets(q)
         /\ Uses(Tail(q)) \subseteq Uses(q)
<1>1. PICK r : r = Tail(q)
  OBVIOUS
<1>2. q \in Seq(StepType) /\ Typed(q) /\ Once(q)
  BY DEF Shape
<1>3. \A i \in DOMAIN r : i + 1 \in DOMAIN q /\ r[i] = q[i + 1] /\ i + 1 # 1
  <2>1. \A i \in DOMAIN r : i + 1 \in DOMAIN q /\ r[i] = q[i + 1] /\ i \in 1..Len(r)
    BY <1>1, <1>2, TailElements
  <2> QED BY <2>1
<1>4. \A i \in DOMAIN q : i # 1 => \E j \in DOMAIN r : r[j] = q[i]
  BY <1>1, <1>2, TailElements
<1>5. 1 \in DOMAIN q /\ h = q[1]
  BY <1>2, TailElements
<1>6. /\ h \in StepType
      /\ h.name # "set" => h.fd \in Fds
      /\ h.name \in {"set", "acquire"} => h.slot \in FdSlots
  BY <1>2, <1>5 DEF Typed
<1>7. Keeps(r) = IF h.name \in KeepNames THEN Keeps(q) \ {h.fd} ELSE Keeps(q)
  BY <1>2, <1>3, <1>4, <1>5 DEF Keeps, At, Once
<1>8. Releases(r) = IF h.name = "release" THEN Releases(q) \ {h.fd} ELSE Releases(q)
  BY <1>2, <1>3, <1>4, <1>5 DEF Releases, At, Once
<1>9. Acquires(r) = IF h.name = "acquire" THEN Acquires(q) \ {<<h.slot, h.fd>>} ELSE Acquires(q)
  BY <1>2, <1>3, <1>4, <1>5 DEF Acquires, At, Once
<1>10. Sets(r) = IF h.name = "set" THEN Sets(q) \ {h.slot} ELSE Sets(q)
  BY <1>2, <1>3, <1>4, <1>5 DEF Sets, At, Once
<1>11. Uses(r) \subseteq Uses(q)
  BY <1>3 DEF Uses
<1> QED BY <1>1, <1>2, <1>5, <1>6, <1>7, <1>8, <1>9, <1>10, <1>11 DEF Typed

\* Everything in a list is of its type.
LEMMA SetTypes ==
  ASSUME NEW q, Shape(q)
  PROVE  /\ Keeps(q) \subseteq Fds /\ Releases(q) \subseteq Fds
         /\ Acquires(q) \subseteq FdSlots \X Fds
         /\ Sets(q) \subseteq FdSlots /\ Uses(q) \subseteq FdSlots
         /\ Sets(q) \subseteq Uses(q)
         /\ \A a \in Acquires(q) : a[1] \in Uses(q)
<1>1. \A i \in DOMAIN q :
        /\ q[i].fd \in Fds \cup {Invalid} /\ q[i].slot \in FdSlots \cup {Invalid}
        /\ q[i].name # "set" => q[i].fd \in Fds
        /\ q[i].name \in {"set", "acquire"} => q[i].slot \in FdSlots
  BY DEF Shape, Typed, StepType, AnyFd, AnySlot
<1>2. Keeps(q) \subseteq Fds /\ Releases(q) \subseteq Fds
  BY <1>1 DEF Keeps, Releases, At, KeepNames
<1>3. Acquires(q) \subseteq FdSlots \X Fds
  BY <1>1 DEF Acquires, At
<1>4. Uses(q) \subseteq FdSlots
  BY <1>1 DEF Uses
<1>5. Sets(q) \subseteq Uses(q)
  BY <1>1, NamesAssumption DEF Sets, Uses, At
<1>6. \A a \in Acquires(q) : a[1] \in Uses(q)
  BY <1>1, NamesAssumption DEF Acquires, Uses, At
<1> QED BY <1>2, <1>3, <1>4, <1>5, <1>6

\* What the next step says of the rest.
LEMMA HeadFacts ==
  ASSUME NEW q, Shape(q), q # <<>>, NEW h, h = Head(q)
  PROVE  /\ h.name = "release" => h.fd \in Releases(q)
         /\ h.name = "check" => h.fd \in Keeps(q) /\ h.fd \notin Releases(q)
         /\ h.name \in KeepNames /\ h.fd # Invalid => h.fd \in Keeps(q) /\ h.fd \notin Releases(q)
         /\ h.name = "libc_close" => \A a \in Acquires(q) : a[2] # h.fd
         /\ h.name = "set" => h.slot \in Sets(q)
         /\ h.name = "set" /\ h.fd # Invalid =>
              <<h.slot, h.fd>> \in Acquires(q) /\ \A a \in Acquires(q) : a[2] = h.fd => a[1] = h.slot
         /\ h.name = "acquire" =>
              /\ <<h.slot, h.fd>> \in Acquires(q) /\ h.fd \notin Keeps(q)
              /\ \A a \in Acquires(q) : a[2] = h.fd => a[1] = h.slot
         /\ h.name \in {"set", "acquire"} => h.slot \in Uses(q)
<1>1. q \in Seq(StepType) /\ Typed(q) /\ Once(q) /\ Ordered(q) /\ Paired(q)
  BY DEF Shape
<1>2. 1 \in DOMAIN q /\ h = q[1] /\ DOMAIN q \subseteq Nat
  BY <1>1, TailElements
<1>3. \A i \in DOMAIN q : 1 <= i
  <2>1. DOMAIN q = 1..Len(q)
    BY <1>1
  <2> QED BY <2>1
<1>4. h.name = "release" => h.fd \in Releases(q)
  BY <1>2 DEF Releases, At
<1>5. h.name = "check" => h.fd \in Keeps(q)
  <2> SUFFICES ASSUME h.name = "check" PROVE h.fd \in Keeps(q)
    OBVIOUS
  <2>1. 1 + 1 \in DOMAIN q /\ q[1 + 1].name = "libc_close" /\ q[1 + 1].fd = h.fd
    BY <1>1, <1>2 DEF Paired
  <2>2. h.fd # Invalid
    BY <1>1, <1>2 DEF Typed, Fds, Invalid
  <2> QED BY <2>1, <2>2 DEF Keeps, At, KeepNames
<1>6. h.name \in KeepNames \cup {"check"} => h.fd \notin Releases(q)
  BY <1>1, <1>2, <1>3 DEF Releases, At, Ordered
<1>7. h.name \in KeepNames /\ h.fd # Invalid => h.fd \in Keeps(q)
  BY <1>2 DEF Keeps, At
<1>8. ASSUME h.name = "libc_close", NEW a \in Acquires(q) PROVE a[2] # h.fd
  <2>1. PICK i \in DOMAIN q : q[i].name = "acquire" /\ a = <<q[i].slot, q[i].fd>>
    BY DEF Acquires, At
  <2>2. SUFFICES ASSUME q[i].fd = h.fd PROVE FALSE
    BY <2>1
  <2>3. i # 1
    BY <1>2, <1>8, <2>1
  <2>4. i - 1 \in DOMAIN q /\ q[i - 1].name = "set" /\ q[i - 1].fd = h.fd
    <3>1. i - 1 \in DOMAIN q
      <4>1. DOMAIN q = 1..Len(q)
        BY <1>1
      <4> QED BY <2>3, <4>1
    <3> QED BY <1>1, <2>1, <2>2, <2>3, <3>1 DEF Paired
  <2>5. h.fd # Invalid
    BY <1>1, <1>2, <1>8 DEF Typed, Fds, Invalid
  <2>6. i - 1 = 1
    BY <1>1, <1>2, <1>8, <2>4, <2>5 DEF Once, KeepNames
  <2> QED BY <1>2, <1>8, <2>4, <2>6
<1>9. h.name = "set" => h.slot \in Sets(q)
  BY <1>2 DEF Sets, At
<1>10. ASSUME h.name \in {"set", "acquire"}, h.fd # Invalid
       PROVE  /\ <<h.slot, h.fd>> \in Acquires(q)
              /\ \A a \in Acquires(q) : a[2] = h.fd => a[1] = h.slot
  <2>1. PICK i \in DOMAIN q : /\ q[i].name = "acquire" /\ q[i].fd = h.fd /\ q[i].slot = h.slot
    <3>1. CASE h.name = "acquire"
      BY <1>2, <3>1
    <3>2. CASE h.name = "set"
      <4>1. 1 + 1 \in DOMAIN q /\ q[1 + 1].name = "acquire" /\ q[1 + 1].fd = h.fd /\ q[1 + 1].slot = h.slot
        BY <1>1, <1>2, <1>10, <3>2 DEF Paired
      <4> QED BY <4>1
    <3> QED BY <1>10, <3>1, <3>2
  <2>2. \A j \in DOMAIN q : q[j].name = "acquire" /\ q[j].fd = h.fd => j = i
    BY <1>1, <2>1 DEF Once
  <2> QED BY <2>1, <2>2 DEF Acquires, At
<1>11. h.name = "acquire" => h.fd \notin Keeps(q)
  BY <1>1, <1>2, <1>3 DEF Keeps, At, Ordered
<1>12. h.name = "acquire" => h.fd # Invalid
  BY <1>1, <1>2 DEF Typed, Fds, Invalid
<1>13. h.name \in {"set", "acquire"} => h.slot \in Uses(q)
  BY <1>1, <1>2, NamesAssumption DEF Uses, Typed
<1> QED BY <1>4, <1>5, <1>6, <1>7, <1>8, <1>9, <1>10, <1>11, <1>12, <1>13

-----------------------------------------------------------------------------
(* The lists that calls begin with                                         *)

\* p is q with x before it.
Before(x, q, p) ==
  /\ p \in Seq(StepType) /\ Len(p) = Len(q) + 1
  /\ p[1] = x /\ x \in StepType
  /\ \A i \in DOMAIN q : i + 1 \in DOMAIN p /\ p[i + 1] = q[i]
  /\ \A i \in DOMAIN p : i # 1 => i - 1 \in DOMAIN q /\ p[i] = q[i - 1]

\* A step before a list.
LEMMA StepThen ==
  ASSUME NEW name \in Names, NEW s \in AnySlot, NEW fd \in AnyFd, NEW q \in Seq(StepType),
         NEW p, p = Step(name, s, fd) \o q
  PROVE  /\ Step(name, s, fd) \in Seq(StepType)
         /\ Before([name |-> name, slot |-> s, fd |-> fd], q, p)
<1>1. PICK a : a = Step(name, s, fd)
  OBVIOUS
<1>2. [name |-> name, slot |-> s, fd |-> fd] \in StepType
  BY DEF StepType
<1>3. /\ a \in Seq(StepType) /\ Len(a) = 1
      /\ a[1] = [name |-> name, slot |-> s, fd |-> fd] /\ a[1] \in StepType
  BY <1>1, <1>2 DEF Step
<1>4. PICK n \in Nat : n = Len(q)
  OBVIOUS
<1>5. /\ p \in Seq(StepType) /\ Len(p) = n + 1
      /\ \A i \in 1..(n + 1) : p[i] = IF i <= 1 THEN a[i] ELSE q[i - 1]
  <2>1. /\ p \in Seq(StepType) /\ Len(p) = Len(a) + Len(q)
        /\ \A i \in 1..(Len(a) + Len(q)) : p[i] = IF i <= Len(a) THEN a[i] ELSE q[i - Len(a)]
    BY <1>1, <1>3, ConcatProperties
  <2>2. Len(a) + Len(q) = n + 1
    BY <1>3, <1>4
  <2> QED BY <1>3, <2>1, <2>2
<1>6. DOMAIN q = 1..n /\ DOMAIN p = 1..(n + 1)
  BY <1>4, <1>5
<1>7. p[1] = a[1]
  BY <1>5
<1>8. \A i \in DOMAIN q : i + 1 \in DOMAIN p /\ p[i + 1] = q[i]
  <2> SUFFICES ASSUME NEW i \in 1..n PROVE i + 1 \in 1..(n + 1) /\ p[i + 1] = q[i]
    BY <1>6
  <2>1. i + 1 \in 1..(n + 1) /\ ~(i + 1 <= 1) /\ (i + 1) - 1 = i
    OBVIOUS
  <2> QED BY <1>5, <2>1
<1>9. \A i \in DOMAIN p : i # 1 => i - 1 \in DOMAIN q /\ p[i] = q[i - 1]
  <2> SUFFICES ASSUME NEW i \in 1..(n + 1), i # 1 PROVE i - 1 \in 1..n /\ p[i] = q[i - 1]
    BY <1>6
  <2>1. i - 1 \in 1..n /\ ~(i <= 1)
    OBVIOUS
  <2> QED BY <1>5, <2>1
<1> QED BY <1>1, <1>3, <1>4, <1>5, <1>7, <1>8, <1>9 DEF Before

\* What a step may be put before.
Leads(name, s, fd, q) ==
  /\ name \notin StrayNames
  /\ name # "set" => fd # Invalid
  /\ name \in {"set", "acquire"} => s # Invalid /\ \A a \in Acquires(q) : a[2] = fd => name = "set"
  /\ name \in KeepNames \cup {"release", "check"} => fd \notin Releases(q)
  /\ name \in KeepNames \cup {"acquire"} => fd \notin Keeps(q)
  /\ name = "set" => Sets(q) = {}
  /\ name = "check" => q # <<>> /\ q[1].name = "libc_close" /\ q[1].fd = fd
  /\ name = "set" /\ fd # Invalid =>
       q # <<>> /\ q[1].name = "acquire" /\ q[1].fd = fd /\ q[1].slot = s
  /\ q # <<>> /\ q[1].name = "acquire" => name = "set" /\ q[1].fd = fd /\ q[1].slot = s

NoStray(q) == \A i \in DOMAIN q : q[i].name \notin StrayNames

\* p is the list of a call, q with a step before it.
Adds(name, s, fd, q, p) ==
  /\ Shape(p) /\ NoStray(p) /\ p # <<>>
  /\ p[1] = [name |-> name, slot |-> s, fd |-> fd]
  /\ Keeps(p) = Keeps(q) \cup (IF name \in KeepNames THEN {fd} \ {Invalid} ELSE {})
  /\ Releases(p) = Releases(q) \cup (IF name = "release" THEN {fd} ELSE {})
  /\ Acquires(p) = Acquires(q) \cup (IF name = "acquire" THEN {<<s, fd>>} ELSE {})
  /\ Sets(p) = Sets(q) \cup (IF name = "set" THEN {s} ELSE {})
  /\ Uses(p) = Uses(q) \cup ({s} \ {Invalid})

\* The list is that of a call, with what the step adds.
LEMMA StepLeads ==
  ASSUME NEW name \in Names, NEW s \in AnySlot, NEW fd \in AnyFd,
         NEW q, Shape(q), NoStray(q), Leads(name, s, fd, q),
         NEW p, p = Step(name, s, fd) \o q
  PROVE  Adds(name, s, fd, q, p)
<1>1. q \in Seq(StepType) /\ Typed(q) /\ Once(q) /\ Ordered(q) /\ Paired(q)
  BY DEF Shape
<1>3. PICK x : x = [name |-> name, slot |-> s, fd |-> fd]
  OBVIOUS
<1>2. /\ p \in Seq(StepType) /\ Len(p) = Len(q) + 1 /\ p[1] = x /\ x \in StepType
      /\ \A i \in DOMAIN q : i + 1 \in DOMAIN p /\ p[i + 1] = q[i]
      /\ \A i \in DOMAIN p : i # 1 => i - 1 \in DOMAIN q /\ p[i] = q[i - 1]
  <2>1. Before(x, q, p)
    BY <1>1, <1>3, StepThen
  <2> QED BY <2>1 DEF Before
<1>4. p[1] = x /\ x.name = name /\ x.slot = s /\ x.fd = fd /\ x \in StepType
  BY <1>2, <1>3
<1>5. 1 \in DOMAIN p /\ DOMAIN p \subseteq Nat /\ DOMAIN q \subseteq Nat /\ \A i \in DOMAIN q : i >= 1
  BY <1>1, <1>2
<1>19. /\ \E i \in DOMAIN p : p[i] = x
       /\ \A i \in DOMAIN p : p[i] = x \/ \E j \in DOMAIN q : p[i] = q[j]
       /\ \A j \in DOMAIN q : \E i \in DOMAIN p : p[i] = q[j]
  <2>1. \A i \in DOMAIN p : p[i] = x \/ \E j \in DOMAIN q : p[i] = q[j]
    BY <1>2, <1>3
  <2>2. \A j \in DOMAIN q : \E i \in DOMAIN p : p[i] = q[j]
    BY <1>2
  <2> QED BY <1>4, <1>5, <2>1, <2>2
<1>6. Keeps(p) = Keeps(q) \cup (IF name \in KeepNames THEN {fd} \ {Invalid} ELSE {})
  <2>1. Keeps(p) \subseteq Keeps(q) \cup (IF name \in KeepNames THEN {fd} \ {Invalid} ELSE {})
    BY <1>4, <1>19 DEF Keeps, At
  <2>2. Keeps(q) \subseteq Keeps(p)
    BY <1>19 DEF Keeps, At
  <2>3. (IF name \in KeepNames THEN {fd} \ {Invalid} ELSE {}) \subseteq Keeps(p)
    BY <1>4, <1>19 DEF Keeps, At
  <2> QED BY <2>1, <2>2, <2>3
<1>7. Releases(p) = Releases(q) \cup (IF name = "release" THEN {fd} ELSE {})
  <2>1. Releases(p) \subseteq Releases(q) \cup (IF name = "release" THEN {fd} ELSE {})
    BY <1>4, <1>19 DEF Releases, At
  <2>2. Releases(q) \subseteq Releases(p)
    BY <1>19 DEF Releases, At
  <2>3. (IF name = "release" THEN {fd} ELSE {}) \subseteq Releases(p)
    BY <1>4, <1>19 DEF Releases, At
  <2> QED BY <2>1, <2>2, <2>3
<1>8. Acquires(p) = Acquires(q) \cup (IF name = "acquire" THEN {<<s, fd>>} ELSE {})
  <2>1. Acquires(p) \subseteq Acquires(q) \cup (IF name = "acquire" THEN {<<s, fd>>} ELSE {})
    BY <1>4, <1>19 DEF Acquires, At
  <2>2. Acquires(q) \subseteq Acquires(p)
    BY <1>19 DEF Acquires, At
  <2>3. (IF name = "acquire" THEN {<<s, fd>>} ELSE {}) \subseteq Acquires(p)
    BY <1>4, <1>19 DEF Acquires, At
  <2> QED BY <2>1, <2>2, <2>3
<1>9. Sets(p) = Sets(q) \cup (IF name = "set" THEN {s} ELSE {})
  <2>1. Sets(p) \subseteq Sets(q) \cup (IF name = "set" THEN {s} ELSE {})
    BY <1>4, <1>19 DEF Sets, At
  <2>2. Sets(q) \subseteq Sets(p)
    BY <1>19 DEF Sets, At
  <2>3. (IF name = "set" THEN {s} ELSE {}) \subseteq Sets(p)
    BY <1>4, <1>19 DEF Sets, At
  <2> QED BY <2>1, <2>2, <2>3
<1>10. Uses(p) = Uses(q) \cup ({s} \ {Invalid})
  <2>1. Uses(p) \subseteq Uses(q) \cup ({s} \ {Invalid})
    BY <1>4, <1>19 DEF Uses
  <2>2. Uses(q) \subseteq Uses(p)
    BY <1>19 DEF Uses
  <2>3. ({s} \ {Invalid}) \subseteq Uses(p)
    BY <1>4, <1>19 DEF Uses
  <2> QED BY <2>1, <2>2, <2>3
<1>11. NoStray(p)
  BY <1>2, <1>3, <1>4, <1>5 DEF NoStray, Leads
<1>12. Typed(p)
  <2>1. /\ name # "set" => fd \in Fds
        /\ name \in {"set", "acquire"} => s \in FdSlots
    BY DEF Leads, AnyFd, AnySlot
  <2> QED BY <1>1, <1>2, <1>3, <1>4, <1>5, <2>1 DEF Typed
<1>13. \A i \in DOMAIN q :
         /\ q[i].name \in KeepNames /\ q[i].fd # Invalid => q[i].fd \in Keeps(q)
         /\ q[i].name = "release" => q[i].fd \in Releases(q)
         /\ q[i].name = "acquire" => <<q[i].slot, q[i].fd>> \in Acquires(q)
         /\ q[i].name = "set" => q[i].slot \in Sets(q)
  BY DEF Keeps, Releases, Acquires, Sets, At
<1>14. \A i \in DOMAIN p : i # 1 =>
         /\ p[i].name \in KeepNames /\ name \in KeepNames /\ fd # Invalid => p[i].fd # fd
         /\ name \in {"release", "acquire"} /\ p[i].name = name => p[i].fd # fd
         /\ ~(name = "set" /\ p[i].name = "set")
         /\ p[i].fd = fd /\ p[i].name = "release" => name \notin KeepNames \cup {"check"}
         /\ p[i].fd = fd /\ p[i].name \in KeepNames => name # "acquire" \/ fd = Invalid
  <2> SUFFICES ASSUME NEW j \in DOMAIN q
               PROVE  /\ q[j].name \in KeepNames /\ name \in KeepNames /\ fd # Invalid => q[j].fd # fd
                      /\ name \in {"release", "acquire"} /\ q[j].name = name => q[j].fd # fd
                      /\ ~(name = "set" /\ q[j].name = "set")
                      /\ q[j].fd = fd /\ q[j].name = "release" => name \notin KeepNames \cup {"check"}
                      /\ q[j].fd = fd /\ q[j].name \in KeepNames => name # "acquire" \/ fd = Invalid
    BY <1>2
  <2> QED BY <1>13 DEF Leads, KeepNames
<1>15. Once(p)
  <2> SUFFICES ASSUME NEW i \in DOMAIN p, NEW j \in DOMAIN p
               PROVE  /\ /\ p[i].name \in KeepNames /\ p[j].name \in KeepNames
                         /\ p[i].fd = p[j].fd /\ p[i].fd # Invalid
                         => i = j
                      /\ /\ p[i].name \in {"release", "acquire"} /\ p[j].name = p[i].name
                         /\ p[i].fd = p[j].fd
                         => i = j
                      /\ p[i].name = "set" /\ p[j].name = "set" => i = j
    BY DEF Once
  <2>1. CASE i = 1 \/ j = 1
    BY <1>3, <1>4, <1>14, <2>1
  <2>2. CASE i # 1 /\ j # 1
    <3>1. /\ i - 1 \in DOMAIN q /\ p[i] = q[i - 1] /\ j - 1 \in DOMAIN q /\ p[j] = q[j - 1]
      BY <1>2, <2>2
    <3>2. i - 1 = j - 1 => i = j
      BY <1>5
    <3> QED BY <1>1, <3>1, <3>2 DEF Once
  <2> QED BY <2>1, <2>2
<1>16. Ordered(p)
  <2> SUFFICES ASSUME NEW i \in DOMAIN p, NEW j \in DOMAIN p, p[i].fd = p[j].fd
               PROVE  /\ p[i].name = "release" /\ p[j].name \in KeepNames \cup {"check"} => i < j
                      /\ p[i].name = "acquire" /\ p[j].name \in KeepNames => j < i
    BY DEF Ordered
  <2>1. \A k \in DOMAIN p : k # 1 => 1 < k
    <3>1. DOMAIN p = 1..Len(p)
      BY <1>2
    <3> QED BY <3>1
  <2>2. CASE i = 1
    <3>1. name = "acquire" => fd # Invalid
      BY DEF Leads
    <3> QED BY <1>3, <1>4, <1>14, <2>1, <2>2, <3>1 DEF KeepNames
  <2>3. CASE j = 1
    BY <1>3, <1>4, <1>14, <2>1, <2>3 DEF KeepNames
  <2>4. CASE i # 1 /\ j # 1
    <3>1. /\ i - 1 \in DOMAIN q /\ p[i] = q[i - 1] /\ j - 1 \in DOMAIN q /\ p[j] = q[j - 1]
      BY <1>2, <2>4
    <3>2. (i - 1 < j - 1 => i < j) /\ (j - 1 < i - 1 => j < i)
      BY <1>5
    <3> QED BY <1>1, <3>1, <3>2 DEF Ordered
  <2> QED BY <2>2, <2>3, <2>4
<1>17. Paired(p)
  <2> SUFFICES ASSUME NEW i \in DOMAIN p
               PROVE  /\ p[i].name = "check" =>
                           /\ i + 1 \in DOMAIN p /\ p[i + 1].name = "libc_close"
                           /\ p[i + 1].fd = p[i].fd
                      /\ p[i].name = "set" /\ p[i].fd # Invalid =>
                           /\ i + 1 \in DOMAIN p /\ p[i + 1].name = "acquire"
                           /\ p[i + 1].fd = p[i].fd /\ p[i + 1].slot = p[i].slot
                      /\ p[i].name = "acquire" =>
                           \/ i = 1
                           \/ /\ p[i - 1].name = "set" /\ p[i - 1].fd = p[i].fd
                              /\ p[i - 1].slot = p[i].slot
    BY DEF Paired
  <2>1. q # <<>> => 1 \in DOMAIN q /\ 1 + 1 \in DOMAIN p /\ p[1 + 1] = q[1]
    BY <1>1, <1>2
  <2>2. CASE i = 1
    BY <1>3, <1>4, <2>1, <2>2 DEF Leads
  <2>3. CASE i # 1
    <3>1. PICK j \in DOMAIN q : j = i - 1
      BY <1>2, <2>3
    <3>2. p[i] = q[j] /\ i = j + 1 /\ j \in Nat
      BY <1>2, <1>5, <2>3, <3>1
    <3>3. j + 1 \in DOMAIN q => i + 1 \in DOMAIN p /\ p[i + 1] = q[j + 1]
      BY <1>2, <3>2
    <3>6. /\ q[j].name = "check" =>
               j + 1 \in DOMAIN q /\ q[j + 1].name = "libc_close" /\ q[j + 1].fd = q[j].fd
          /\ q[j].name = "set" /\ q[j].fd # Invalid =>
               /\ j + 1 \in DOMAIN q /\ q[j + 1].name = "acquire"
               /\ q[j + 1].fd = q[j].fd /\ q[j + 1].slot = q[j].slot
      BY <1>1 DEF Paired
    <3>4. CASE j = 1
      <4>1. q # <<>> /\ p[i - 1] = x
        <5>1. i - 1 = 1
          BY <3>1, <3>4
        <5>2. q # <<>>
          BY <1>1, <3>1
        <5> QED BY <1>4, <5>1, <5>2
      <4>2. q[1].name = "acquire" => name = "set" /\ q[1].fd = fd /\ q[1].slot = s
        BY <4>1 DEF Leads
      <4>3. p[i].name = "acquire" => i = 1 \/ (/\ x.name = "set" /\ x.fd = p[i].fd /\ x.slot = p[i].slot)
        BY <1>4, <3>2, <3>4, <4>2
      <4> QED BY <3>2, <3>3, <3>6, <4>1, <4>3
    <3>5. CASE j # 1
      <4>1. j - 1 \in DOMAIN q
        <5>1. DOMAIN q = 1..Len(q)
          BY <1>1
        <5> QED BY <3>1, <3>5, <5>1
      <4>2. p[i - 1] = q[j - 1]
        <5>1. (j - 1) + 1 = i - 1
          BY <3>2
        <5> QED BY <1>2, <4>1, <5>1
      <4>3. p[i].name = "acquire" =>
              p[i - 1].name = "set" /\ p[i - 1].fd = p[i].fd /\ p[i - 1].slot = p[i].slot
        BY <1>1, <3>2, <3>5, <4>2 DEF Paired
      <4> QED BY <3>2, <3>3, <3>6, <4>3
    <3> QED BY <3>4, <3>5
  <2> QED BY <2>2, <2>3
<1>18. p # <<>>
  BY <1>5
<1>20. Shape(p)
  BY <1>2, <1>12, <1>15, <1>16, <1>17 DEF Shape
<1> QED BY <1>2, <1>3, <1>6, <1>7, <1>8, <1>9, <1>10, <1>11, <1>18, <1>20 DEF Adds

\* A list of a call that the class makes, and what it has in its books.
Proper(q) == Shape(q) /\ NoStray(q) /\ (q # <<>> => q[1].name # "acquire")
Books(q, K, R, A, S, U) ==
  /\ Proper(q) /\ Keeps(q) = K /\ Releases(q) = R /\ Acquires(q) = A /\ Sets(q) = S /\ Uses(q) = U

\* The list that has nothing left.
LEMMA NothingLeft == Books(<<>>, {}, {}, {}, {}, {})
<1>1. Shape(<<>>)
  BY DEF Shape, Typed, Once, Ordered, Paired
<1>2. NoStray(<<>>)
  BY DEF NoStray
<1>3. Keeps(<<>>) = {} /\ Releases(<<>>) = {} /\ Acquires(<<>>) = {} /\ Sets(<<>>) = {}
  BY DEF Keeps, Releases, Acquires, Sets, At
<1>4. Uses(<<>>) = {}
  BY DEF Uses
<1> QED BY <1>1, <1>2, <1>3, <1>4 DEF Books, Proper

\* A step alone.
LEMMA StepAlone ==
  ASSUME NEW name \in Names, NEW s \in AnySlot, NEW fd \in AnyFd
  PROVE  /\ Step(name, s, fd) \o <<>> = Step(name, s, fd)
         /\ Step(name, s, fd) \in Seq(StepType)
<1>1. [name |-> name, slot |-> s, fd |-> fd] \in StepType
  BY DEF StepType
<1>2. Step(name, s, fd) \in Seq(StepType)
  BY <1>1 DEF Step
<1> QED BY <1>2, ConcatEmptySeq

\* The owner is taken from the table.
LEMMA ReleaseThen ==
  ASSUME NEW s \in AnySlot, NEW fd \in Fds, NEW q, NEW K, NEW R, NEW A, NEW S, NEW U,
         Books(q, K, R, A, S, U), fd \notin R,
         NEW p, p = Step("release", s, fd) \o q
  PROVE  Books(p, K, R \cup {fd}, A, S, U \cup ({s} \ {Invalid}))
<1>1. Shape(q) /\ NoStray(q) /\ fd \in AnyFd /\ fd # Invalid
  BY DEF Books, Proper, AnyFd, Fds, Invalid
<1>2. Leads("release", s, fd, q)
  BY <1>1 DEF Books, Proper, Leads, StrayNames, KeepNames
<1>3. "release" \in Names /\ "release" \notin KeepNames
  BY DEF Names, KeepNames
<1>4. Adds("release", s, fd, q, p)
  BY <1>1, <1>2, <1>3, StepLeads
<1>5. Proper(p)
  BY <1>4 DEF Adds, Proper
<1>6. /\ Keeps(p) = Keeps(q) /\ Releases(p) = Releases(q) \cup {fd}
      /\ Acquires(p) = Acquires(q) /\ Sets(p) = Sets(q)
      /\ Uses(p) = Uses(q) \cup ({s} \ {Invalid})
  BY <1>3, <1>4 DEF Adds
<1> QED BY <1>5, <1>6 DEF Books

\* close() of libc through the hook.
LEMMA CloseThen ==
  ASSUME NEW s \in AnySlot, NEW fd \in Fds, NEW q, NEW K, NEW R, NEW A, NEW S, NEW U,
         Books(q, K, R, A, S, U), fd \notin R, fd \notin K,
         NEW p, p = Close(s, fd) \o q
  PROVE  Books(p, K \cup {fd}, R, A, S, U \cup ({s} \ {Invalid}))
<1>1. Shape(q) /\ NoStray(q) /\ q \in Seq(StepType) /\ fd \in AnyFd /\ fd # Invalid
  BY DEF Books, Proper, Shape, AnyFd, Fds, Invalid
<1>2. PICK r : r = Step("libc_close", s, fd) \o q
  OBVIOUS
<1>3. "libc_close" \in Names /\ "check" \in Names /\ "libc_close" \in KeepNames /\ "check" \notin KeepNames
  BY DEF Names, KeepNames
<1>4. Leads("libc_close", s, fd, q)
  BY <1>1 DEF Books, Leads, Proper, StrayNames, KeepNames
<1>5. Adds("libc_close", s, fd, q, r)
  BY <1>1, <1>2, <1>3, <1>4, StepLeads
<1>6. Leads("check", s, fd, r)
  BY <1>1, <1>5 DEF Books, Adds, Leads, StrayNames, KeepNames
<1>7. p = Step("check", s, fd) \o r
  <2>1. PICK a, b : a = Step("check", s, fd) /\ b = Step("libc_close", s, fd)
    OBVIOUS
  <2>2. a \in Seq(StepType) /\ b \in Seq(StepType)
    BY <1>1, <1>3, <2>1, StepAlone
  <2>3. (a \o b) \o q = a \o (b \o q)
    BY <1>1, <2>2, ConcatAssociative
  <2> QED BY <1>2, <2>1, <2>3 DEF Close
<1>8. Shape(r) /\ NoStray(r)
  BY <1>5 DEF Adds
<1>9. Adds("check", s, fd, r, p)
  BY <1>1, <1>3, <1>6, <1>7, <1>8, StepLeads
<1> QED BY <1>1, <1>3, <1>5, <1>9 DEF Adds, Books, Proper

\* The data_ of a ScopedFD is set and its owner entered.
LEMMA SetThen ==
  ASSUME NEW s \in FdSlots, NEW fd \in AnyFd,
         NEW p, p = Step("set", s, fd) \o Tracks("acquire", s, fd)
  PROVE  Books(p, {fd} \ {Invalid}, {}, IF fd = Invalid THEN {} ELSE {<<s, fd>>}, {s}, {s})
<1>1. s \in AnySlot /\ s # Invalid
  BY NamesAssumption DEF AnySlot
<1>2. "set" \in Names /\ "acquire" \in Names /\ "set" \in KeepNames /\ "acquire" \notin KeepNames
  BY DEF Names, KeepNames
<1>3. PICK q : q = Tracks("acquire", s, fd)
  OBVIOUS
<1>4. PICK e : e = <<>>
  OBVIOUS
<1>5. Books(e, {}, {}, {}, {}, {})
  BY <1>4, NothingLeft
<1>6. /\ Shape(q) /\ NoStray(q) /\ Keeps(q) = {} /\ Releases(q) = {} /\ Sets(q) = {}
      /\ Acquires(q) = (IF fd = Invalid THEN {} ELSE {<<s, fd>>}) /\ Uses(q) \subseteq {s}
      /\ fd = Invalid => q = <<>>
      /\ fd # Invalid => q # <<>> /\ q[1].name = "acquire" /\ q[1].fd = fd /\ q[1].slot = s
  <2>1. CASE fd = Invalid
    BY <1>3, <1>4, <1>5, <2>1 DEF Tracks, Proper, Books
  <2>2. CASE fd # Invalid
    <3>1. q = Step("acquire", s, fd) \o e
      BY <1>1, <1>2, <1>3, <1>4, <2>2, StepAlone DEF Tracks
    <3>2. Leads("acquire", s, fd, e)
      BY <1>1, <1>4, <1>5, <2>2 DEF Books, Leads, StrayNames, KeepNames
    <3>3. Shape(e) /\ NoStray(e)
      BY <1>5 DEF Books, Proper
    <3>4. Adds("acquire", s, fd, e, q)
      BY <1>1, <1>2, <3>1, <3>2, <3>3, StepLeads
    <3> QED BY <1>2, <1>5, <2>2, <3>4 DEF Adds, Books
  <2> QED BY <2>1, <2>2
<1>7. Leads("set", s, fd, q)
  BY <1>1, <1>6 DEF Leads, StrayNames, KeepNames
<1>8. p = Step("set", s, fd) \o q
  BY <1>3
<1>9. Adds("set", s, fd, q, p)
  BY <1>1, <1>2, <1>6, <1>7, <1>8, StepLeads
<1> QED BY <1>1, <1>2, <1>6, <1>9 DEF Adds, Books, Proper

\* reset(): what it keeps, takes from the table and enters.
LEMMA ResetList ==
  ASSUME NEW s \in FdSlots, NEW old \in AnyFd, NEW fd \in AnyFd, fd # Invalid => fd # old,
         NEW p, p = ResetTo(s, old, fd)
  PROVE  Books(p, {old, fd} \ {Invalid}, {old} \ {Invalid},
               IF fd = Invalid THEN {} ELSE {<<s, fd>>}, {s}, {s})
<1>1. s \in AnySlot /\ s # Invalid
  BY NamesAssumption DEF AnySlot
<1>2. /\ "set" \in Names /\ "acquire" \in Names /\ "release" \in Names
      /\ "check" \in Names /\ "libc_close" \in Names
  BY DEF Names
<1>3. PICK a : a = Tracks("acquire", s, fd)
  OBVIOUS
<1>4. PICK b : b = Step("set", s, fd)
  OBVIOUS
<1>5. a \in Seq(StepType) /\ b \in Seq(StepType)
  BY <1>1, <1>2, <1>3, <1>4, StepAlone DEF Tracks
<1>6. PICK q : q = b \o a
  OBVIOUS
<1> DEFINE A == IF fd = Invalid THEN {} ELSE {<<s, fd>>}
<1>7. Books(q, {fd} \ {Invalid}, {}, A, {s}, {s})
  BY <1>3, <1>4, <1>6, SetThen
<1> HIDE DEF A
<1>8. CASE old = Invalid
  <2>1. p = (<<>> \o b) \o a
    BY <1>3, <1>4, <1>8 DEF ResetTo, FreeIfNecessary
  <2>2. <<>> \o b = b
    BY <1>5, ConcatEmptySeq
  <2>3. p = q
    BY <1>6, <2>1, <2>2
  <2>4. {old, fd} \ {Invalid} = {fd} \ {Invalid} /\ {old} \ {Invalid} = {}
    BY <1>8
  <2> QED BY <1>7, <2>3, <2>4 DEF A
<1>9. CASE old # Invalid
  <2>1. PICK r, c, g : r = Step("release", s, old) /\ c = Close(s, old) /\ g = r \o c
    OBVIOUS
  <2>2. r \in Seq(StepType) /\ c \in Seq(StepType)
    <3>1. PICK c1, c2 : c1 = Step("check", s, old) /\ c2 = Step("libc_close", s, old)
      OBVIOUS
    <3>2. c1 \in Seq(StepType) /\ c2 \in Seq(StepType) /\ r \in Seq(StepType)
      BY <1>1, <1>2, <2>1, <3>1, StepAlone
    <3>3. c1 \o c2 \in Seq(StepType)
      BY <3>2, ConcatProperties
    <3> QED BY <2>1, <3>1, <3>2, <3>3 DEF Close
  <2>3. g \in Seq(StepType)
    BY <2>1, <2>2, ConcatProperties
  <2>4. p = (g \o b) \o a
    BY <1>3, <1>4, <1>9, <2>1 DEF ResetTo, FreeIfNecessary, Tracks
  <2>5. PICK d : d = c \o q
    OBVIOUS
  <2>6. p = r \o d
    <3>1. (g \o b) \o a = g \o q
      BY <1>5, <1>6, <2>3, ConcatAssociative
    <3>2. q \in Seq(StepType)
      BY <1>5, <1>6, ConcatProperties
    <3>3. (r \o c) \o q = r \o (c \o q)
      BY <2>2, <3>2, ConcatAssociative
    <3> QED BY <2>1, <2>4, <2>5, <3>1, <3>3
  <2>7. old \in Fds
    BY <1>9 DEF AnyFd
  <2>8. Books(d, ({fd} \ {Invalid}) \cup {old}, {}, A, {s}, {s} \cup ({s} \ {Invalid}))
    <3>1. old \notin {fd} \ {Invalid} /\ old \notin {}
      OBVIOUS
    <3> QED BY <1>1, <1>7, <2>1, <2>5, <2>7, <3>1, CloseThen
  <2>9. Books(p, ({fd} \ {Invalid}) \cup {old}, {} \cup {old}, A, {s},
              ({s} \cup ({s} \ {Invalid})) \cup ({s} \ {Invalid}))
    <3>1. old \notin {}
      OBVIOUS
    <3> QED BY <1>1, <2>1, <2>6, <2>7, <2>8, <3>1, ReleaseThen
  <2>10. /\ ({fd} \ {Invalid}) \cup {old} = {old, fd} \ {Invalid}
         /\ {} \cup {old} = {old} \ {Invalid}
         /\ ({s} \cup ({s} \ {Invalid})) \cup ({s} \ {Invalid}) = {s}
    BY <1>1, <1>9
  <2> QED BY <2>9, <2>10 DEF A
<1> QED BY <1>8, <1>9

\* release(): the table loses the descriptor that the caller gets.
LEMMA ReleaseList ==
  ASSUME NEW s \in FdSlots, NEW h \in AnyFd, NEW p, p = Tracks("release", s, h)
  PROVE  Books(p, {}, {h} \ {Invalid}, {}, {}, IF h = Invalid THEN {} ELSE {s})
<1>1. PICK e : e = <<>>
  OBVIOUS
<1>2. Books(e, {}, {}, {}, {}, {})
  BY <1>1, NothingLeft
<1>3. CASE h = Invalid
  <2>1. p = e /\ {h} \ {Invalid} = {}
    BY <1>1, <1>3 DEF Tracks
  <2> QED BY <1>2, <1>3, <2>1
<1>4. CASE h # Invalid
  <2>1. h \in Fds /\ s \in AnySlot /\ s # Invalid /\ "release" \in Names
    BY <1>4, NamesAssumption DEF AnyFd, AnySlot, Names
  <2>2. p = Step("release", s, h) \o e
    BY <1>1, <1>4, <2>1, StepAlone DEF Tracks
  <2>3. h \notin {}
    OBVIOUS
  <2>4. Books(p, {}, {} \cup {h}, {}, {}, {} \cup ({s} \ {Invalid}))
    BY <1>2, <2>1, <2>2, <2>3, ReleaseThen
  <2>5. {} \cup {h} = {h} \ {Invalid} /\ {} \cup ({s} \ {Invalid}) = {s}
    BY <1>4, <2>1
  <2> QED BY <1>4, <2>4, <2>5
<1> QED BY <1>3, <1>4

\* A move: release() of the one and reset() of the other.
LEMMA MoveList ==
  ASSUME NEW from \in FdSlots, NEW to \in FdSlots, NEW h \in AnyFd, NEW old \in AnyFd,
         h # Invalid => h # old,
         NEW p, p = Tracks("release", from, h) \o ResetTo(to, old, h)
  PROVE  Books(p, {old, h} \ {Invalid}, {old, h} \ {Invalid},
               IF h = Invalid THEN {} ELSE {<<to, h>>}, {to},
               {to} \cup (IF h = Invalid THEN {} ELSE {from}))
<1>1. PICK q : q = ResetTo(to, old, h)
  OBVIOUS
<1> DEFINE A == IF h = Invalid THEN {} ELSE {<<to, h>>}
<1>2. Books(q, {old, h} \ {Invalid}, {old} \ {Invalid}, A, {to}, {to})
  BY <1>1, ResetList
<1> HIDE DEF A
<1>3. q \in Seq(StepType)
  BY <1>2 DEF Books, Proper, Shape
<1>4. CASE h = Invalid
  <2>1. p = q
    BY <1>1, <1>3, <1>4, ConcatEmptySeq DEF Tracks
  <2>2. {old} \ {Invalid} = {old, h} \ {Invalid} /\ {to} \cup {} = {to}
    BY <1>4
  <2> QED BY <1>2, <1>4, <2>1, <2>2 DEF A
<1>5. CASE h # Invalid
  <2>1. h \in Fds /\ from \in AnySlot /\ from # Invalid
    BY <1>5, NamesAssumption DEF AnyFd, AnySlot
  <2>2. p = Step("release", from, h) \o q
    BY <1>1, <1>5 DEF Tracks
  <2>3. h \notin {old} \ {Invalid}
    BY <1>5
  <2>4. Books(p, {old, h} \ {Invalid}, ({old} \ {Invalid}) \cup {h}, A, {to},
              {to} \cup ({from} \ {Invalid}))
    BY <1>2, <2>1, <2>2, <2>3, ReleaseThen
  <2>5. ({old} \ {Invalid}) \cup {h} = {old, h} \ {Invalid} /\ {from} \ {Invalid} = {from}
    BY <1>5, <2>1
  <2> QED BY <1>5, <2>4, <2>5 DEF A
<1> QED BY <1>4, <1>5

\* A list of two steps.
IsPair(p, x, y) == p \in Seq(StepType) /\ DOMAIN p = {1, 2} /\ p[1] = x /\ p[2] = y

\* A step and then another.
LEMMA TwoSteps ==
  ASSUME NEW m \in Names, NEW n \in Names, NEW s \in AnySlot, NEW fd \in AnyFd,
         NEW p, p = Step(m, s, fd) \o Step(n, s, fd)
  PROVE  IsPair(p, [name |-> m, slot |-> s, fd |-> fd], [name |-> n, slot |-> s, fd |-> fd])
<1>1. PICK q : q = Step(n, s, fd)
  OBVIOUS
<1>2. PICK x : x = [name |-> m, slot |-> s, fd |-> fd]
  OBVIOUS
<1>3. q \in Seq(StepType) /\ Len(q) = 1 /\ DOMAIN q = 1..1
      /\ q[1] = [name |-> n, slot |-> s, fd |-> fd]
  <2>1. q \in Seq(StepType)
    BY <1>1, StepAlone
  <2> QED BY <1>1, <2>1 DEF Step
<1>4. Before(x, q, p)
  BY <1>1, <1>2, <1>3, StepThen
<1>5. p \in Seq(StepType) /\ Len(p) = 2 /\ p[1] = x
  BY <1>3, <1>4 DEF Before
<1>6. p[1 + 1] = q[1]
  BY <1>3, <1>4 DEF Before
<1>7. DOMAIN p = {1, 2}
  BY <1>5
<1> QED BY <1>2, <1>3, <1>5, <1>6, <1>7 DEF IsPair

\* close() of a descriptor that no ScopedFD holds.
LEMMA CloseList ==
  ASSUME NEW fd \in Fds, NEW p, p = Close(Invalid, fd)
  PROVE  /\ Books(p, {fd}, {}, {}, {}, {})
         /\ \A i \in DOMAIN p : p[i].name \in {"check", "libc_close"}
<1>1. PICK e : e = <<>>
  OBVIOUS
<1>2. Books(e, {}, {}, {}, {}, {})
  BY <1>1, NothingLeft
<1>3. p \in Seq(StepType) /\ \A i \in DOMAIN p : p[i].name \in {"check", "libc_close"}
  <2>1. "check" \in Names /\ "libc_close" \in Names /\ Invalid \in AnySlot /\ fd \in AnyFd
    BY DEF Names, AnySlot, AnyFd
  <2>2. p = Step("check", Invalid, fd) \o Step("libc_close", Invalid, fd)
    BY DEF Close
  <2>3. IsPair(p, [name |-> "check", slot |-> Invalid, fd |-> fd],
                  [name |-> "libc_close", slot |-> Invalid, fd |-> fd])
    BY <2>1, <2>2, TwoSteps
  <2> QED BY <2>3 DEF IsPair
<1>4. p = Close(Invalid, fd) \o e
  BY <1>1, <1>3, ConcatEmptySeq
<1>5. Invalid \in AnySlot /\ fd \notin {}
  BY DEF AnySlot
<1>6. Books(p, {} \cup {fd}, {}, {}, {}, {} \cup ({Invalid} \ {Invalid}))
  BY <1>2, <1>4, <1>5, CloseThen
<1>7. {} \cup {fd} = {fd} /\ {} \cup ({Invalid} \ {Invalid}) = {}
  OBVIOUS
<1> QED BY <1>3, <1>6, <1>7

\* close() of a descriptor that the thread has no right to.
LEMMA StrayList ==
  ASSUME NEW fd \in Fds,
         NEW p, p = Step("check_stray", Invalid, fd) \o Step("stray_close", Invalid, fd)
  PROVE  /\ Shape(p) /\ Strayless(p)
         /\ Keeps(p) = {} /\ Releases(p) = {} /\ Acquires(p) = {} /\ Sets(p) = {} /\ Uses(p) = {}
<1>1. PICK x, y : /\ x = [name |-> "check_stray", slot |-> Invalid, fd |-> fd]
                  /\ y = [name |-> "stray_close", slot |-> Invalid, fd |-> fd]
  OBVIOUS
<1>2. x \in StepType /\ y \in StepType
  BY <1>1 DEF StepType, Names, AnySlot, AnyFd
<1>3. "check_stray" \in Names /\ "stray_close" \in Names /\ Invalid \in AnySlot /\ fd \in AnyFd
  BY DEF Names, AnySlot, AnyFd
<1>4. /\ p \in Seq(StepType) /\ DOMAIN p = {1, 2} /\ p[1] = x /\ p[2] = y
  <2>1. IsPair(p, [name |-> "check_stray", slot |-> Invalid, fd |-> fd],
                  [name |-> "stray_close", slot |-> Invalid, fd |-> fd])
    BY <1>3, TwoSteps
  <2> QED BY <1>1, <2>1 DEF IsPair
<1>5. x.name = "check_stray" /\ y.name = "stray_close" /\ x.fd = fd /\ y.fd = fd
      /\ x.slot = Invalid /\ y.slot = Invalid
  BY <1>1
<1>6. \A i \in DOMAIN p :
        /\ p[i].name \in StrayNames /\ p[i].fd = fd /\ p[i].slot = Invalid /\ p[i] \in StepType
        /\ p[i].name \notin KeepNames
        /\ p[i].name \notin {"release", "acquire", "set", "check"}
  BY <1>2, <1>4, <1>5 DEF StrayNames, KeepNames
<1>7. Typed(p)
  BY <1>6 DEF Typed
<1>8. Once(p) /\ Ordered(p)
  BY <1>6 DEF Once, Ordered
<1>9. Paired(p)
  BY <1>6 DEF Paired
<1>10. Strayless(p)
  <2> SUFFICES ASSUME NEW i \in DOMAIN p, p[i].name = "stray_close"
               PROVE  i > 1 /\ p[i - 1].name = "check_stray"
    BY DEF Strayless
  <2>1. i = 2
    BY <1>4, <1>5
  <2>2. i - 1 = 1
    BY <2>1
  <2> QED BY <1>4, <1>5, <2>1, <2>2
<1>11. Keeps(p) = {} /\ Releases(p) = {} /\ Acquires(p) = {} /\ Sets(p) = {}
  BY <1>6 DEF Keeps, Releases, Acquires, Sets, At
<1>12. Uses(p) = {}
  BY <1>6 DEF Uses
<1> QED BY <1>4, <1>7, <1>8, <1>9, <1>10, <1>11, <1>12 DEF Shape

\* The lists of calls consist of steps, whatever descriptors they are about.
LEMMA ListTypes ==
  /\ \A s \in FdSlots, old, fd \in AnyFd : ResetTo(s, old, fd) \in Seq(StepType)
  /\ \A s \in FdSlots, fd \in AnyFd : Tracks("release", s, fd) \in Seq(StepType)
  /\ \A from, to \in FdSlots, h, old \in AnyFd :
       Tracks("release", from, h) \o ResetTo(to, old, h) \in Seq(StepType)
<1>1. ASSUME NEW s \in FdSlots, NEW fd \in AnyFd, NEW name \in {"release", "acquire"}
      PROVE  Tracks(name, s, fd) \in Seq(StepType)
  <2>1. name \in Names /\ s \in AnySlot
    BY DEF Names, AnySlot
  <2> QED BY <2>1, StepAlone DEF Tracks
<1>2. ASSUME NEW s \in FdSlots, NEW old \in AnyFd, NEW fd \in AnyFd
      PROVE  ResetTo(s, old, fd) \in Seq(StepType)
  <2>1. s \in AnySlot /\ "set" \in Names /\ "check" \in Names /\ "libc_close" \in Names
    BY DEF Names, AnySlot
  <2>2. PICK a, b, c, d, e : /\ a = Tracks("release", s, old) /\ b = Step("check", s, old)
                             /\ c = Step("libc_close", s, old) /\ d = Step("set", s, fd)
                             /\ e = Tracks("acquire", s, fd)
    OBVIOUS
  <2>3. a \in Seq(StepType) /\ e \in Seq(StepType)
    BY <1>1, <2>2
  <2>4. b \in Seq(StepType) /\ c \in Seq(StepType) /\ d \in Seq(StepType)
    BY <2>1, <2>2, StepAlone
  <2>5. PICK f : f = IF old = Invalid THEN <<>> ELSE a \o (b \o c)
    OBVIOUS
  <2>6. f \in Seq(StepType)
    <3>1. b \o c \in Seq(StepType)
      BY <2>4, ConcatProperties
    <3>2. a \o (b \o c) \in Seq(StepType)
      BY <2>3, <3>1, ConcatProperties
    <3> QED BY <2>5, <3>2
  <2>7. f \o d \in Seq(StepType)
    BY <2>4, <2>6, ConcatProperties
  <2>8. (f \o d) \o e \in Seq(StepType)
    BY <2>3, <2>7, ConcatProperties
  <2> QED BY <2>2, <2>5, <2>8 DEF ResetTo, FreeIfNecessary, Close
<1>3. ASSUME NEW from \in FdSlots, NEW to \in FdSlots, NEW h \in AnyFd, NEW old \in AnyFd
      PROVE  Tracks("release", from, h) \o ResetTo(to, old, h) \in Seq(StepType)
  <2>1. PICK a, b : a = Tracks("release", from, h) /\ b = ResetTo(to, old, h)
    OBVIOUS
  <2>2. a \in Seq(StepType) /\ b \in Seq(StepType)
    BY <1>1, <1>2, <2>1
  <2> QED BY <2>1, <2>2, ConcatProperties
<1> QED BY <1>1, <1>2, <1>3

-----------------------------------------------------------------------------
(* The ledger                                                              *)

\* Who a descriptor belongs to: a thread that has it from open(), release() or a
\* call that is to close it or to put it somewhere, a ScopedFD, or a Receiver.
RawOf(t) == <<"raw", t>>
KeepOf(t) == <<"keep", t>>
HeldOf(s) == <<"held", s>>
ValueOf(s) == <<"value", s>>
Places == {RawOf(t) : t \in FdThreads} \cup {KeepOf(t) : t \in FdThreads}
          \cup {HeldOf(s) : s \in FdSlots} \cup {ValueOf(s) : s \in FdSlots}
          \cup {<<"nobody", Invalid>>}

Entries(o, w, h, r, v, K, R, A, S, U) ==
  /\ o \in SUBSET Fds /\ w \in [Fds -> BOOLEAN]
  /\ h \in [FdSlots -> AnyFd] /\ v \in [FdSlots -> AnyFd] /\ r \in [FdThreads -> AnyFd]
  /\ K \in [FdThreads -> SUBSET Fds] /\ R \in [FdThreads -> SUBSET Fds]
  /\ A \in [FdThreads -> SUBSET (FdSlots \X Fds)]
  /\ S \in [FdThreads -> SUBSET FdSlots] /\ U \in [FdThreads -> SUBSET FdSlots]

\* A ScopedFD that no call is about to give another descriptor.
Settled(S, s) == \A u \in FdThreads : s \notin S[u]

\* A descriptor that belongs to somebody is open and belongs to nobody else.
Owned(own, o, h, r, v, K, S) ==
  /\ own \in [Fds -> Places]
  /\ \A t \in FdThreads : r[t] # Invalid => r[t] \in o /\ own[r[t]] = RawOf(t)
  /\ \A t \in FdThreads : \A fd \in K[t] : fd \in o /\ own[fd] = KeepOf(t)
  /\ \A s \in FdSlots : h[s] # Invalid /\ Settled(S, s) => h[s] \in o /\ own[h[s]] = HeldOf(s)
  /\ \A s \in FdSlots : v[s] # Invalid => v[s] \in o /\ own[v[s]] = ValueOf(s)

\* What a call is to release or to enter in the table is its own, and no two calls
\* use the same ScopedFD.
Pending(h, r, K, R, A, S, U) ==
  /\ \A t \in FdThreads : \A fd \in R[t] : fd \in K[t] \/ r[t] = fd
  /\ \A t \in FdThreads, s \in FdSlots, fd \in Fds :
       <<s, fd>> \in A[t] => s \in U[t] /\ (fd \in K[t] \/ (h[s] = fd /\ Settled(S, s)))
  /\ \A t \in FdThreads : S[t] \subseteq U[t]
  /\ \A t, u \in FdThreads, s \in FdSlots : s \in U[t] /\ s \in U[u] => t = u

\* The table has what is yet to be released, and what a ScopedFD holds and has
\* entered.
Entered(fd, h, A, S) ==
  \E s \in FdSlots : h[s] = fd /\ Settled(S, s) /\ \A t \in FdThreads : <<s, fd>> \notin A[t]
Tabled(w, h, R, A, S) ==
  \A fd \in Fds : CanTrack(fd) =>
    (w[fd] <=> ((\E t \in FdThreads : fd \in R[t]) \/ Entered(fd, h, A, S)))

Fine(own, o, w, h, r, v, K, R, A, S, U) ==
  /\ Entries(o, w, h, r, v, K, R, A, S, U)
  /\ Owned(own, o, h, r, v, K, S) /\ Pending(h, r, K, R, A, S, U) /\ Tabled(w, h, R, A, S)

\* The accounts can be kept: there is somebody that each descriptor belongs to.
Fits(o, w, h, r, v, K, R, A, S, U) ==
  \E own : Fine(own, o, w, h, r, v, K, R, A, S, U)

\* A thread that is in no call.
Blank(t, K, R, A, S, U) == K[t] = {} /\ R[t] = {} /\ A[t] = {} /\ S[t] = {} /\ U[t] = {}

\* Nobody is two owners.
LEMMA OwnersDiffer ==
  /\ \A t, u : /\ RawOf(t) = RawOf(u) => t = u
               /\ KeepOf(t) = KeepOf(u) => t = u
               /\ HeldOf(t) = HeldOf(u) => t = u
               /\ ValueOf(t) = ValueOf(u) => t = u
               /\ RawOf(t) # KeepOf(u) /\ RawOf(t) # HeldOf(u) /\ RawOf(t) # ValueOf(u)
               /\ KeepOf(t) # HeldOf(u) /\ KeepOf(t) # ValueOf(u) /\ HeldOf(t) # ValueOf(u)
  /\ \A t \in FdThreads : RawOf(t) \in Places /\ KeepOf(t) \in Places
  /\ \A s \in FdSlots : HeldOf(s) \in Places /\ ValueOf(s) \in Places
BY DEF RawOf, KeepOf, HeldOf, ValueOf, Places

\* A call of t begins: it takes the descriptors X over from the thread, from a
\* Receiver or from the ScopedFDs Q, which nobody uses, and is to release Y, those
\* that a ScopedFD had.  It is to enter Z and to set P.
TakesOver(t, X, Y, Z, P, Q, h, h2, r, r2, v, v2, U) ==
  /\ X \in SUBSET Fds /\ Y \in SUBSET X
  /\ Q \in SUBSET FdSlots /\ P \in SUBSET Q /\ Z \in SUBSET (Q \X X)
  /\ \A s \in Q, u \in FdThreads : s \notin U[u]
  /\ h2 \in [FdSlots -> AnyFd] /\ r2 \in [FdThreads -> AnyFd] /\ v2 \in [FdSlots -> AnyFd]
  /\ \A s \in FdSlots : h2[s] = h[s] \/ (s \in Q /\ h2[s] = Invalid)
  /\ \A u \in FdThreads : r2[u] = r[u] \/ (u = t /\ r2[u] = Invalid)
  /\ \A s \in FdSlots : v2[s] = v[s] \/ v2[s] = Invalid
  /\ \A fd \in X : \/ r[t] = fd /\ r2[t] = Invalid
                   \/ \E s \in FdSlots : v[s] = fd /\ v2[s] = Invalid
                   \/ \E s \in Q : h[s] = fd /\ (s \in P \/ h2[s] = Invalid)
  /\ \A fd \in Fds : fd \in Y <=> \E s \in Q : h[s] = fd /\ (s \in P \/ h2[s] = Invalid)

\* The table f with x for t.
Put(f, t, x) == [f EXCEPT ![t] = x]

\* The call has them, and nobody else.
LEMMA BookCall ==
  ASSUME NEW o, NEW w, NEW h, NEW r, NEW v, NEW K, NEW R, NEW A, NEW S, NEW U,
         Fits(o, w, h, r, v, K, R, A, S, U),
         NEW t \in FdThreads, Blank(t, K, R, A, S, U),
         NEW X, NEW Y, NEW Z, NEW P, NEW Q, NEW h2, NEW r2, NEW v2,
         TakesOver(t, X, Y, Z, P, Q, h, h2, r, r2, v, v2, U)
  PROVE  Fits(o, w, h2, r2, v2, Put(K, t, X), Put(R, t, Y), Put(A, t, Z), Put(S, t, P), Put(U, t, Q))
<1>23. /\ X \in SUBSET Fds /\ Y \in SUBSET X
       /\ Q \in SUBSET FdSlots /\ P \in SUBSET Q /\ Z \in SUBSET (Q \X X)
       /\ \A s \in Q, u \in FdThreads : s \notin U[u]
       /\ h2 \in [FdSlots -> AnyFd] /\ r2 \in [FdThreads -> AnyFd] /\ v2 \in [FdSlots -> AnyFd]
       /\ \A s \in FdSlots : h2[s] = h[s] \/ (s \in Q /\ h2[s] = Invalid)
       /\ \A u \in FdThreads : r2[u] = r[u] \/ (u = t /\ r2[u] = Invalid)
       /\ \A s \in FdSlots : v2[s] = v[s] \/ v2[s] = Invalid
       /\ \A fd \in X : \/ r[t] = fd /\ r2[t] = Invalid
                        \/ \E s \in FdSlots : v[s] = fd /\ v2[s] = Invalid
                        \/ \E s \in Q : h[s] = fd /\ (s \in P \/ h2[s] = Invalid)
       /\ \A fd \in Fds : fd \in Y <=> \E s \in Q : h[s] = fd /\ (s \in P \/ h2[s] = Invalid)
  BY DEF TakesOver
<1> USE <1>23
<1>1. PICK own : Fine(own, o, w, h, r, v, K, R, A, S, U)
  BY DEF Fits
<1>2. /\ Entries(o, w, h, r, v, K, R, A, S, U)
      /\ Owned(own, o, h, r, v, K, S) /\ Pending(h, r, K, R, A, S, U) /\ Tabled(w, h, R, A, S)
  BY <1>1 DEF Fine
<1>3. PICK K2, R2, A2, S2, U2 :
        /\ K2 = [K EXCEPT ![t] = X] /\ R2 = [R EXCEPT ![t] = Y] /\ A2 = [A EXCEPT ![t] = Z]
        /\ S2 = [S EXCEPT ![t] = P] /\ U2 = [U EXCEPT ![t] = Q]
  OBVIOUS
<1>22. /\ K2 = Put(K, t, X) /\ R2 = Put(R, t, Y) /\ A2 = Put(A, t, Z)
       /\ S2 = Put(S, t, P) /\ U2 = Put(U, t, Q)
  BY <1>3 DEF Put
<1>4. Entries(o, w, h2, r2, v2, K2, R2, A2, S2, U2)
  <2>1. Z \in SUBSET (FdSlots \X Fds)
    OBVIOUS
  <2> QED BY <1>2, <1>3, <2>1 DEF Entries
<1>5. \A u \in FdThreads :
        /\ K2[u] = IF u = t THEN X ELSE K[u]
        /\ R2[u] = IF u = t THEN Y ELSE R[u]
        /\ A2[u] = IF u = t THEN Z ELSE A[u]
        /\ S2[u] = IF u = t THEN P ELSE S[u]
        /\ U2[u] = IF u = t THEN Q ELSE U[u]
  BY <1>2, <1>3 DEF Entries
<1>6. K[t] = {} /\ R[t] = {} /\ A[t] = {} /\ S[t] = {} /\ U[t] = {}
  BY DEF Blank
<1>7. Invalid \notin Fds /\ \A x \in AnyFd : x # Invalid => x \in Fds
  BY DEF Fds, Invalid, AnyFd
<1>8. \A s \in Q, u \in FdThreads : s \notin S[u] /\ \A fd \in Fds : <<s, fd>> \notin A[u]
  BY <1>2 DEF Pending
<1>9. \A s \in FdSlots : Settled(S2, s) <=> Settled(S, s) /\ s \notin P
  BY <1>5, <1>6 DEF Settled
<1>10. \A s \in Q : Settled(S, s)
  BY <1>8 DEF Settled
<1>11. \A fd \in X : fd \in o /\ ( \/ own[fd] = RawOf(t) /\ r2[t] = Invalid
                                   \/ \E s \in FdSlots : own[fd] = ValueOf(s) /\ v2[s] = Invalid
                                   \/ \E s \in Q : /\ own[fd] = HeldOf(s)
                                                   /\ s \in P \/ h2[s] = Invalid)
  BY <1>2, <1>7, <1>10 DEF Owned
<1>12. PICK own2 : own2 = [fd \in Fds |-> IF fd \in X THEN KeepOf(t) ELSE own[fd]]
  OBVIOUS
<1>13. own2 \in [Fds -> Places]
  BY <1>2, <1>12, OwnersDiffer DEF Owned
<1>14. \A u \in FdThreads : r2[u] # Invalid => r2[u] \in o /\ own2[r2[u]] = RawOf(u)
  <2> SUFFICES ASSUME NEW u \in FdThreads, r2[u] # Invalid
               PROVE  r2[u] \in o /\ own2[r2[u]] = RawOf(u)
    OBVIOUS
  <2>1. r2[u] = r[u] /\ r2[u] \in Fds
    BY <1>7
  <2>2. r[u] \in o /\ own[r[u]] = RawOf(u)
    BY <1>2, <2>1 DEF Owned
  <2>3. r[u] \notin X
    BY <1>11, <2>1, <2>2 DEF RawOf, KeepOf, HeldOf, ValueOf
  <2> QED BY <1>12, <2>1, <2>2, <2>3
<1>15. \A u \in FdThreads : \A fd \in K2[u] : fd \in o /\ own2[fd] = KeepOf(u)
  <2> SUFFICES ASSUME NEW u \in FdThreads, NEW fd \in K2[u]
               PROVE  fd \in o /\ own2[fd] = KeepOf(u)
    OBVIOUS
  <2>1. CASE u = t
    BY <1>5, <1>11, <1>12, <2>1
  <2>2. CASE u # t
    <3>1. fd \in K[u] /\ fd \in Fds
      BY <1>2, <1>5, <2>2 DEF Entries
    <3>2. fd \in o /\ own[fd] = KeepOf(u)
      BY <1>2, <3>1 DEF Owned
    <3>3. fd \notin X
      BY <1>11, <3>2 DEF RawOf, KeepOf, HeldOf, ValueOf
    <3> QED BY <1>12, <3>1, <3>2, <3>3
  <2> QED BY <2>1, <2>2
<1>16. \A s \in FdSlots : h2[s] # Invalid /\ Settled(S2, s) =>
         h2[s] = h[s] /\ s \notin P /\ h[s] \notin X /\ h2[s] \in o /\ own2[h2[s]] = HeldOf(s)
  <2> SUFFICES ASSUME NEW s \in FdSlots, h2[s] # Invalid, Settled(S2, s)
               PROVE  /\ h2[s] = h[s] /\ s \notin P /\ h[s] \notin X
                      /\ h2[s] \in o /\ own2[h2[s]] = HeldOf(s)
    OBVIOUS
  <2>1. h2[s] = h[s] /\ h[s] \in Fds /\ Settled(S, s) /\ s \notin P
    BY <1>7, <1>9
  <2>2. h[s] \in o /\ own[h[s]] = HeldOf(s)
    BY <1>2, <2>1 DEF Owned
  <2>3. h[s] \notin X
    BY <1>11, <2>1, <2>2 DEF RawOf, KeepOf, HeldOf, ValueOf
  <2> QED BY <1>12, <2>1, <2>2, <2>3
<1>17. \A s \in FdSlots : v2[s] # Invalid => v2[s] \in o /\ own2[v2[s]] = ValueOf(s)
  <2> SUFFICES ASSUME NEW s \in FdSlots, v2[s] # Invalid
               PROVE  v2[s] \in o /\ own2[v2[s]] = ValueOf(s)
    OBVIOUS
  <2>1. v2[s] = v[s] /\ v[s] \in Fds
    BY <1>7
  <2>2. v[s] \in o /\ own[v[s]] = ValueOf(s)
    BY <1>2, <2>1 DEF Owned
  <2>3. v[s] \notin X
    BY <1>11, <2>1, <2>2 DEF RawOf, KeepOf, HeldOf, ValueOf
  <2> QED BY <1>12, <2>1, <2>2, <2>3
<1>18. Owned(own2, o, h2, r2, v2, K2, S2)
  BY <1>13, <1>14, <1>15, <1>16, <1>17 DEF Owned
<1>19. Pending(h2, r2, K2, R2, A2, S2, U2)
  <2>1. \A u \in FdThreads : \A fd \in R2[u] : fd \in K2[u] \/ r2[u] = fd
    BY <1>2, <1>5 DEF Pending
  <2>2. \A u \in FdThreads, s \in FdSlots, fd \in Fds :
          <<s, fd>> \in A2[u] => s \in U2[u] /\ (fd \in K2[u] \/ (h2[s] = fd /\ Settled(S2, s)))
    <3> SUFFICES ASSUME NEW u \in FdThreads, NEW s \in FdSlots, NEW fd \in Fds, <<s, fd>> \in A2[u]
                 PROVE  s \in U2[u] /\ (fd \in K2[u] \/ (h2[s] = fd /\ Settled(S2, s)))
      OBVIOUS
    <3>1. CASE u = t
      <4>1. <<s, fd>> \in Q \X X
        BY <1>5, <3>1
      <4> QED BY <1>5, <3>1, <4>1
    <3>2. CASE u # t
      <4>1. s \in U[u] /\ (fd \in K[u] \/ (h[s] = fd /\ Settled(S, s)))
        BY <1>2, <1>5, <3>2 DEF Pending
      <4>2. s \notin Q
        BY <4>1
      <4> QED BY <1>5, <1>9, <3>2, <4>1, <4>2
    <3> QED BY <3>1, <3>2
  <2>3. \A u \in FdThreads : S2[u] \subseteq U2[u]
    BY <1>2, <1>5 DEF Pending
  <2>4. \A u, x \in FdThreads, s \in FdSlots : s \in U2[u] /\ s \in U2[x] => u = x
    BY <1>2, <1>5 DEF Pending
  <2> QED BY <2>1, <2>2, <2>3, <2>4 DEF Pending
<1>20. Tabled(w, h2, R2, A2, S2)
  <2> SUFFICES ASSUME NEW fd \in Fds, CanTrack(fd)
               PROVE  w[fd] <=> ((\E u \in FdThreads : fd \in R2[u]) \/ Entered(fd, h2, A2, S2))
    BY DEF Tabled
  <2>1. w[fd] <=> ((\E u \in FdThreads : fd \in R[u]) \/ Entered(fd, h, A, S))
    BY <1>2 DEF Tabled
  <2>2. (\E u \in FdThreads : fd \in R2[u]) <=> (\E u \in FdThreads : fd \in R[u]) \/ fd \in Y
    BY <1>5, <1>6
  <2>3. ASSUME fd \in Y PROVE Entered(fd, h, A, S)
    BY <1>8, <1>10, <2>3 DEF Entered
  <2>4. ASSUME Entered(fd, h2, A2, S2) PROVE Entered(fd, h, A, S)
    <3>1. PICK s \in FdSlots : h2[s] = fd /\ Settled(S2, s) /\ \A u \in FdThreads : <<s, fd>> \notin A2[u]
      BY <2>4 DEF Entered
    <3>2. h[s] = fd /\ Settled(S, s)
      BY <1>7, <1>9, <1>16, <3>1
    <3>3. \A u \in FdThreads : <<s, fd>> \notin A[u]
      BY <1>5, <1>6, <3>1
    <3> QED BY <3>2, <3>3 DEF Entered
  <2>5. ASSUME Entered(fd, h, A, S), fd \notin Y PROVE Entered(fd, h2, A2, S2)
    <3>1. PICK s \in FdSlots : h[s] = fd /\ Settled(S, s) /\ \A u \in FdThreads : <<s, fd>> \notin A[u]
      BY <2>5 DEF Entered
    <3>2. s \notin P /\ h2[s] = fd
      BY <2>5, <3>1
    <3>3. Settled(S2, s) /\ fd \notin X
      BY <1>7, <1>9, <1>16, <3>1, <3>2
    <3>4. \A u \in FdThreads : <<s, fd>> \notin A2[u]
      <4>1. <<s, fd>> \notin Z
        BY <3>3
      <4> QED BY <1>5, <3>1, <4>1
    <3> QED BY <3>2, <3>3, <3>4 DEF Entered
  <2> QED BY <2>1, <2>2, <2>3, <2>4, <2>5
<1>21. Fine(own2, o, w, h2, r2, v2, K2, R2, A2, S2, U2)
  BY <1>4, <1>18, <1>19, <1>20 DEF Fine
<1> QED BY <1>21, <1>22 DEF Fits

\* open(): the descriptor belonged to nobody.
LEMMA BookOpen ==
  ASSUME NEW o, NEW w, NEW h, NEW r, NEW v, NEW K, NEW R, NEW A, NEW S, NEW U,
         Fits(o, w, h, r, v, K, R, A, S, U),
         NEW t \in FdThreads, r[t] = Invalid, NEW fd \in Fds, fd \notin o
  PROVE  Fits(o \cup {fd}, w, h, Put(r, t, fd), v, K, R, A, S, U)
<1>1. PICK own : Fine(own, o, w, h, r, v, K, R, A, S, U)
  BY DEF Fits
<1>2. /\ Entries(o, w, h, r, v, K, R, A, S, U)
      /\ Owned(own, o, h, r, v, K, S) /\ Pending(h, r, K, R, A, S, U) /\ Tabled(w, h, R, A, S)
  BY <1>1 DEF Fine
<1>3. PICK r2, o2 : r2 = [r EXCEPT ![t] = fd] /\ o2 = o \cup {fd}
  OBVIOUS
<1>4. \A u \in FdThreads : r2[u] = IF u = t THEN fd ELSE r[u]
  BY <1>2, <1>3 DEF Entries
<1>5. Entries(o2, w, h, r2, v, K, R, A, S, U)
  <2>1. r2 \in [FdThreads -> AnyFd]
    BY <1>2, <1>3 DEF Entries, AnyFd
  <2> QED BY <1>2, <1>3, <2>1 DEF Entries
<1>6. PICK own2 : own2 = [own EXCEPT ![fd] = RawOf(t)]
  OBVIOUS
<1>7. own2 \in [Fds -> Places] /\ own2[fd] = RawOf(t) /\ \A x \in o : own2[x] = own[x]
  <2>1. o \subseteq Fds
    BY <1>2 DEF Entries
  <2> QED BY <1>2, <1>6, <2>1, OwnersDiffer DEF Owned
<1>8. Owned(own2, o2, h, r2, v, K, S)
  BY <1>2, <1>3, <1>4, <1>7 DEF Owned
<1>9. Pending(h, r2, K, R, A, S, U)
  <2>1. fd \notin R[t] /\ \A x \in R[t] : x \in K[t]
    <3>1. \A x \in R[t] : x \in K[t]
      <4>1. Invalid \notin R[t]
        BY <1>2 DEF Entries, Fds, Invalid
      <4> QED BY <1>2, <4>1 DEF Pending
    <3> QED BY <1>2, <3>1 DEF Owned
  <2> QED BY <1>2, <1>4, <2>1 DEF Pending
<1> QED BY <1>2, <1>3, <1>5, <1>8, <1>9 DEF Fits, Fine, Put

\* release(): the thread has what the ScopedFD had.
LEMMA BookRelease ==
  ASSUME NEW o, NEW w, NEW h, NEW r, NEW v, NEW K, NEW R, NEW A, NEW S, NEW U,
         Fits(o, w, h, r, v, K, R, A, S, U),
         NEW t \in FdThreads, Blank(t, K, R, A, S, U), r[t] = Invalid,
         NEW s \in FdSlots, \A u \in FdThreads : s \notin U[u],
         NEW Q \in SUBSET {s}
  PROVE  Fits(o, w, Put(h, s, Invalid), Put(r, t, h[s]), v, Put(K, t, {}),
              Put(R, t, {h[s]} \ {Invalid}), Put(A, t, {}), Put(S, t, {}), Put(U, t, Q))
<1>1. PICK own : Fine(own, o, w, h, r, v, K, R, A, S, U)
  BY DEF Fits
<1>2. /\ Entries(o, w, h, r, v, K, R, A, S, U)
      /\ Owned(own, o, h, r, v, K, S) /\ Pending(h, r, K, R, A, S, U) /\ Tabled(w, h, R, A, S)
  BY <1>1 DEF Fine
<1>3. PICK h2, r2, R2, U2 :
        /\ h2 = [h EXCEPT ![s] = Invalid] /\ r2 = [r EXCEPT ![t] = h[s]]
        /\ R2 = [R EXCEPT ![t] = {h[s]} \ {Invalid}] /\ U2 = [U EXCEPT ![t] = Q]
  OBVIOUS
<1>4. K[t] = {} /\ R[t] = {} /\ A[t] = {} /\ S[t] = {} /\ U[t] = {}
  BY DEF Blank
<1>5. [K EXCEPT ![t] = {}] = K /\ [A EXCEPT ![t] = {}] = A /\ [S EXCEPT ![t] = {}] = S
  BY <1>2, <1>4 DEF Entries
<1>6. /\ \A u \in FdThreads : /\ r2[u] = IF u = t THEN h[s] ELSE r[u]
                              /\ R2[u] = IF u = t THEN {h[s]} \ {Invalid} ELSE R[u]
                              /\ U2[u] = IF u = t THEN Q ELSE U[u]
      /\ \A z \in FdSlots : h2[z] = IF z = s THEN Invalid ELSE h[z]
      /\ h[s] \in AnyFd /\ Invalid \notin Fds
  BY <1>2, <1>3 DEF Entries, Fds, Invalid
<1>7. Entries(o, w, h2, r2, v, K, R2, A, S, U2)
  <2>1. Invalid \in AnyFd /\ {h[s]} \ {Invalid} \in SUBSET Fds /\ Q \in SUBSET FdSlots
    BY <1>6 DEF AnyFd
  <2> QED BY <1>2, <1>3, <1>6, <2>1 DEF Entries
<1>8. \A u \in FdThreads : s \notin S[u] /\ \A fd \in Fds : <<s, fd>> \notin A[u]
  BY <1>2 DEF Pending
<1>9. Settled(S, s)
  BY <1>8 DEF Settled
<1>10. PICK own2 : own2 = [fd \in Fds |-> IF fd = h[s] THEN RawOf(t) ELSE own[fd]]
  OBVIOUS
<1>11. h[s] # Invalid => h[s] \in Fds /\ h[s] \in o /\ own[h[s]] = HeldOf(s)
  BY <1>2, <1>6, <1>9 DEF Owned, AnyFd
<1>12. Owned(own2, o, h2, r2, v, K, S)
  <2>1. own2 \in [Fds -> Places]
    BY <1>2, <1>10, OwnersDiffer DEF Owned
  <2>2. \A u \in FdThreads : r2[u] # Invalid => r2[u] \in o /\ own2[r2[u]] = RawOf(u)
    <3> SUFFICES ASSUME NEW u \in FdThreads, r2[u] # Invalid
                 PROVE  r2[u] \in o /\ own2[r2[u]] = RawOf(u)
      OBVIOUS
    <3>1. CASE u = t
      BY <1>6, <1>10, <1>11, <3>1
    <3>2. CASE u # t
      <4>1. r2[u] = r[u] /\ r[u] \in Fds /\ r[u] \in o /\ own[r[u]] = RawOf(u)
        BY <1>2, <1>6, <3>2 DEF Owned, Entries, AnyFd
      <4>2. r[u] # h[s]
        BY <1>6, <1>11, <4>1 DEF RawOf, HeldOf
      <4> QED BY <1>10, <4>1, <4>2
    <3> QED BY <3>1, <3>2
  <2>3. \A u \in FdThreads : \A fd \in K[u] : fd \in o /\ own2[fd] = KeepOf(u)
    <3> SUFFICES ASSUME NEW u \in FdThreads, NEW fd \in K[u] PROVE fd \in o /\ own2[fd] = KeepOf(u)
      OBVIOUS
    <3>1. fd \in Fds /\ fd \in o /\ own[fd] = KeepOf(u)
      BY <1>2 DEF Owned, Entries
    <3>2. fd # h[s]
      BY <1>6, <1>11, <3>1 DEF KeepOf, HeldOf
    <3> QED BY <1>10, <3>1, <3>2
  <2>4. \A z \in FdSlots : h2[z] # Invalid /\ Settled(S, z) => h2[z] \in o /\ own2[h2[z]] = HeldOf(z)
    <3> SUFFICES ASSUME NEW z \in FdSlots, h2[z] # Invalid, Settled(S, z)
                 PROVE  h2[z] \in o /\ own2[h2[z]] = HeldOf(z)
      OBVIOUS
    <3>1. z # s /\ h2[z] = h[z] /\ h[z] \in Fds /\ h[z] \in o /\ own[h[z]] = HeldOf(z)
      BY <1>2, <1>6 DEF Owned, Entries, AnyFd
    <3>2. h[z] # h[s]
      BY <1>6, <1>11, <3>1 DEF HeldOf
    <3> QED BY <1>10, <3>1, <3>2
  <2>5. \A z \in FdSlots : v[z] # Invalid => v[z] \in o /\ own2[v[z]] = ValueOf(z)
    <3> SUFFICES ASSUME NEW z \in FdSlots, v[z] # Invalid
                 PROVE  v[z] \in o /\ own2[v[z]] = ValueOf(z)
      OBVIOUS
    <3>1. v[z] \in Fds /\ v[z] \in o /\ own[v[z]] = ValueOf(z)
      BY <1>2 DEF Owned, Entries, AnyFd
    <3>2. v[z] # h[s]
      BY <1>6, <1>11, <3>1 DEF ValueOf, HeldOf
    <3> QED BY <1>10, <3>1, <3>2
  <2> QED BY <2>1, <2>2, <2>3, <2>4, <2>5 DEF Owned
<1>13. Pending(h2, r2, K, R2, A, S, U2)
  <2>1. \A u \in FdThreads : \A fd \in R2[u] : fd \in K[u] \/ r2[u] = fd
    BY <1>2, <1>6 DEF Pending
  <2>2. \A u \in FdThreads, z \in FdSlots, fd \in Fds :
          <<z, fd>> \in A[u] => z \in U2[u] /\ (fd \in K[u] \/ (h2[z] = fd /\ Settled(S, z)))
    <3> SUFFICES ASSUME NEW u \in FdThreads, NEW z \in FdSlots, NEW fd \in Fds, <<z, fd>> \in A[u]
                 PROVE  z \in U2[u] /\ (fd \in K[u] \/ (h2[z] = fd /\ Settled(S, z)))
      OBVIOUS
    <3>1. z \in U[u] /\ (fd \in K[u] \/ (h[z] = fd /\ Settled(S, z))) /\ u # t /\ z # s
      BY <1>2, <1>4, <1>8 DEF Pending
    <3> QED BY <1>6, <3>1
  <2>3. \A u \in FdThreads : S[u] \subseteq U2[u]
    BY <1>2, <1>4, <1>6 DEF Pending
  <2>4. \A u, x \in FdThreads, z \in FdSlots : z \in U2[u] /\ z \in U2[x] => u = x
    BY <1>2, <1>6 DEF Pending
  <2> QED BY <2>1, <2>2, <2>3, <2>4 DEF Pending
<1>14. Tabled(w, h2, R2, A, S)
  <2> SUFFICES ASSUME NEW fd \in Fds, CanTrack(fd)
               PROVE  w[fd] <=> ((\E u \in FdThreads : fd \in R2[u]) \/ Entered(fd, h2, A, S))
    BY DEF Tabled
  <2>1. w[fd] <=> ((\E u \in FdThreads : fd \in R[u]) \/ Entered(fd, h, A, S))
    BY <1>2 DEF Tabled
  <2>2. (\E u \in FdThreads : fd \in R2[u]) <=> (\E u \in FdThreads : fd \in R[u]) \/ fd = h[s]
    BY <1>4, <1>6
  <2>3. Entered(fd, h, A, S) <=> Entered(fd, h2, A, S) \/ fd = h[s]
    BY <1>6, <1>8, <1>9 DEF Entered
  <2> QED BY <2>1, <2>2, <2>3
<1> QED BY <1>3, <1>5, <1>7, <1>12, <1>13, <1>14 DEF Fits, Fine, Put

\* get() of a Receiver: it has what the thread had.
LEMMA BookGet ==
  ASSUME NEW o, NEW w, NEW h, NEW r, NEW v, NEW K, NEW R, NEW A, NEW S, NEW U,
         Fits(o, w, h, r, v, K, R, A, S, U),
         NEW t \in FdThreads, Blank(t, K, R, A, S, U), r[t] # Invalid, NEW s \in FdSlots
  PROVE  Fits(o, w, h, Put(r, t, Invalid), Put(v, s, r[t]), K, R, A, S, U)
<1>1. PICK own : Fine(own, o, w, h, r, v, K, R, A, S, U)
  BY DEF Fits
<1>2. /\ Entries(o, w, h, r, v, K, R, A, S, U)
      /\ Owned(own, o, h, r, v, K, S) /\ Pending(h, r, K, R, A, S, U) /\ Tabled(w, h, R, A, S)
  BY <1>1 DEF Fine
<1>3. PICK r2, v2 : r2 = [r EXCEPT ![t] = Invalid] /\ v2 = [v EXCEPT ![s] = r[t]]
  OBVIOUS
<1>4. /\ \A u \in FdThreads : r2[u] = IF u = t THEN Invalid ELSE r[u]
      /\ \A z \in FdSlots : v2[z] = IF z = s THEN r[t] ELSE v[z]
      /\ r[t] \in Fds /\ r[t] \in o /\ own[r[t]] = RawOf(t)
  BY <1>2, <1>3 DEF Entries, Owned, AnyFd
<1>5. Entries(o, w, h, r2, v2, K, R, A, S, U)
  <2>1. Invalid \in AnyFd /\ r[t] \in AnyFd
    BY <1>4 DEF AnyFd
  <2> QED BY <1>2, <1>3, <2>1 DEF Entries
<1>6. PICK own2 : own2 = [own EXCEPT ![r[t]] = ValueOf(s)]
  OBVIOUS
<1>7. own2 \in [Fds -> Places] /\ \A x \in Fds : own2[x] = IF x = r[t] THEN ValueOf(s) ELSE own[x]
  BY <1>2, <1>4, <1>6, OwnersDiffer DEF Owned
<1>8. /\ \A u \in FdThreads : r2[u] # Invalid => r2[u] \in o /\ own2[r2[u]] = RawOf(u)
      /\ \A u \in FdThreads : \A fd \in K[u] : fd \in o /\ own2[fd] = KeepOf(u)
  <2>1. \A u \in FdThreads : r[u] # Invalid => r[u] \in Fds /\ r[u] \in o /\ own[r[u]] = RawOf(u)
    BY <1>2 DEF Entries, Owned, AnyFd
  <2>2. \A u \in FdThreads : \A fd \in K[u] : fd \in Fds /\ fd \in o /\ own[fd] = KeepOf(u)
    BY <1>2 DEF Entries, Owned
  <2>3. \A u \in FdThreads : u # t /\ r[u] # Invalid => r[u] # r[t]
    BY <1>4, <2>1 DEF RawOf
  <2>4. \A u \in FdThreads : r[t] \notin K[u]
    BY <1>4, <2>2 DEF RawOf, KeepOf
  <2> QED BY <1>4, <1>7, <2>1, <2>2, <2>3, <2>4
<1>9. \A z \in FdSlots : h[z] # Invalid /\ Settled(S, z) => h[z] \in o /\ own2[h[z]] = HeldOf(z)
  <2>1. \A z \in FdSlots : h[z] # Invalid /\ Settled(S, z)
                             => h[z] \in Fds /\ h[z] \in o /\ own[h[z]] = HeldOf(z)
    BY <1>2 DEF Entries, Owned, AnyFd
  <2> QED BY <1>4, <1>7, <2>1 DEF RawOf, HeldOf
<1>10. \A z \in FdSlots : v2[z] # Invalid => v2[z] \in o /\ own2[v2[z]] = ValueOf(z)
  <2>1. \A z \in FdSlots : v[z] # Invalid => v[z] \in Fds /\ v[z] \in o /\ own[v[z]] = ValueOf(z)
    BY <1>2 DEF Entries, Owned, AnyFd
  <2> QED BY <1>4, <1>7, <2>1 DEF RawOf, ValueOf
<1>11. Owned(own2, o, h, r2, v2, K, S)
  BY <1>7, <1>8, <1>9, <1>10 DEF Owned
<1>12. Pending(h, r2, K, R, A, S, U)
  BY <1>2, <1>4 DEF Pending, Blank
<1> QED BY <1>2, <1>3, <1>5, <1>11, <1>12 DEF Fits, Fine, Put

\* A call that goes on may use less than before.
LEMMA BookUses ==
  ASSUME NEW o, NEW w, NEW h, NEW r, NEW v, NEW K, NEW R, NEW A, NEW S, NEW U,
         Fits(o, w, h, r, v, K, R, A, S, U),
         NEW t \in FdThreads, NEW Q \in SUBSET FdSlots, Q \subseteq U[t], S[t] \subseteq Q,
         \A s \in FdSlots, fd \in Fds : <<s, fd>> \in A[t] => s \in Q
  PROVE  Fits(o, w, h, r, v, K, R, A, S, Put(U, t, Q))
<1>1. PICK own : Fine(own, o, w, h, r, v, K, R, A, S, U)
  BY DEF Fits
<1>2. /\ Entries(o, w, h, r, v, K, R, A, S, U)
      /\ Owned(own, o, h, r, v, K, S) /\ Pending(h, r, K, R, A, S, U) /\ Tabled(w, h, R, A, S)
  BY <1>1 DEF Fine
<1>3. PICK U2 : U2 = [U EXCEPT ![t] = Q]
  OBVIOUS
<1>4. \A u \in FdThreads : U2[u] = IF u = t THEN Q ELSE U[u]
  BY <1>2, <1>3 DEF Entries
<1>5. Entries(o, w, h, r, v, K, R, A, S, U2)
  BY <1>2, <1>3 DEF Entries
<1>6. Pending(h, r, K, R, A, S, U2)
  BY <1>2, <1>4 DEF Pending
<1> QED BY <1>2, <1>3, <1>5, <1>6 DEF Fits, Fine, Put

\* What a call is to close or to put into a ScopedFD is not in the table, unless the
\* call is to release it first, and what it is to release is there.
LEMMA BookCheck ==
  ASSUME NEW o, NEW w, NEW h, NEW r, NEW v, NEW K, NEW R, NEW A, NEW S, NEW U,
         Fits(o, w, h, r, v, K, R, A, S, U),
         NEW t \in FdThreads, NEW fd \in Fds
  PROVE  /\ fd \in K[t] => fd \in o
         /\ fd \in K[t] /\ fd \notin R[t] /\ CanTrack(fd) => ~w[fd]
         /\ fd \in R[t] /\ CanTrack(fd) => w[fd]
<1>1. PICK own : Fine(own, o, w, h, r, v, K, R, A, S, U)
  BY DEF Fits
<1>2. /\ Entries(o, w, h, r, v, K, R, A, S, U)
      /\ Owned(own, o, h, r, v, K, S) /\ Pending(h, r, K, R, A, S, U) /\ Tabled(w, h, R, A, S)
  BY <1>1 DEF Fine
<1>3. ASSUME fd \in K[t], fd \notin R[t], NEW u \in FdThreads, fd \in R[u] PROVE FALSE
  <2>1. u # t /\ (fd \in K[u] \/ r[u] = fd)
    BY <1>2, <1>3 DEF Pending
  <2>2. own[fd] = KeepOf(t) /\ (own[fd] = KeepOf(u) \/ own[fd] = RawOf(u))
    BY <1>2, <1>3, <2>1 DEF Owned, Fds, Invalid
  <2> QED BY <2>1, <2>2 DEF KeepOf, RawOf
<1>4. ASSUME fd \in K[t] PROVE ~Entered(fd, h, A, S)
  <2>1. own[fd] = KeepOf(t) /\ fd # Invalid
    BY <1>2, <1>4 DEF Owned, Fds, Invalid
  <2>2. \A s \in FdSlots : h[s] = fd /\ Settled(S, s) => own[fd] = HeldOf(s)
    BY <1>2, <2>1 DEF Owned
  <2>3. SUFFICES ASSUME Entered(fd, h, A, S) PROVE FALSE
    OBVIOUS
  <2>4. PICK s \in FdSlots : h[s] = fd /\ Settled(S, s)
    BY <2>3 DEF Entered
  <2>5. own[fd] = HeldOf(s)
    BY <2>2, <2>4
  <2> QED BY <2>1, <2>5 DEF KeepOf, HeldOf
<1>5. fd \in K[t] => fd \in o
  BY <1>2 DEF Owned
<1> QED BY <1>2, <1>3, <1>4, <1>5 DEF Tabled

\* UpdateAndCheckFdOwnership before a descriptor is closed or given away.
LEMMA BookFree ==
  ASSUME NEW o, NEW w, NEW h, NEW r, NEW v, NEW K, NEW R, NEW A, NEW S, NEW U,
         Fits(o, w, h, r, v, K, R, A, S, U),
         NEW t \in FdThreads, NEW fd \in Fds, fd \in R[t],
         NEW w2, w2 = IF CanTrack(fd) THEN [w EXCEPT ![fd] = FALSE] ELSE w
  PROVE  Fits(o, w2, h, r, v, K, Put(R, t, R[t] \ {fd}), A, S, U)
<1>1. PICK own : Fine(own, o, w, h, r, v, K, R, A, S, U)
  BY DEF Fits
<1>2. /\ Entries(o, w, h, r, v, K, R, A, S, U)
      /\ Owned(own, o, h, r, v, K, S) /\ Pending(h, r, K, R, A, S, U) /\ Tabled(w, h, R, A, S)
  BY <1>1 DEF Fine
<1>3. PICK R2 : R2 = [R EXCEPT ![t] = R[t] \ {fd}]
  OBVIOUS
<1>4. /\ \A u \in FdThreads : R2[u] = IF u = t THEN R[t] \ {fd} ELSE R[u]
      /\ w2 \in [Fds -> BOOLEAN]
      /\ \A x \in Fds : CanTrack(x) => w2[x] = IF x = fd THEN FALSE ELSE w[x]
  BY <1>2, <1>3 DEF Entries
<1>5. Entries(o, w2, h, r, v, K, R2, A, S, U)
  <2>1. R[t] \ {fd} \in SUBSET Fds
    BY <1>2 DEF Entries
  <2> QED BY <1>2, <1>3, <1>4, <2>1 DEF Entries
<1>6. Pending(h, r, K, R2, A, S, U)
  BY <1>2, <1>4 DEF Pending
<1>7. own[fd] = KeepOf(t) \/ own[fd] = RawOf(t)
  BY <1>2 DEF Pending, Owned, Fds, Invalid
<1>8. ASSUME NEW u \in FdThreads, fd \in R[u] PROVE u = t
  <2>1. own[fd] = KeepOf(u) \/ own[fd] = RawOf(u)
    BY <1>2, <1>8 DEF Pending, Owned, Fds, Invalid
  <2> QED BY <1>7, <2>1 DEF KeepOf, RawOf
<1>9. ~Entered(fd, h, A, S)
  <2>1. \A s \in FdSlots : h[s] = fd /\ Settled(S, s) => own[fd] = HeldOf(s)
    BY <1>2 DEF Owned, Fds, Invalid
  <2>2. SUFFICES ASSUME Entered(fd, h, A, S) PROVE FALSE
    OBVIOUS
  <2>3. PICK s \in FdSlots : h[s] = fd /\ Settled(S, s)
    BY <2>2 DEF Entered
  <2>4. own[fd] = HeldOf(s)
    BY <2>1, <2>3
  <2> QED BY <1>7, <2>4 DEF KeepOf, RawOf, HeldOf
<1>10. Tabled(w2, h, R2, A, S)
  <2> SUFFICES ASSUME NEW x \in Fds, CanTrack(x)
               PROVE  w2[x] <=> ((\E u \in FdThreads : x \in R2[u]) \/ Entered(x, h, A, S))
    BY DEF Tabled
  <2>1. CASE x = fd
    BY <1>4, <1>8, <1>9, <2>1
  <2>2. CASE x # fd
    <3>1. w[x] <=> ((\E u \in FdThreads : x \in R[u]) \/ Entered(x, h, A, S))
      BY <1>2 DEF Tabled
    <3>2. \A u \in FdThreads : x \in R2[u] <=> x \in R[u]
      BY <1>4, <2>2
    <3>3. w2[x] = w[x]
      BY <1>4, <2>2
    <3> QED BY <3>1, <3>2, <3>3
  <2> QED BY <2>1, <2>2
<1> QED BY <1>2, <1>3, <1>5, <1>6, <1>10 DEF Fits, Fine, Put

\* UpdateAndCheckFdOwnership when a ScopedFD holds the descriptor.
LEMMA BookAcquire ==
  ASSUME NEW o, NEW w, NEW h, NEW r, NEW v, NEW K, NEW R, NEW A, NEW S, NEW U,
         Fits(o, w, h, r, v, K, R, A, S, U),
         NEW t \in FdThreads, NEW s \in FdSlots, NEW fd \in Fds,
         <<s, fd>> \in A[t], fd \notin K[t],
         NEW w2, w2 = IF CanTrack(fd) THEN [w EXCEPT ![fd] = TRUE] ELSE w
  PROVE  /\ CanTrack(fd) => ~w[fd]
         /\ Fits(o, w2, h, r, v, K, R, Put(A, t, A[t] \ {<<s, fd>>}), S, U)
<1>1. PICK own : Fine(own, o, w, h, r, v, K, R, A, S, U)
  BY DEF Fits
<1>2. /\ Entries(o, w, h, r, v, K, R, A, S, U)
      /\ Owned(own, o, h, r, v, K, S) /\ Pending(h, r, K, R, A, S, U) /\ Tabled(w, h, R, A, S)
  BY <1>1 DEF Fine
<1>3. PICK A2 : A2 = [A EXCEPT ![t] = A[t] \ {<<s, fd>>}]
  OBVIOUS
<1>4. /\ \A u \in FdThreads : A2[u] = IF u = t THEN A[t] \ {<<s, fd>>} ELSE A[u]
      /\ w2 \in [Fds -> BOOLEAN]
      /\ \A x \in Fds : CanTrack(x) => w2[x] = IF x = fd THEN TRUE ELSE w[x]
  BY <1>2, <1>3 DEF Entries
<1>5. Entries(o, w2, h, r, v, K, R, A2, S, U)
  <2>1. A[t] \ {<<s, fd>>} \in SUBSET (FdSlots \X Fds)
    BY <1>2 DEF Entries
  <2> QED BY <1>2, <1>3, <1>4, <2>1 DEF Entries
<1>6. Pending(h, r, K, R, A2, S, U)
  BY <1>2, <1>4 DEF Pending
<1>7. h[s] = fd /\ Settled(S, s) /\ s \in U[t]
  BY <1>2 DEF Pending
<1>8. own[fd] = HeldOf(s)
  BY <1>2, <1>7 DEF Owned, Fds, Invalid
<1>9. ASSUME NEW u \in FdThreads PROVE fd \notin R[u]
  <2>1. fd \in R[u] => own[fd] = KeepOf(u) \/ own[fd] = RawOf(u)
    BY <1>2 DEF Pending, Owned, Fds, Invalid
  <2> QED BY <1>8, <2>1 DEF KeepOf, RawOf, HeldOf
<1>10. ASSUME NEW z \in FdSlots, h[z] = fd, Settled(S, z) PROVE z = s
  <2>1. own[fd] = HeldOf(z)
    BY <1>2, <1>10 DEF Owned, Fds, Invalid
  <2> QED BY <1>8, <2>1 DEF HeldOf
<1>11. ~Entered(fd, h, A, S)
  BY <1>10 DEF Entered
<1>12. Entered(fd, h, A2, S)
  <2>1. \A u \in FdThreads : <<s, fd>> \notin A2[u]
    BY <1>2, <1>4, <1>7 DEF Pending
  <2> QED BY <1>7, <2>1 DEF Entered
<1>13. Tabled(w2, h, R, A2, S)
  <2> SUFFICES ASSUME NEW x \in Fds, CanTrack(x)
               PROVE  w2[x] <=> ((\E u \in FdThreads : x \in R[u]) \/ Entered(x, h, A2, S))
    BY DEF Tabled
  <2>1. CASE x = fd
    BY <1>4, <1>12, <2>1
  <2>2. CASE x # fd
    <3>1. w[x] <=> ((\E u \in FdThreads : x \in R[u]) \/ Entered(x, h, A, S))
      BY <1>2 DEF Tabled
    <3>2. \A u \in FdThreads, z \in FdSlots : <<z, x>> \in A2[u] <=> <<z, x>> \in A[u]
      BY <1>4, <2>2
    <3>3. Entered(x, h, A2, S) <=> Entered(x, h, A, S)
      BY <3>2 DEF Entered
    <3>4. w2[x] = w[x]
      BY <1>4, <2>2
    <3> QED BY <3>1, <3>3, <3>4
  <2> QED BY <2>1, <2>2
<1>14. CanTrack(fd) => ~w[fd]
  BY <1>2, <1>9, <1>11 DEF Tabled
<1> QED BY <1>2, <1>3, <1>5, <1>6, <1>13, <1>14 DEF Fits, Fine, Put

\* close() of libc.
LEMMA BookClose ==
  ASSUME NEW o, NEW w, NEW h, NEW r, NEW v, NEW K, NEW R, NEW A, NEW S, NEW U,
         Fits(o, w, h, r, v, K, R, A, S, U),
         NEW t \in FdThreads, NEW fd \in Fds, fd \in K[t], fd \notin R[t],
         \A s \in FdSlots : <<s, fd>> \notin A[t]
  PROVE  Fits(o \ {fd}, w, h, r, v, Put(K, t, K[t] \ {fd}), R, A, S, U)
<1>1. PICK own : Fine(own, o, w, h, r, v, K, R, A, S, U)
  BY DEF Fits
<1>2. /\ Entries(o, w, h, r, v, K, R, A, S, U)
      /\ Owned(own, o, h, r, v, K, S) /\ Pending(h, r, K, R, A, S, U) /\ Tabled(w, h, R, A, S)
  BY <1>1 DEF Fine
<1>3. PICK K2, o2 : K2 = [K EXCEPT ![t] = K[t] \ {fd}] /\ o2 = o \ {fd}
  OBVIOUS
<1>4. \A u \in FdThreads : K2[u] = IF u = t THEN K[t] \ {fd} ELSE K[u]
  BY <1>2, <1>3 DEF Entries
<1>5. Entries(o2, w, h, r, v, K2, R, A, S, U)
  <2>1. K[t] \ {fd} \in SUBSET Fds /\ o2 \in SUBSET Fds
    BY <1>2, <1>3 DEF Entries
  <2> QED BY <1>2, <1>3, <2>1 DEF Entries
<1>6. own[fd] = KeepOf(t) /\ fd # Invalid
  BY <1>2 DEF Owned, Fds, Invalid
<1>7. Owned(own, o2, h, r, v, K2, S)
  <2>1. \A u \in FdThreads : r[u] # Invalid => r[u] # fd
    BY <1>2, <1>6 DEF Owned, RawOf, KeepOf
  <2>2. \A u \in FdThreads : \A x \in K2[u] : x \in K[u] /\ x # fd
    BY <1>2, <1>4, <1>6 DEF Owned, KeepOf
  <2>3. \A z \in FdSlots : h[z] # Invalid /\ Settled(S, z) => h[z] # fd
    BY <1>2, <1>6 DEF Owned, HeldOf, KeepOf
  <2>4. \A z \in FdSlots : v[z] # Invalid => v[z] # fd
    BY <1>2, <1>6 DEF Owned, ValueOf, KeepOf
  <2> QED BY <1>2, <1>3, <2>1, <2>2, <2>3, <2>4 DEF Owned
<1>8. Pending(h, r, K2, R, A, S, U)
  <2>1. \A u \in FdThreads : \A x \in R[u] : x \in K2[u] \/ r[u] = x
    BY <1>2, <1>4 DEF Pending
  <2>2. \A u \in FdThreads, s \in FdSlots, x \in Fds :
          <<s, x>> \in A[u] => s \in U[u] /\ (x \in K2[u] \/ (h[s] = x /\ Settled(S, s)))
    BY <1>2, <1>4 DEF Pending
  <2> QED BY <1>2, <2>1, <2>2 DEF Pending
<1> QED BY <1>2, <1>3, <1>5, <1>7, <1>8 DEF Fits, Fine, Put

\* The ScopedFD holds what the call had, or nothing.
LEMMA BookSet ==
  ASSUME NEW o, NEW w, NEW h, NEW r, NEW v, NEW K, NEW R, NEW A, NEW S, NEW U,
         Fits(o, w, h, r, v, K, R, A, S, U),
         NEW t \in FdThreads, NEW s \in FdSlots, s \in S[t], NEW fd \in AnyFd,
         fd # Invalid => fd \in K[t] /\ fd \notin R[t] /\ <<s, fd>> \in A[t],
         \A z \in FdSlots : fd # Invalid /\ <<z, fd>> \in A[t] => z = s
  PROVE  Fits(o, w, Put(h, s, fd), r, v, Put(K, t, K[t] \ {fd}), R, A, Put(S, t, S[t] \ {s}), U)
<1>1. PICK own : Fine(own, o, w, h, r, v, K, R, A, S, U)
  BY DEF Fits
<1>2. /\ Entries(o, w, h, r, v, K, R, A, S, U)
      /\ Owned(own, o, h, r, v, K, S) /\ Pending(h, r, K, R, A, S, U) /\ Tabled(w, h, R, A, S)
  BY <1>1 DEF Fine
<1>3. PICK h2, K2, S2 : /\ h2 = [h EXCEPT ![s] = fd] /\ K2 = [K EXCEPT ![t] = K[t] \ {fd}]
                        /\ S2 = [S EXCEPT ![t] = S[t] \ {s}]
  OBVIOUS
<1>4. /\ \A u \in FdThreads : /\ K2[u] = IF u = t THEN K[t] \ {fd} ELSE K[u]
                              /\ S2[u] = IF u = t THEN S[t] \ {s} ELSE S[u]
      /\ \A z \in FdSlots : h2[z] = IF z = s THEN fd ELSE h[z]
  BY <1>2, <1>3 DEF Entries
<1>5. Entries(o, w, h2, r, v, K2, R, A, S2, U)
  <2>1. K[t] \ {fd} \in SUBSET Fds /\ S[t] \ {s} \in SUBSET FdSlots
    BY <1>2 DEF Entries
  <2> QED BY <1>2, <1>3, <2>1 DEF Entries
<1>6. ~Settled(S, s) /\ \A u \in FdThreads : s \in U[u] => u = t
  BY <1>2 DEF Settled, Pending
<1>7. Settled(S2, s) /\ \A z \in FdSlots : z # s => (Settled(S2, z) <=> Settled(S, z))
  BY <1>2, <1>4, <1>6 DEF Settled, Pending
<1>8. fd # Invalid => fd \in Fds /\ fd \in o /\ own[fd] = KeepOf(t)
  BY <1>2 DEF Owned, AnyFd
<1>9. PICK own2 : own2 = [x \in Fds |-> IF x = fd THEN HeldOf(s) ELSE own[x]]
  OBVIOUS
<1>10. Owned(own2, o, h2, r, v, K2, S2)
  <2>1. own2 \in [Fds -> Places]
    BY <1>2, <1>9, OwnersDiffer DEF Owned
  <2>2. \A u \in FdThreads : r[u] # Invalid => r[u] \in o /\ own2[r[u]] = RawOf(u)
    <3> SUFFICES ASSUME NEW u \in FdThreads, r[u] # Invalid
                 PROVE  r[u] \in o /\ own2[r[u]] = RawOf(u)
      OBVIOUS
    <3>1. r[u] \in Fds /\ r[u] \in o /\ own[r[u]] = RawOf(u)
      BY <1>2 DEF Owned, Entries, AnyFd
    <3>2. r[u] # fd
      BY <1>8, <3>1 DEF RawOf, KeepOf
    <3> QED BY <1>9, <3>1, <3>2
  <2>3. \A u \in FdThreads : \A x \in K2[u] : x \in o /\ own2[x] = KeepOf(u)
    <3> SUFFICES ASSUME NEW u \in FdThreads, NEW x \in K2[u] PROVE x \in o /\ own2[x] = KeepOf(u)
      OBVIOUS
    <3>1. x \in K[u] /\ x \in Fds /\ x \in o /\ own[x] = KeepOf(u)
      BY <1>2, <1>4 DEF Owned, Entries
    <3>2. x # fd
      BY <1>4, <1>8, <3>1 DEF KeepOf, Fds, Invalid
    <3> QED BY <1>9, <3>1, <3>2
  <2>4. \A z \in FdSlots : h2[z] # Invalid /\ Settled(S2, z) => h2[z] \in o /\ own2[h2[z]] = HeldOf(z)
    <3> SUFFICES ASSUME NEW z \in FdSlots, h2[z] # Invalid, Settled(S2, z)
                 PROVE  h2[z] \in o /\ own2[h2[z]] = HeldOf(z)
      OBVIOUS
    <3>1. CASE z = s
      BY <1>4, <1>8, <1>9, <3>1
    <3>2. CASE z # s
      <4>1. h2[z] = h[z] /\ Settled(S, z)
        BY <1>4, <1>7, <3>2
      <4>2. h[z] \in Fds /\ h[z] \in o /\ own[h[z]] = HeldOf(z)
        BY <1>2, <4>1 DEF Owned, Entries, AnyFd
      <4>3. h[z] # fd
        BY <1>8, <4>1, <4>2 DEF HeldOf, KeepOf
      <4> QED BY <1>9, <4>1, <4>2, <4>3
    <3> QED BY <3>1, <3>2
  <2>5. \A z \in FdSlots : v[z] # Invalid => v[z] \in o /\ own2[v[z]] = ValueOf(z)
    <3> SUFFICES ASSUME NEW z \in FdSlots, v[z] # Invalid
                 PROVE  v[z] \in o /\ own2[v[z]] = ValueOf(z)
      OBVIOUS
    <3>1. v[z] \in Fds /\ v[z] \in o /\ own[v[z]] = ValueOf(z)
      BY <1>2 DEF Owned, Entries, AnyFd
    <3>2. v[z] # fd
      BY <1>8, <3>1 DEF ValueOf, KeepOf
    <3> QED BY <1>9, <3>1, <3>2
  <2> QED BY <2>1, <2>2, <2>3, <2>4, <2>5 DEF Owned
<1>11. Pending(h2, r, K2, R, A, S2, U)
  <2>1. \A u \in FdThreads : \A x \in R[u] : x \in K2[u] \/ r[u] = x
    <3> SUFFICES ASSUME NEW u \in FdThreads, NEW x \in R[u] PROVE x \in K2[u] \/ r[u] = x
      OBVIOUS
    <3>1. (x \in K[u] \/ r[u] = x) /\ x \in Fds
      BY <1>2 DEF Pending, Entries
    <3>2. u = t => x # fd
      BY <3>1 DEF Fds, Invalid
    <3> QED BY <1>4, <3>1, <3>2
  <2>2. \A u \in FdThreads, z \in FdSlots, x \in Fds :
          <<z, x>> \in A[u] => z \in U[u] /\ (x \in K2[u] \/ (h2[z] = x /\ Settled(S2, z)))
    <3> SUFFICES ASSUME NEW u \in FdThreads, NEW z \in FdSlots, NEW x \in Fds, <<z, x>> \in A[u]
                 PROVE  z \in U[u] /\ (x \in K2[u] \/ (h2[z] = x /\ Settled(S2, z)))
      OBVIOUS
    <3>1. z \in U[u] /\ (x \in K[u] \/ (h[z] = x /\ Settled(S, z))) /\ x # Invalid
      BY <1>2 DEF Pending, Fds, Invalid
    <3>2. CASE x \in K[u] /\ ~(u = t /\ x = fd)
      BY <1>4, <3>1, <3>2
    <3>3. CASE u = t /\ x = fd
      BY <1>4, <1>7, <3>1, <3>3
    <3>4. CASE x \notin K[u]
      BY <1>4, <1>6, <1>7, <3>1, <3>4
    <3> QED BY <3>2, <3>3, <3>4
  <2>3. \A u \in FdThreads : S2[u] \subseteq U[u]
    BY <1>2, <1>4 DEF Pending
  <2> QED BY <1>2, <2>1, <2>2, <2>3 DEF Pending
<1>12. Tabled(w, h2, R, A, S2)
  <2> SUFFICES ASSUME NEW x \in Fds, CanTrack(x) PROVE Entered(x, h2, A, S2) <=> Entered(x, h, A, S)
    BY <1>2 DEF Tabled
  <2>1. x # Invalid
    BY DEF Fds, Invalid
  <2>2. ASSUME Entered(x, h2, A, S2) PROVE Entered(x, h, A, S)
    <3>1. PICK z \in FdSlots : h2[z] = x /\ Settled(S2, z) /\ \A u \in FdThreads : <<z, x>> \notin A[u]
      BY <2>2 DEF Entered
    <3>2. z # s
      BY <1>4, <2>1, <3>1
    <3> QED BY <1>4, <1>7, <3>1, <3>2 DEF Entered
  <2>3. ASSUME Entered(x, h, A, S) PROVE Entered(x, h2, A, S2)
    <3>1. PICK z \in FdSlots : h[z] = x /\ Settled(S, z) /\ \A u \in FdThreads : <<z, x>> \notin A[u]
      BY <2>3 DEF Entered
    <3>2. z # s
      BY <1>6, <3>1
    <3> QED BY <1>4, <1>7, <3>1, <3>2 DEF Entered
  <2> QED BY <2>2, <2>3
<1> QED BY <1>3, <1>5, <1>10, <1>11, <1>12 DEF Fits, Fine, Put

-----------------------------------------------------------------------------
(* The ledger of the calls in progress                                     *)

KeptOf(st) == [t \in FdThreads |-> Keeps(st[t])]
ReleasingOf(st) == [t \in FdThreads |-> Releases(st[t])]
AcquiringOf(st) == [t \in FdThreads |-> Acquires(st[t])]
SettingOf(st) == [t \in FdThreads |-> Sets(st[t])]
UsingOf(st) == [t \in FdThreads |-> Uses(st[t])]
Accounts(o, w, h, r, v, st) ==
  Fits(o, w, h, r, v, KeptOf(st), ReleasingOf(st), AcquiringOf(st), SettingOf(st), UsingOf(st))

Sums(q, K, R, A, S, U) ==
  Keeps(q) = K /\ Releases(q) = R /\ Acquires(q) = A /\ Sets(q) = S /\ Uses(q) = U

\* The books of st2 are those of st, but that t has the list q.
NowHas(st2, st, t, q) ==
  /\ KeptOf(st2) = Put(KeptOf(st), t, Keeps(q))
  /\ ReleasingOf(st2) = Put(ReleasingOf(st), t, Releases(q))
  /\ AcquiringOf(st2) = Put(AcquiringOf(st), t, Acquires(q))
  /\ SettingOf(st2) = Put(SettingOf(st), t, Sets(q))
  /\ UsingOf(st2) = Put(UsingOf(st), t, Uses(q))

\* One call has another list.
LEMMA OneList ==
  ASSUME NEW S, NEW st \in [FdThreads -> S], NEW t \in FdThreads, NEW q,
         NEW st2, st2 = [st EXCEPT ![t] = q]
  PROVE  NowHas(st2, st, t, q)
<1>1. \A u \in FdThreads : st2[u] = IF u = t THEN q ELSE st[u]
  OBVIOUS
<1>2. KeptOf(st2) = Put(KeptOf(st), t, Keeps(q))
  BY <1>1 DEF KeptOf, Put
<1>3. ReleasingOf(st2) = Put(ReleasingOf(st), t, Releases(q))
  BY <1>1 DEF ReleasingOf, Put
<1>4. AcquiringOf(st2) = Put(AcquiringOf(st), t, Acquires(q))
  BY <1>1 DEF AcquiringOf, Put
<1>5. SettingOf(st2) = Put(SettingOf(st), t, Sets(q))
  BY <1>1 DEF SettingOf, Put
<1>6. UsingOf(st2) = Put(UsingOf(st), t, Uses(q))
  BY <1>1 DEF UsingOf, Put
<1> QED BY <1>2, <1>3, <1>4, <1>5, <1>6 DEF NowHas

\* A thread in no call has nothing in the books.
LEMMA BlankStart ==
  ASSUME NEW st, NEW t \in FdThreads, st[t] = <<>>
  PROVE  Blank(t, KeptOf(st), ReleasingOf(st), AcquiringOf(st), SettingOf(st), UsingOf(st))
<1>1. Keeps(<<>>) = {} /\ Releases(<<>>) = {} /\ Acquires(<<>>) = {} /\ Sets(<<>>) = {} /\ Uses(<<>>) = {}
  BY NothingLeft DEF Books
<1> QED BY <1>1 DEF Blank, KeptOf, ReleasingOf, AcquiringOf, SettingOf, UsingOf

\* A call begins (BookCall).
LEMMA CallBegins ==
  ASSUME NEW o, NEW w, NEW h, NEW r, NEW v, NEW T, NEW st \in [FdThreads -> T],
         Accounts(o, w, h, r, v, st),
         NEW t \in FdThreads, st[t] = <<>>,
         NEW X, NEW Y, NEW Z, NEW P, NEW Q, NEW h2, NEW r2, NEW v2,
         TakesOver(t, X, Y, Z, P, Q, h, h2, r, r2, v, v2, UsingOf(st)),
         NEW q, Sums(q, X, Y, Z, P, Q), NEW st2, st2 = [st EXCEPT ![t] = q]
  PROVE  Accounts(o, w, h2, r2, v2, st2)
<1>1. PICK K, R, A, S, U :
        /\ K = KeptOf(st) /\ R = ReleasingOf(st) /\ A = AcquiringOf(st)
        /\ S = SettingOf(st) /\ U = UsingOf(st)
  OBVIOUS
<1>2. Fits(o, w, h, r, v, K, R, A, S, U)
  BY <1>1 DEF Accounts
<1>3. Blank(t, K, R, A, S, U)
  BY <1>1, BlankStart
<1>4. TakesOver(t, X, Y, Z, P, Q, h, h2, r, r2, v, v2, U)
  BY <1>1
<1>5. Fits(o, w, h2, r2, v2, Put(K, t, X), Put(R, t, Y), Put(A, t, Z), Put(S, t, P), Put(U, t, Q))
  BY <1>2, <1>3, <1>4, BookCall
<1>6. NowHas(st2, st, t, q)
  BY OneList
<1> QED BY <1>1, <1>5, <1>6 DEF Accounts, NowHas, Sums

\* What is in the accounts has its type.
LEMMA AccountTypes ==
  ASSUME NEW o, NEW w, NEW h, NEW r, NEW v, NEW st, Accounts(o, w, h, r, v, st)
  PROVE  /\ o \in SUBSET Fds /\ w \in [Fds -> BOOLEAN]
         /\ h \in [FdSlots -> AnyFd] /\ v \in [FdSlots -> AnyFd] /\ r \in [FdThreads -> AnyFd]
BY DEF Accounts, Fits, Fine, Entries

\* Two ScopedFDs that nobody uses hold different descriptors, and no thread has them.
LEMMA HeldApart ==
  ASSUME NEW o, NEW w, NEW h, NEW r, NEW v, NEW st, Accounts(o, w, h, r, v, st),
         NEW s \in FdSlots, h[s] # Invalid, \A u \in FdThreads : s \notin Uses(st[u])
  PROVE  /\ h[s] \in o
         /\ CanTrack(h[s]) => w[h[s]]
         /\ \A z \in FdSlots : (\A u \in FdThreads : z \notin Uses(st[u])) /\ h[z] = h[s] => z = s
         /\ \A t \in FdThreads : r[t] # h[s]
<1>1. PICK K, R, A, S, U :
        /\ K = KeptOf(st) /\ R = ReleasingOf(st) /\ A = AcquiringOf(st)
        /\ S = SettingOf(st) /\ U = UsingOf(st)
  OBVIOUS
<1>2. PICK own : Fine(own, o, w, h, r, v, K, R, A, S, U)
  BY <1>1 DEF Accounts, Fits
<1>3. /\ Entries(o, w, h, r, v, K, R, A, S, U)
      /\ Owned(own, o, h, r, v, K, S) /\ Pending(h, r, K, R, A, S, U) /\ Tabled(w, h, R, A, S)
  BY <1>2 DEF Fine
<1>4. \A z \in FdSlots : (\A u \in FdThreads : z \notin Uses(st[u])) => \A u \in FdThreads : z \notin U[u]
  BY <1>1 DEF UsingOf, Put
<1>5. \A z \in FdSlots : (\A u \in FdThreads : z \notin U[u]) =>
        Settled(S, z) /\ \A u \in FdThreads, fd \in Fds : <<z, fd>> \notin A[u]
  BY <1>3 DEF Pending, Settled
<1>6. h[s] \in Fds /\ h[s] \in o /\ own[h[s]] = HeldOf(s)
  BY <1>3, <1>4, <1>5 DEF Owned, Entries, AnyFd
<1>7. \A z \in FdSlots : (\A u \in FdThreads : z \notin Uses(st[u])) /\ h[z] = h[s] => z = s
  <2> SUFFICES ASSUME NEW z \in FdSlots, \A u \in FdThreads : z \notin Uses(st[u]), h[z] = h[s]
               PROVE  z = s
    OBVIOUS
  <2>1. own[h[s]] = HeldOf(z)
    BY <1>3, <1>4, <1>5 DEF Owned
  <2> QED BY <1>6, <2>1 DEF HeldOf
<1>8. \A t \in FdThreads : r[t] # h[s]
  BY <1>3, <1>6 DEF Owned, RawOf, HeldOf
<1>9. CanTrack(h[s]) => w[h[s]]
  <2>1. Entered(h[s], h, A, S)
    BY <1>4, <1>5, <1>6 DEF Entered
  <2> QED BY <1>3, <1>6, <2>1 DEF Tabled
<1> QED BY <1>6, <1>7, <1>8, <1>9

\* A thread, or the Receiver of s, gives fd up, and maybe others what they have.
GivesUp(t, s, fd, r, r2, v, v2) ==
  /\ r2 \in [FdThreads -> AnyFd] /\ v2 \in [FdSlots -> AnyFd]
  /\ \A u \in FdThreads : r2[u] = r[u] \/ (u = t /\ r2[u] = Invalid)
  /\ \A z \in FdSlots : v2[z] = v[z] \/ v2[z] = Invalid
  /\ fd # Invalid => (r[t] = fd /\ r2[t] = Invalid) \/ (v[s] = fd /\ v2[s] = Invalid)

\* reset() with a descriptor of the thread, or with none.
LEMMA ResetBegins ==
  ASSUME NEW o, NEW w, NEW h, NEW r, NEW v, NEW T, NEW st \in [FdThreads -> T],
         Accounts(o, w, h, r, v, st),
         NEW t \in FdThreads, st[t] = <<>>, NEW s \in FdSlots,
         \A u \in FdThreads : s \notin Uses(st[u]),
         NEW fd \in AnyFd, fd # Invalid => fd # h[s],
         NEW r2, NEW v2, GivesUp(t, s, fd, r, r2, v, v2),
         NEW q, q = ResetTo(s, h[s], fd), NEW st2, st2 = [st EXCEPT ![t] = q]
  PROVE  Accounts(o, w, h, r2, v2, st2) /\ Proper(q)
<1>14. /\ r2 \in [FdThreads -> AnyFd] /\ v2 \in [FdSlots -> AnyFd]
       /\ \A u \in FdThreads : r2[u] = r[u] \/ (u = t /\ r2[u] = Invalid)
       /\ \A z \in FdSlots : v2[z] = v[z] \/ v2[z] = Invalid
       /\ fd # Invalid => (r[t] = fd /\ r2[t] = Invalid) \/ (v[s] = fd /\ v2[s] = Invalid)
  BY DEF GivesUp
<1> USE <1>14
<1>1. h \in [FdSlots -> AnyFd] /\ Invalid \notin Fds
  BY AccountTypes DEF Fds, Invalid
<1>2. PICK X, Y, Z : /\ X = {h[s], fd} \ {Invalid} /\ Y = {h[s]} \ {Invalid}
                     /\ Z = IF fd = Invalid THEN {} ELSE {<<s, fd>>}
  OBVIOUS
<1>3. Books(q, X, Y, Z, {s}, {s})
  BY <1>1, <1>2, ResetList
<1>4. /\ X \in SUBSET Fds /\ Y \in SUBSET X /\ {s} \in SUBSET FdSlots /\ {s} \in SUBSET {s}
      /\ Z \in SUBSET ({s} \X X)
  BY <1>1, <1>2 DEF AnyFd
<1>5. \A z \in {s}, u \in FdThreads : z \notin Uses(st[u])
  OBVIOUS
<1>6. \A z \in FdSlots : h[z] = h[z] \/ (z \in {s} /\ h[z] = Invalid)
  OBVIOUS
<1>7. \A x \in X : \/ r[t] = x /\ r2[t] = Invalid
                   \/ \E z \in FdSlots : v[z] = x /\ v2[z] = Invalid
                   \/ \E z \in {s} : h[z] = x /\ (z \in {s} \/ h[z] = Invalid)
  BY <1>2
<1>8. \A x \in Fds : x \in Y <=> \E z \in {s} : h[z] = x /\ (z \in {s} \/ h[z] = Invalid)
  BY <1>1, <1>2
<1>9. Sums(q, X, Y, Z, {s}, {s}) /\ Proper(q)
  BY <1>3 DEF Books, Sums
<1>10. TakesOver(t, X, Y, Z, {s}, {s}, h, h, r, r2, v, v2, UsingOf(st))
  <2>1. \A z \in {s}, u \in FdThreads : z \notin UsingOf(st)[u]
    BY <1>5 DEF UsingOf
  <2> QED BY <1>1, <1>4, <1>6, <1>7, <1>8, <2>1 DEF TakesOver
<1>11. PICK G : G = {s}
  OBVIOUS
<1>12. TakesOver(t, X, Y, Z, G, G, h, h, r, r2, v, v2, UsingOf(st)) /\ Sums(q, X, Y, Z, G, G)
  BY <1>9, <1>10, <1>11
<1>13. Accounts(o, w, h, r2, v2, st2)
  <2>1. /\ st \in [FdThreads -> T] /\ Accounts(o, w, h, r, v, st) /\ t \in FdThreads
        /\ st[t] = <<>> /\ st2 = [st EXCEPT ![t] = q]
    OBVIOUS
  <2> QED BY ONLY <1>12, <2>1, CallBegins
<1> QED BY <1>9, <1>13

\* A move.
LEMMA MoveBegins ==
  ASSUME NEW o, NEW w, NEW h, NEW r, NEW v, NEW T, NEW st \in [FdThreads -> T],
         Accounts(o, w, h, r, v, st),
         NEW t \in FdThreads, st[t] = <<>>, NEW from \in FdSlots, NEW to \in FdSlots,
         \A u \in FdThreads : from \notin Uses(st[u]) /\ to \notin Uses(st[u]),
         NEW h2, h2 = [h EXCEPT ![from] = Invalid],
         NEW q, q = Tracks("release", from, h[from]) \o ResetTo(to, h2[to], h[from]),
         NEW st2, st2 = [st EXCEPT ![t] = q]
  PROVE  Accounts(o, w, h2, r, v, st2) /\ Proper(q)
<1>1. /\ h \in [FdSlots -> AnyFd] /\ Invalid \notin Fds /\ Invalid \in AnyFd
      /\ r \in [FdThreads -> AnyFd] /\ v \in [FdSlots -> AnyFd]
  BY AccountTypes DEF Fds, Invalid, AnyFd
<1>2. /\ h2 \in [FdSlots -> AnyFd] /\ h2[from] = Invalid
      /\ \A z \in FdSlots : z # from => h2[z] = h[z]
  BY <1>1
<1>3. h[from] # Invalid => h[from] # h2[to]
  BY <1>2, HeldApart
<1>4. PICK X, Z, Q : /\ X = {h2[to], h[from]} \ {Invalid}
                     /\ Z = IF h[from] = Invalid THEN {} ELSE {<<to, h[from]>>}
                     /\ Q = {to} \cup (IF h[from] = Invalid THEN {} ELSE {from})
  OBVIOUS
<1>5. Books(q, X, X, Z, {to}, Q)
  <2>1. PICK hf, old : hf = h[from] /\ old = h2[to]
    OBVIOUS
  <2>2. hf \in AnyFd /\ old \in AnyFd
    BY <1>1, <1>2, <2>1
  <2>3. Books(q, {old, hf} \ {Invalid}, {old, hf} \ {Invalid},
              IF hf = Invalid THEN {} ELSE {<<to, hf>>}, {to},
              {to} \cup (IF hf = Invalid THEN {} ELSE {from}))
    BY <1>3, <2>1, <2>2, MoveList
  <2> QED BY <1>4, <2>1, <2>3
<1>6. /\ X \in SUBSET Fds /\ X \in SUBSET X /\ Q \in SUBSET FdSlots /\ {to} \in SUBSET Q
      /\ Z \in SUBSET (Q \X X)
  BY <1>1, <1>2, <1>4 DEF AnyFd
<1>7. \A z \in Q, u \in FdThreads : z \notin Uses(st[u])
  BY <1>4
<1>8. \A z \in FdSlots : h2[z] = h[z] \/ (z \in Q /\ h2[z] = Invalid)
  BY <1>2, <1>4
<1>9. \A x \in X : \/ r[t] = x /\ r[t] = Invalid
                   \/ \E z \in FdSlots : v[z] = x /\ v[z] = Invalid
                   \/ \E z \in Q : h[z] = x /\ (z \in {to} \/ h2[z] = Invalid)
  BY <1>2, <1>4
<1>10. \A x \in Fds : x \in X <=> \E z \in Q : h[z] = x /\ (z \in {to} \/ h2[z] = Invalid)
  BY <1>1, <1>2, <1>4
<1>11. /\ \A u \in FdThreads : r[u] = r[u] \/ (u = t /\ r[u] = Invalid)
       /\ \A z \in FdSlots : v[z] = v[z] \/ v[z] = Invalid
  OBVIOUS
<1>12. Sums(q, X, X, Z, {to}, Q) /\ Proper(q)
  BY <1>5 DEF Books, Sums
<1>13. TakesOver(t, X, X, Z, {to}, Q, h, h2, r, r, v, v, UsingOf(st))
  <2>1. \A z \in Q, u \in FdThreads : z \notin UsingOf(st)[u]
    BY <1>7 DEF UsingOf
  <2> QED BY <1>1, <1>2, <1>6, <1>8, <1>9, <1>10, <1>11, <2>1 DEF TakesOver
<1>14. PICK G : G = {to}
  OBVIOUS
<1>15. TakesOver(t, X, X, Z, G, Q, h, h2, r, r, v, v, UsingOf(st)) /\ Sums(q, X, X, Z, G, Q)
  BY <1>12, <1>13, <1>14
<1>16. Accounts(o, w, h2, r, v, st2)
  <2>1. /\ st \in [FdThreads -> T] /\ Accounts(o, w, h, r, v, st) /\ t \in FdThreads
        /\ st[t] = <<>> /\ st2 = [st EXCEPT ![t] = q]
    OBVIOUS
  <2> QED BY ONLY <1>15, <2>1, CallBegins
<1> QED BY <1>12, <1>16

\* A call that takes at most the descriptor of the thread, to close it.
LEMMA CloseBegins ==
  ASSUME NEW o, NEW w, NEW h, NEW r, NEW v, NEW T, NEW st \in [FdThreads -> T],
         Accounts(o, w, h, r, v, st),
         NEW t \in FdThreads, st[t] = <<>>,
         NEW r2 \in [FdThreads -> AnyFd], NEW v2 \in [FdSlots -> AnyFd],
         \A u \in FdThreads : r2[u] = r[u] \/ (u = t /\ r2[u] = Invalid),
         \A z \in FdSlots : v2[z] = v[z] \/ v2[z] = Invalid,
         NEW X \in SUBSET Fds, \A x \in X : r[t] = x /\ r2[t] = Invalid,
         NEW q, Sums(q, X, {}, {}, {}, {}), NEW st2, st2 = [st EXCEPT ![t] = q]
  PROVE  Accounts(o, w, h, r2, v2, st2)
<1>1. h \in [FdSlots -> AnyFd]
  BY AccountTypes
<1>2. PICK E : E = {}
  OBVIOUS
<1>3. E \in SUBSET X /\ E \in SUBSET FdSlots /\ E \in SUBSET E /\ E \in SUBSET (E \X X)
  BY <1>2
<1>4. \A z \in E, u \in FdThreads : z \notin Uses(st[u])
  BY <1>2
<1>5. \A z \in FdSlots : h[z] = h[z] \/ (z \in E /\ h[z] = Invalid)
  OBVIOUS
<1>6. \A x \in X : \/ r[t] = x /\ r2[t] = Invalid
                   \/ \E z \in FdSlots : v[z] = x /\ v2[z] = Invalid
                   \/ \E z \in E : h[z] = x /\ (z \in E \/ h[z] = Invalid)
  OBVIOUS
<1>7. \A x \in Fds : x \in E <=> \E z \in E : h[z] = x /\ (z \in E \/ h[z] = Invalid)
  BY <1>2
<1>8. Sums(q, X, E, E, E, E)
  BY <1>2
<1>9. TakesOver(t, X, E, E, E, E, h, h, r, r2, v, v2, UsingOf(st))
  <2>1. \A z \in E, u \in FdThreads : z \notin UsingOf(st)[u]
    BY <1>2
  <2> QED BY <1>1, <1>3, <1>5, <1>6, <1>7, <2>1 DEF TakesOver
<1> QED BY <1>8, <1>9, CallBegins

\* release().
LEMMA ReleaseBegins ==
  ASSUME NEW o, NEW w, NEW h, NEW r, NEW v, NEW T, NEW st \in [FdThreads -> T],
         Accounts(o, w, h, r, v, st),
         NEW t \in FdThreads, st[t] = <<>>, r[t] = Invalid, NEW s \in FdSlots,
         \A u \in FdThreads : s \notin Uses(st[u]),
         NEW q, q = Tracks("release", s, h[s]), NEW st2, st2 = [st EXCEPT ![t] = q]
  PROVE  /\ Accounts(o, w, Put(h, s, Invalid), Put(r, t, h[s]), v, st2)
         /\ Proper(q)
<1>1. PICK K, R, A, S, U :
        /\ K = KeptOf(st) /\ R = ReleasingOf(st) /\ A = AcquiringOf(st)
        /\ S = SettingOf(st) /\ U = UsingOf(st)
  OBVIOUS
<1>2. Fits(o, w, h, r, v, K, R, A, S, U)
  BY <1>1 DEF Accounts
<1>3. Blank(t, K, R, A, S, U)
  BY <1>1, BlankStart
<1>4. \A u \in FdThreads : s \notin U[u]
  BY <1>1 DEF UsingOf, Put
<1>5. h[s] \in AnyFd
  BY AccountTypes
<1>6. PICK Q : Q = IF h[s] = Invalid THEN {} ELSE {s}
  OBVIOUS
<1>7. Books(q, {}, {h[s]} \ {Invalid}, {}, {}, Q)
  BY <1>5, <1>6, ReleaseList
<1>8. Q \in SUBSET {s}
  BY <1>6
<1>9. Fits(o, w, Put(h, s, Invalid), Put(r, t, h[s]), v, Put(K, t, {}),
           Put(R, t, {h[s]} \ {Invalid}), Put(A, t, {}), Put(S, t, {}), Put(U, t, Q))
  BY <1>2, <1>3, <1>4, <1>8, BookRelease
<1>10. NowHas(st2, st, t, q)
  BY OneList
<1> QED BY <1>1, <1>7, <1>9, <1>10 DEF Accounts, Books, NowHas

\* The books of st2 are those of st after the step x of t.
Advanced(st2, st, t, x) ==
  /\ KeptOf(st2) = IF x.name \in KeepNames THEN Put(KeptOf(st), t, KeptOf(st)[t] \ {x.fd})
                   ELSE KeptOf(st)
  /\ ReleasingOf(st2) = IF x.name = "release" THEN Put(ReleasingOf(st), t, ReleasingOf(st)[t] \ {x.fd})
                        ELSE ReleasingOf(st)
  /\ AcquiringOf(st2) = IF x.name = "acquire"
                        THEN Put(AcquiringOf(st), t, AcquiringOf(st)[t] \ {<<x.slot, x.fd>>})
                        ELSE AcquiringOf(st)
  /\ SettingOf(st2) = IF x.name = "set" THEN Put(SettingOf(st), t, SettingOf(st)[t] \ {x.slot})
                      ELSE SettingOf(st)

\* x is the next step of t, and st2 what is left of all calls after it.
Takes(t, x, st, st2) ==
  /\ t \in FdThreads /\ st \in [FdThreads -> Seq(StepType)]
  /\ Shape(st[t]) /\ st[t] # <<>> /\ x = Head(st[t])
  /\ st2 = [st EXCEPT ![t] = Tail(st[t])]

\* A step is taken.
LEMMA StepBooks ==
  ASSUME NEW t, NEW x, NEW st, NEW st2, Takes(t, x, st, st2)
  PROVE  Advanced(st2, st, t, x)
<1>1. PICK q, p : q = st[t] /\ p = Tail(q)
  OBVIOUS
<1>2. /\ t \in FdThreads /\ st \in [FdThreads -> Seq(StepType)]
      /\ Shape(q) /\ q # <<>> /\ x = Head(q) /\ st2 = [st EXCEPT ![t] = p]
  BY <1>1 DEF Takes
<1>3. NowHas(st2, st, t, p)
  BY <1>2, OneList
<1>4. /\ Keeps(p) = IF x.name \in KeepNames THEN Keeps(q) \ {x.fd} ELSE Keeps(q)
      /\ Releases(p) = IF x.name = "release" THEN Releases(q) \ {x.fd} ELSE Releases(q)
      /\ Acquires(p) = IF x.name = "acquire" THEN Acquires(q) \ {<<x.slot, x.fd>>} ELSE Acquires(q)
      /\ Sets(p) = IF x.name = "set" THEN Sets(q) \ {x.slot} ELSE Sets(q)
  BY <1>1, <1>2, TailSets
<1>5. /\ KeptOf(st)[t] = Keeps(q) /\ ReleasingOf(st)[t] = Releases(q)
      /\ AcquiringOf(st)[t] = Acquires(q) /\ SettingOf(st)[t] = Sets(q)
  BY <1>1, <1>2 DEF KeptOf, ReleasingOf, AcquiringOf, SettingOf
<1>6. /\ Put(KeptOf(st), t, Keeps(q)) = KeptOf(st)
      /\ Put(ReleasingOf(st), t, Releases(q)) = ReleasingOf(st)
      /\ Put(AcquiringOf(st), t, Acquires(q)) = AcquiringOf(st)
      /\ Put(SettingOf(st), t, Sets(q)) = SettingOf(st)
  BY <1>1, <1>2 DEF KeptOf, ReleasingOf, AcquiringOf, SettingOf, Put
<1>7. KeptOf(st2) = IF x.name \in KeepNames THEN Put(KeptOf(st), t, KeptOf(st)[t] \ {x.fd}) ELSE KeptOf(st)
  BY <1>3, <1>4, <1>5, <1>6 DEF NowHas
<1>8. ReleasingOf(st2) = IF x.name = "release" THEN Put(ReleasingOf(st), t, ReleasingOf(st)[t] \ {x.fd})
                         ELSE ReleasingOf(st)
  BY <1>3, <1>4, <1>5, <1>6 DEF NowHas
<1>9. AcquiringOf(st2) = IF x.name = "acquire"
                         THEN Put(AcquiringOf(st), t, AcquiringOf(st)[t] \ {<<x.slot, x.fd>>})
                         ELSE AcquiringOf(st)
  BY <1>3, <1>4, <1>5, <1>6 DEF NowHas
<1>10. SettingOf(st2) = IF x.name = "set" THEN Put(SettingOf(st), t, SettingOf(st)[t] \ {x.slot})
                        ELSE SettingOf(st)
  BY <1>3, <1>4, <1>5, <1>6 DEF NowHas
<1> QED BY <1>7, <1>8, <1>9, <1>10 DEF Advanced

\* What the call no longer uses is free again.
LEMMA StepFits ==
  ASSUME NEW o, NEW w, NEW h, NEW r, NEW v, NEW t, NEW x, NEW st, NEW st2, Takes(t, x, st, st2),
         Fits(o, w, h, r, v, KeptOf(st2), ReleasingOf(st2), AcquiringOf(st2), SettingOf(st2), UsingOf(st))
  PROVE  Accounts(o, w, h, r, v, st2)
<1>1. PICK q, p : q = st[t] /\ p = Tail(q)
  OBVIOUS
<1>2. /\ t \in FdThreads /\ st \in [FdThreads -> Seq(StepType)]
      /\ Shape(q) /\ q # <<>> /\ x = Head(q) /\ st2 = [st EXCEPT ![t] = p]
  BY <1>1 DEF Takes
<1>3. NowHas(st2, st, t, p)
  BY <1>2, OneList
<1>4. Shape(p) /\ Uses(p) \subseteq Uses(q)
  BY <1>1, <1>2, TailShape, TailSets
<1>5. /\ Sets(p) \subseteq Uses(p) /\ Uses(p) \in SUBSET FdSlots
      /\ \A a \in Acquires(p) : a[1] \in Uses(p)
  BY <1>4, SetTypes
<1>6. st2[t] = p
  BY <1>2
<1>7. PICK K, R, A, S, U : /\ K = KeptOf(st2) /\ R = ReleasingOf(st2) /\ A = AcquiringOf(st2)
                           /\ S = SettingOf(st2) /\ U = UsingOf(st)
  OBVIOUS
<1>8. A[t] = Acquires(p) /\ S[t] = Sets(p) /\ U[t] = Uses(q)
  BY <1>1, <1>2, <1>6, <1>7 DEF AcquiringOf, SettingOf, UsingOf
<1>9. \A s \in FdSlots, fd \in Fds : <<s, fd>> \in A[t] => s \in Uses(p)
  BY <1>5, <1>8
<1>10. Fits(o, w, h, r, v, K, R, A, S, U)
  BY <1>7
<1>11. Fits(o, w, h, r, v, K, R, A, S, Put(U, t, Uses(p)))
  BY <1>2, <1>4, <1>5, <1>8, <1>9, <1>10, BookUses
<1> QED BY <1>3, <1>7, <1>11 DEF Accounts, NowHas

\* UpdateAndCheckFdOwnership finds what it expects in the table.
LEMMA StepRelease ==
  ASSUME NEW o, NEW w, NEW h, NEW r, NEW v, NEW t, NEW x, NEW st, NEW st2, Takes(t, x, st, st2),
         Accounts(o, w, h, r, v, st), x.name = "release",
         NEW w2, w2 = IF CanTrack(x.fd) THEN [w EXCEPT ![x.fd] = FALSE] ELSE w
  PROVE  /\ CanTrack(x.fd) => w[x.fd]
         /\ Accounts(o, w2, h, r, v, st2)
<1>1. PICK K, R, A, S, U : /\ K = KeptOf(st) /\ R = ReleasingOf(st) /\ A = AcquiringOf(st)
                           /\ S = SettingOf(st) /\ U = UsingOf(st)
  OBVIOUS
<1>2. Fits(o, w, h, r, v, K, R, A, S, U) /\ t \in FdThreads
  BY <1>1 DEF Accounts, Takes
<1>3. x.fd \in Fds /\ x.fd \in R[t]
  <2>1. PICK q : q = st[t]
    OBVIOUS
  <2>2. Shape(q) /\ q # <<>> /\ x = Head(q)
    BY <2>1 DEF Takes
  <2>3. x.name # "set" => x.fd \in Fds
    BY <2>2, TailSets
  <2>4. x.name = "release" => x.fd \in Releases(q)
    BY <2>2, HeadFacts
  <2> QED BY <1>1, <1>2, <2>1, <2>3, <2>4 DEF ReleasingOf
<1>4. CanTrack(x.fd) => w[x.fd]
  BY <1>2, <1>3, BookCheck
<1>5. Fits(o, w2, h, r, v, K, Put(R, t, R[t] \ {x.fd}), A, S, U)
  BY <1>2, <1>3, BookFree
<1>6. /\ KeptOf(st2) = K /\ ReleasingOf(st2) = Put(R, t, R[t] \ {x.fd})
      /\ AcquiringOf(st2) = A /\ SettingOf(st2) = S
  <2>1. Advanced(st2, st, t, x)
    BY StepBooks
  <2> QED BY <1>1, <2>1 DEF Advanced, KeepNames
<1> QED BY <1>1, <1>4, <1>5, <1>6, StepFits

\* It finds nobody in the table when a ScopedFD gets a descriptor.
LEMMA StepAcquire ==
  ASSUME NEW o, NEW w, NEW h, NEW r, NEW v, NEW t, NEW x, NEW st, NEW st2, Takes(t, x, st, st2),
         Accounts(o, w, h, r, v, st), x.name = "acquire",
         NEW w2, w2 = IF CanTrack(x.fd) THEN [w EXCEPT ![x.fd] = TRUE] ELSE w
  PROVE  /\ CanTrack(x.fd) => ~w[x.fd]
         /\ Accounts(o, w2, h, r, v, st2)
<1>1. PICK K, R, A, S, U : /\ K = KeptOf(st) /\ R = ReleasingOf(st) /\ A = AcquiringOf(st)
                           /\ S = SettingOf(st) /\ U = UsingOf(st)
  OBVIOUS
<1>2. Fits(o, w, h, r, v, K, R, A, S, U) /\ t \in FdThreads
  BY <1>1 DEF Accounts, Takes
<1>3. PICK s, fd : s = x.slot /\ fd = x.fd
  OBVIOUS
<1>4. s \in FdSlots /\ fd \in Fds /\ <<s, fd>> \in A[t] /\ fd \notin K[t]
  <2>1. PICK q : q = st[t]
    OBVIOUS
  <2>2. Shape(q) /\ q # <<>> /\ x = Head(q)
    BY <2>1 DEF Takes
  <2>3. (x.name # "set" => x.fd \in Fds) /\ (x.name \in {"set", "acquire"} => x.slot \in FdSlots)
    BY <2>2, TailSets
  <2>4. x.name = "acquire" => <<x.slot, x.fd>> \in Acquires(q) /\ x.fd \notin Keeps(q)
    BY <2>2, HeadFacts
  <2> QED BY <1>1, <1>2, <1>3, <2>1, <2>3, <2>4 DEF AcquiringOf, KeptOf
<1>5. /\ CanTrack(fd) => ~w[fd]
      /\ Fits(o, w2, h, r, v, K, R, Put(A, t, A[t] \ {<<s, fd>>}), S, U)
  <2>1. w2 = IF CanTrack(fd) THEN [w EXCEPT ![fd] = TRUE] ELSE w
    BY <1>3
  <2> QED BY ONLY <1>2, <1>4, <2>1, BookAcquire
<1>6. /\ KeptOf(st2) = K /\ ReleasingOf(st2) = R
      /\ AcquiringOf(st2) = Put(A, t, A[t] \ {<<s, fd>>}) /\ SettingOf(st2) = S
  <2>1. Advanced(st2, st, t, x)
    BY StepBooks
  <2> QED BY <1>1, <1>3, <2>1 DEF Advanced, KeepNames
<1> QED BY <1>1, <1>3, <1>5, <1>6, StepFits

\* The hook of close() finds no owner.
LEMMA StepCheck ==
  ASSUME NEW o, NEW w, NEW h, NEW r, NEW v, NEW t, NEW x, NEW st, NEW st2, Takes(t, x, st, st2),
         Accounts(o, w, h, r, v, st), x.name = "check"
  PROVE  /\ CanTrack(x.fd) => ~w[x.fd]
         /\ Accounts(o, w, h, r, v, st2)
<1>1. PICK K, R, A, S, U : /\ K = KeptOf(st) /\ R = ReleasingOf(st) /\ A = AcquiringOf(st)
                           /\ S = SettingOf(st) /\ U = UsingOf(st)
  OBVIOUS
<1>2. Fits(o, w, h, r, v, K, R, A, S, U) /\ t \in FdThreads
  BY <1>1 DEF Accounts, Takes
<1>3. x.fd \in Fds /\ x.fd \in K[t] /\ x.fd \notin R[t]
  <2>1. PICK q : q = st[t]
    OBVIOUS
  <2>2. Shape(q) /\ q # <<>> /\ x = Head(q)
    BY <2>1 DEF Takes
  <2>3. x.name # "set" => x.fd \in Fds
    BY <2>2, TailSets
  <2>4. x.name = "check" => x.fd \in Keeps(q) /\ x.fd \notin Releases(q)
    BY <2>2, HeadFacts
  <2> QED BY <1>1, <1>2, <2>1, <2>3, <2>4 DEF ReleasingOf, KeptOf
<1>4. CanTrack(x.fd) => ~w[x.fd]
  BY <1>2, <1>3, BookCheck
<1>5. KeptOf(st2) = K /\ ReleasingOf(st2) = R /\ AcquiringOf(st2) = A /\ SettingOf(st2) = S
  <2>1. Advanced(st2, st, t, x)
    BY StepBooks
  <2> QED BY <1>1, <2>1 DEF Advanced, KeepNames
<1> QED BY <1>1, <1>2, <1>4, <1>5, StepFits

\* close() of libc finds the descriptor open.
LEMMA StepClose ==
  ASSUME NEW o, NEW w, NEW h, NEW r, NEW v, NEW t, NEW x, NEW st, NEW st2, Takes(t, x, st, st2),
         Accounts(o, w, h, r, v, st), x.name = "libc_close"
  PROVE  x.fd \in o /\ Accounts(o \ {x.fd}, w, h, r, v, st2)
<1>1. PICK K, R, A, S, U : /\ K = KeptOf(st) /\ R = ReleasingOf(st) /\ A = AcquiringOf(st)
                           /\ S = SettingOf(st) /\ U = UsingOf(st)
  OBVIOUS
<1>2. Fits(o, w, h, r, v, K, R, A, S, U) /\ t \in FdThreads
  BY <1>1 DEF Accounts, Takes
<1>3. PICK fd : fd = x.fd
  OBVIOUS
<1>4. fd \in Fds /\ fd \in K[t] /\ fd \notin R[t] /\ \A s \in FdSlots : <<s, fd>> \notin A[t]
  <2>1. PICK q : q = st[t]
    OBVIOUS
  <2>2. Shape(q) /\ q # <<>> /\ x = Head(q)
    BY <2>1 DEF Takes
  <2>3. x.name # "set" => x.fd \in Fds
    BY <2>2, TailSets
  <2>4. /\ x.name \in KeepNames /\ x.fd # Invalid => x.fd \in Keeps(q) /\ x.fd \notin Releases(q)
        /\ x.name = "libc_close" => \A a \in Acquires(q) : a[2] # x.fd
    BY <2>2, HeadFacts
  <2>5. x.fd \in Fds /\ x.fd # Invalid /\ x.name \in KeepNames
    BY <2>3 DEF Fds, Invalid, KeepNames
  <2> QED BY <1>1, <1>2, <1>3, <2>1, <2>4, <2>5 DEF ReleasingOf, KeptOf, AcquiringOf
<1>5. fd \in o
  BY <1>2, <1>4, BookCheck
<1>6. Fits(o \ {fd}, w, h, r, v, Put(K, t, K[t] \ {fd}), R, A, S, U)
  BY ONLY <1>2, <1>4, BookClose
<1>7. /\ KeptOf(st2) = Put(K, t, K[t] \ {fd}) /\ ReleasingOf(st2) = R
      /\ AcquiringOf(st2) = A /\ SettingOf(st2) = S
  <2>1. Advanced(st2, st, t, x)
    BY StepBooks
  <2> QED BY <1>1, <1>3, <2>1 DEF Advanced, KeepNames
<1> QED BY <1>1, <1>3, <1>5, <1>6, <1>7, StepFits

\* The ScopedFD has its new descriptor.
LEMMA StepSet ==
  ASSUME NEW o, NEW w, NEW h, NEW r, NEW v, NEW t, NEW x, NEW st, NEW st2, Takes(t, x, st, st2),
         Accounts(o, w, h, r, v, st), x.name = "set",
         NEW h2, h2 = [h EXCEPT ![x.slot] = x.fd]
  PROVE  Accounts(o, w, h2, r, v, st2)
<1>1. PICK K, R, A, S, U : /\ K = KeptOf(st) /\ R = ReleasingOf(st) /\ A = AcquiringOf(st)
                           /\ S = SettingOf(st) /\ U = UsingOf(st)
  OBVIOUS
<1>2. Fits(o, w, h, r, v, K, R, A, S, U) /\ t \in FdThreads
  BY <1>1 DEF Accounts, Takes
<1>3. PICK s, fd : s = x.slot /\ fd = x.fd
  OBVIOUS
<1>4. /\ s \in FdSlots /\ s \in S[t] /\ fd \in AnyFd
      /\ fd # Invalid => fd \in K[t] /\ fd \notin R[t] /\ <<s, fd>> \in A[t]
      /\ \A z \in FdSlots : fd # Invalid /\ <<z, fd>> \in A[t] => z = s
  <2>1. PICK q : q = st[t]
    OBVIOUS
  <2>2. Shape(q) /\ q # <<>> /\ x = Head(q)
    BY <2>1 DEF Takes
  <2>3. x \in StepType /\ x.slot \in FdSlots
    BY <2>2, TailSets
  <2>4. /\ x.name \in KeepNames /\ x.fd # Invalid => x.fd \in Keeps(q) /\ x.fd \notin Releases(q)
        /\ x.name = "set" => x.slot \in Sets(q)
        /\ x.name = "set" /\ x.fd # Invalid =>
             <<x.slot, x.fd>> \in Acquires(q) /\ \A a \in Acquires(q) : a[2] = x.fd => a[1] = x.slot
    BY <2>2, HeadFacts
  <2>5. x.fd \in AnyFd /\ x.name \in KeepNames
    BY <2>3 DEF StepType, KeepNames
  <2>6. K[t] = Keeps(q) /\ R[t] = Releases(q) /\ A[t] = Acquires(q) /\ S[t] = Sets(q)
    BY <1>1, <1>2, <2>1 DEF ReleasingOf, KeptOf, AcquiringOf, SettingOf
  <2>7. \A z \in FdSlots : fd # Invalid /\ <<z, fd>> \in A[t] => z = s
    BY <1>3, <2>4, <2>6
  <2> QED BY <1>3, <2>3, <2>4, <2>5, <2>6, <2>7
<1>5. Fits(o, w, Put(h, s, fd), r, v, Put(K, t, K[t] \ {fd}), R, A, Put(S, t, S[t] \ {s}), U)
  BY ONLY <1>2, <1>4, BookSet
<1>6. /\ KeptOf(st2) = Put(K, t, K[t] \ {fd}) /\ ReleasingOf(st2) = R
      /\ AcquiringOf(st2) = A /\ SettingOf(st2) = Put(S, t, S[t] \ {s})
  <2>1. Advanced(st2, st, t, x)
    BY StepBooks
  <2> QED BY <1>1, <1>3, <2>1 DEF Advanced, KeepNames
<1>7. h2 = Put(h, s, fd)
  BY <1>3 DEF Put
<1> QED BY <1>1, <1>5, <1>6, <1>7, StepFits

-----------------------------------------------------------------------------
(* The invariant                                                           *)

FdTypeOK ==
  /\ open \in SUBSET Fds /\ owned \in [Fds -> BOOLEAN] /\ enforced \in BOOLEAN
  /\ held \in [FdSlots -> AnyFd] /\ receiving \in [FdSlots -> BOOLEAN]
  /\ raw \in [FdThreads -> AnyFd] /\ value \in [FdSlots -> AnyFd]
  /\ steps \in [FdThreads -> Seq(StepType)] /\ strays \in 0..Strays /\ slipped \in BOOLEAN
  /\ child \in FdThreads \cup {Invalid} /\ crashed \in BOOLEAN

\* The lists of all calls are in order, and a program that has closed nothing that
\* is not its own has no stray step in them.
InOrder == \A t \in FdThreads : Shape(steps[t]) /\ Strayless(steps[t])
NoneStrayed == strays = Strays => ~slipped /\ \A t \in FdThreads : NoStray(steps[t])

\* In the parent the accounts can be kept.  The child of a fork closes what is
\* open, and its table is empty.
Ledger == Accounts(open, owned, held, raw, value, steps)
ChildCloses ==
  /\ owned = ResetFDOwnership
  /\ \A i \in DOMAIN steps[child] : steps[child][i].name \in {"check", "libc_close"}
  /\ Keeps(steps[child]) \subseteq open
Balanced ==
  ~slipped /\ ~crashed =>
    /\ InOrder
    /\ child = Invalid => Ledger
    /\ child # Invalid => ChildCloses

FdInv == FdTypeOK /\ NoneStrayed /\ Balanced /\ OnlyStraysCrash

\* Nobody has anything.
LEMMA FdStarts ==
  ASSUME FdInit
  PROVE  FdInv
<1>1. PICK x : x = <<"nobody", Invalid>>
  OBVIOUS
<1>2. x \in Places
  BY <1>1 DEF Places
<1>3. PICK own : own = [fd \in Fds |-> x]
  OBVIOUS
<1>4. \A t \in FdThreads : Blank(t, KeptOf(steps), ReleasingOf(steps), AcquiringOf(steps),
                                 SettingOf(steps), UsingOf(steps))
  BY BlankStart DEF FdInit
<1>5. PICK K, R, A, S, U :
        /\ K = KeptOf(steps) /\ R = ReleasingOf(steps) /\ A = AcquiringOf(steps)
        /\ S = SettingOf(steps) /\ U = UsingOf(steps)
  OBVIOUS
<1>6. \A t \in FdThreads : K[t] = {} /\ R[t] = {} /\ A[t] = {} /\ S[t] = {} /\ U[t] = {}
  BY <1>4, <1>5 DEF Blank
<1>7. Entries(open, owned, held, raw, value, K, R, A, S, U)
  <2>1. /\ K = [t \in FdThreads |-> K[t]] /\ R = [t \in FdThreads |-> R[t]]
        /\ A = [t \in FdThreads |-> A[t]] /\ S = [t \in FdThreads |-> S[t]]
        /\ U = [t \in FdThreads |-> U[t]]
    BY <1>5 DEF KeptOf, ReleasingOf, AcquiringOf, SettingOf, UsingOf
  <2>2. /\ K \in [FdThreads -> SUBSET Fds] /\ R \in [FdThreads -> SUBSET Fds]
        /\ A \in [FdThreads -> SUBSET (FdSlots \X Fds)]
        /\ S \in [FdThreads -> SUBSET FdSlots] /\ U \in [FdThreads -> SUBSET FdSlots]
    BY <1>6, <2>1
  <2> QED BY <2>2 DEF Entries, FdInit, AnyFd
<1>8. Owned(own, open, held, raw, value, K, S)
  BY <1>2, <1>3, <1>6 DEF Owned, FdInit
<1>9. Pending(held, raw, K, R, A, S, U)
  BY <1>6 DEF Pending
<1>10. Tabled(owned, held, R, A, S)
  <2>1. \A fd \in Fds : fd # Invalid
    BY DEF Fds, Invalid
  <2>2. \A fd \in Fds : owned[fd] = FALSE /\ \A s \in FdSlots : held[s] # fd
    BY <2>1 DEF FdInit
  <2> QED BY <1>6, <2>2 DEF Tabled, Entered
<1>11. Ledger
  BY <1>5, <1>7, <1>8, <1>9, <1>10 DEF Ledger, Accounts, Fits, Fine
<1>12. Shape(<<>>) /\ NoStray(<<>>) /\ Strayless(<<>>)
  BY NothingLeft DEF Books, Proper, Strayless
<1>13. FdTypeOK
  <2>1. strays \in 0..Strays
    BY FdAssumption DEF FdInit
  <2>2. steps \in [FdThreads -> Seq(StepType)]
    BY DEF FdInit
  <2> QED BY <2>1, <2>2 DEF FdTypeOK, FdInit, AnyFd
<1> QED BY <1>11, <1>12, <1>13 DEF FdInv, NoneStrayed, Balanced, OnlyStraysCrash, InOrder, FdInit

-----------------------------------------------------------------------------
(* Calls                                                                   *)

\* A list without a stray step has no half of a stray close() either.
LEMMA NoStrayIsStrayless ==
  ASSUME NEW q, NoStray(q)
  PROVE  Strayless(q)
BY DEF NoStray, Strayless, StrayNames

\* Nobody is in a call that uses an idle ScopedFD.
LEMMA IdleIsFree ==
  ASSUME NEW s, Idle(s)
  PROVE  \A u \in FdThreads : s \notin Uses(steps[u])
BY DEF Idle, Uses

\* What is to be shown of a call: the types, and that it begins with a list in
\* order and with the accounts kept.
LEMMA CallKeeps ==
  ASSUME FdInv, ~crashed, FdTypeOK', NEW t \in FdThreads, NEW q,
         steps' = [steps EXCEPT ![t] = q],
         child = Invalid, UNCHANGED <<strays, slipped, child, crashed>>,
         ~slipped => Proper(q) /\ Accounts(open', owned', held', raw', value', steps')
  PROVE  FdInv'
<1>1. steps \in [FdThreads -> Seq(StepType)]
  BY DEF FdInv, FdTypeOK
<1>2. \A u \in FdThreads : steps'[u] = IF u = t THEN q ELSE steps[u]
  BY <1>1
<1>3. ASSUME ~slipped PROVE Shape(q) /\ NoStray(q) /\ Strayless(q)
  BY <1>3, NoStrayIsStrayless DEF Proper
<1>4. NoneStrayed'
  BY <1>2, <1>3 DEF NoneStrayed, FdInv
<1>5. ASSUME ~slipped PROVE InOrder'
  BY <1>2, <1>3, <1>5 DEF InOrder, FdInv, Balanced
<1>6. Balanced'
  BY <1>5 DEF Balanced, Ledger
<1>7. OnlyStraysCrash'
  BY DEF OnlyStraysCrash
<1> QED BY <1>4, <1>6, <1>7 DEF FdInv

\* What a call may rely on.
LEMMA CallFinds ==
  ASSUME FdInv, ~crashed, NEW t \in FdThreads, MayCall(t)
  PROVE  /\ FdTypeOK /\ child = Invalid /\ steps[t] = <<>>
         /\ steps \in [FdThreads -> Seq(StepType)]
         /\ ~slipped => Accounts(open, owned, held, raw, value, steps)
BY DEF FdInv, MayCall, Balanced, Ledger, FdTypeOK

\* The lists of the other calls stay as they are.
LEMMA SameList ==
  ASSUME NEW T, NEW st \in [FdThreads -> T], NEW t \in FdThreads, st[t] = <<>>
  PROVE  st = [st EXCEPT ![t] = <<>>] /\ Proper(<<>>)
BY NothingLeft DEF Books

\* A nonempty set of descriptors has a lowest one.
LEMMA LowestFd ==
  ASSUME NEW S \in SUBSET Nat, S # {}
  PROVE  Min(S) \in S
<1> DEFINE R == OpToRel(<, Nat)
<1>1. IsWellFoundedOn(R, Nat)
  BY NatLessThanWellFounded
<1>2. PICK m \in S : \A n \in S : ~(<<n, m>> \in R)
  <2> HIDE DEF R
  <2> QED BY <1>1, WFMin
<1>3. \A n \in S : ~(n < m)
  BY <1>2 DEF OpToRel
<1> HIDE DEF R
<1>4. m \in Nat
  BY <1>2
<1>5. \A n \in S : m <= n
  BY <1>3, <1>4
<1> QED BY <1>2, <1>5 DEF Min

\* open() gives a descriptor that nobody has.
LEMMA OpenKeeps ==
  ASSUME FdInv, ~crashed, NEW t \in FdThreads, OpenFd(t)
  PROVE  FdInv'
<1>1. MayCall(t)
  BY DEF OpenFd
<1>2. FdTypeOK /\ child = Invalid /\ steps[t] = <<>> /\ steps \in [FdThreads -> Seq(StepType)]
  BY <1>1, CallFinds
<1>3. PICK fd : fd = Min(Fds \ open)
  OBVIOUS
<1>4. fd \in Fds /\ fd \notin open
  <2>1. PICK S : S = Fds \ open
    OBVIOUS
  <2>2. S # {} /\ S \in SUBSET Nat
    <3>1. open \subseteq Fds /\ open # Fds
      BY <1>2 DEF OpenFd, FdTypeOK
    <3>2. Fds \subseteq Nat
      BY DEF Fds
    <3> QED BY <2>1, <3>1, <3>2
  <2> QED BY <1>3, <2>1, <2>2, LowestFd
<1>5. /\ open' = open \cup {fd} /\ raw' = [raw EXCEPT ![t] = fd] /\ raw[t] = Invalid
      /\ UNCHANGED <<owned, enforced, held, receiving, value, steps, fdGhosts, crashed>>
  BY <1>3 DEF OpenFd
<1>6. FdTypeOK'
  BY <1>2, <1>4, <1>5 DEF FdTypeOK, AnyFd, fdGhosts
<1>7. steps' = [steps EXCEPT ![t] = <<>>] /\ Proper(<<>>)
  BY <1>2, <1>5, SameList
<1>8. ASSUME ~slipped PROVE Accounts(open', owned', held', raw', value', steps')
  <2>1. Accounts(open, owned, held, raw, value, steps)
    BY <1>1, <1>8, CallFinds
  <2>2. raw' = Put(raw, t, fd)
    BY <1>5 DEF Put
  <2>3. Accounts(open \cup {fd}, owned, held, Put(raw, t, fd), value, steps)
    BY <1>4, <1>5, <2>1, BookOpen DEF Accounts
  <2> QED BY <1>5, <2>2, <2>3
<1> QED BY <1>2, <1>5, <1>6, <1>7, <1>8, CallKeeps DEF fdGhosts

\* reset() with the descriptor of the thread, or with none.
LEMMA ResetKeeps ==
  ASSUME FdInv, ~crashed, NEW t \in FdThreads, NEW s \in FdSlots, ResetFd(t, s)
  PROVE  FdInv'
<1>1. MayCall(t) /\ Idle(s)
  BY DEF ResetFd
<1>2. FdTypeOK /\ child = Invalid /\ steps[t] = <<>> /\ steps \in [FdThreads -> Seq(StepType)]
  BY <1>1, CallFinds
<1>3. PICK fd \in {raw[t], Invalid} :
        /\ fd # Invalid => held[s] # fd
        /\ steps' = [steps EXCEPT ![t] = ResetTo(s, held[s], fd)]
        /\ raw' = [raw EXCEPT ![t] = IF fd = Invalid THEN @ ELSE Invalid]
        /\ UNCHANGED <<fdTables, held, receiving, value, fdGhosts, crashed>>
  BY DEF ResetFd
<1>4. PICK q : q = ResetTo(s, held[s], fd)
  OBVIOUS
<1>5. held[s] \in AnyFd /\ fd \in AnyFd /\ Invalid \in AnyFd
  BY <1>2, <1>3 DEF FdTypeOK, AnyFd
<1>6. q \in Seq(StepType)
  BY <1>4, <1>5, ListTypes
<1>7. FdTypeOK'
  BY <1>2, <1>3, <1>4, <1>5, <1>6 DEF FdTypeOK, fdTables, fdGhosts
<1>8. ASSUME ~slipped PROVE Proper(q) /\ Accounts(open', owned', held', raw', value', steps')
  <2>1. Accounts(open, owned, held, raw, value, steps)
    BY <1>1, <1>8, CallFinds
  <2>2. \A u \in FdThreads : s \notin Uses(steps[u])
    BY <1>1, IdleIsFree
  <2>3. GivesUp(t, s, fd, raw, raw', value, value')
    BY <1>2, <1>3, <1>7 DEF FdTypeOK, GivesUp
  <2>4. Accounts(open, owned, held, raw', value', steps') /\ Proper(q)
    <3>1. /\ steps \in [FdThreads -> Seq(StepType)] /\ t \in FdThreads /\ s \in FdSlots
          /\ steps[t] = <<>> /\ fd \in AnyFd
          /\ fd # Invalid => fd # held[s]
          /\ q = ResetTo(s, held[s], fd) /\ steps' = [steps EXCEPT ![t] = q]
      BY <1>2, <1>3, <1>4, <1>5
    <3> QED BY ONLY <2>1, <2>2, <2>3, <3>1, ResetBegins
  <2> QED BY <1>3, <2>4 DEF fdTables
<1>9. steps' = [steps EXCEPT ![t] = q]
  BY <1>3, <1>4
<1> QED BY <1>2, <1>3, <1>7, <1>8, <1>9, CallKeeps DEF fdGhosts

\* The end of a Receiver.
LEMMA ReceivedKeeps ==
  ASSUME FdInv, ~crashed, NEW t \in FdThreads, NEW s \in FdSlots, Received(t, s)
  PROVE  FdInv'
<1>1. MayCall(t) /\ Idle(s)
  BY DEF Received
<1>2. FdTypeOK /\ child = Invalid /\ steps[t] = <<>> /\ steps \in [FdThreads -> Seq(StepType)]
  BY <1>1, CallFinds
<1>3. PICK fd : fd = value[s]
  OBVIOUS
<1>4. /\ fd # Invalid => fd # held[s]
      /\ steps' = [steps EXCEPT ![t] = ResetTo(s, held[s], fd)]
      /\ receiving' = [receiving EXCEPT ![s] = FALSE]
      /\ value' = [value EXCEPT ![s] = Invalid]
      /\ UNCHANGED <<fdTables, held, raw, fdGhosts, crashed>>
  BY <1>3 DEF Received
<1>5. PICK q : q = ResetTo(s, held[s], fd)
  OBVIOUS
<1>6. held[s] \in AnyFd /\ fd \in AnyFd /\ Invalid \in AnyFd
  BY <1>2, <1>3 DEF FdTypeOK, AnyFd
<1>7. q \in Seq(StepType)
  BY <1>5, <1>6, ListTypes
<1>8. FdTypeOK'
  BY <1>2, <1>4, <1>5, <1>6, <1>7 DEF FdTypeOK, fdTables, fdGhosts
<1>9. ASSUME ~slipped PROVE Proper(q) /\ Accounts(open', owned', held', raw', value', steps')
  <2>1. Accounts(open, owned, held, raw, value, steps)
    BY <1>1, <1>9, CallFinds
  <2>2. \A u \in FdThreads : s \notin Uses(steps[u])
    BY <1>1, IdleIsFree
  <2>3. GivesUp(t, s, fd, raw, raw', value, value')
    BY <1>2, <1>3, <1>4, <1>8 DEF FdTypeOK, GivesUp
  <2>4. Accounts(open, owned, held, raw', value', steps') /\ Proper(q)
    <3>1. /\ steps \in [FdThreads -> Seq(StepType)] /\ t \in FdThreads /\ s \in FdSlots
          /\ steps[t] = <<>> /\ fd \in AnyFd
          /\ fd # Invalid => fd # held[s]
          /\ q = ResetTo(s, held[s], fd) /\ steps' = [steps EXCEPT ![t] = q]
      BY <1>2, <1>4, <1>5, <1>6
    <3> QED BY ONLY <2>1, <2>2, <2>3, <3>1, ResetBegins
  <2> QED BY <1>4, <2>4 DEF fdTables
<1>10. steps' = [steps EXCEPT ![t] = q]
  BY <1>4, <1>5
<1> QED BY <1>2, <1>4, <1>8, <1>9, <1>10, CallKeeps DEF fdGhosts

\* release().
LEMMA ReleaseKeeps ==
  ASSUME FdInv, ~crashed, NEW t \in FdThreads, NEW s \in FdSlots, ReleaseFd(t, s)
  PROVE  FdInv'
<1>1. MayCall(t) /\ Idle(s)
  BY DEF ReleaseFd
<1>2. FdTypeOK /\ child = Invalid /\ steps[t] = <<>> /\ steps \in [FdThreads -> Seq(StepType)]
  BY <1>1, CallFinds
<1>3. PICK q : q = Tracks("release", s, held[s])
  OBVIOUS
<1>4. /\ raw[t] = Invalid /\ held' = [held EXCEPT ![s] = Invalid]
      /\ raw' = [raw EXCEPT ![t] = held[s]] /\ steps' = [steps EXCEPT ![t] = q]
      /\ UNCHANGED <<fdTables, receiving, value, fdGhosts, crashed>>
  BY <1>3 DEF ReleaseFd
<1>5. held[s] \in AnyFd /\ Invalid \in AnyFd
  BY <1>2 DEF FdTypeOK, AnyFd
<1>6. q \in Seq(StepType)
  BY <1>3, <1>5, ListTypes
<1>7. FdTypeOK'
  BY <1>2, <1>4, <1>5, <1>6 DEF FdTypeOK, fdTables, fdGhosts
<1>8. ASSUME ~slipped PROVE Proper(q) /\ Accounts(open', owned', held', raw', value', steps')
  <2>1. Accounts(open, owned, held, raw, value, steps)
    BY <1>1, <1>8, CallFinds
  <2>2. \A u \in FdThreads : s \notin Uses(steps[u])
    BY <1>1, IdleIsFree
  <2>3. held' = Put(held, s, Invalid) /\ raw' = Put(raw, t, held[s])
    BY <1>4 DEF Put
  <2>4. Accounts(open, owned, Put(held, s, Invalid), Put(raw, t, held[s]), value, steps') /\ Proper(q)
    BY <1>2, <1>3, <1>4, <2>1, <2>2, ReleaseBegins
  <2> QED BY <1>4, <2>3, <2>4 DEF fdTables
<1> QED BY <1>2, <1>4, <1>7, <1>8, CallKeeps DEF fdGhosts

\* A move.
LEMMA MoveKeeps ==
  ASSUME FdInv, ~crashed, NEW t \in FdThreads, NEW from \in FdSlots, NEW to \in FdSlots,
         MoveFd(t, from, to)
  PROVE  FdInv'
<1>1. MayCall(t) /\ Idle(from) /\ Idle(to)
  BY DEF MoveFd
<1>2. FdTypeOK /\ child = Invalid /\ steps[t] = <<>> /\ steps \in [FdThreads -> Seq(StepType)]
  BY <1>1, CallFinds
<1>3. PICK q : q = Tracks("release", from, held[from]) \o ResetTo(to, held'[to], held[from])
  OBVIOUS
<1>4. /\ held' = [held EXCEPT ![from] = Invalid] /\ steps' = [steps EXCEPT ![t] = q]
      /\ UNCHANGED <<fdTables, receiving, raw, value, fdGhosts, crashed>>
  BY <1>3 DEF MoveFd
<1>5. held' \in [FdSlots -> AnyFd] /\ held[from] \in AnyFd /\ held'[to] \in AnyFd
  <2>1. held \in [FdSlots -> AnyFd] /\ Invalid \in AnyFd
    BY <1>2 DEF FdTypeOK, AnyFd
  <2> QED BY <1>4, <2>1
<1>6. q \in Seq(StepType)
  BY <1>3, <1>5, ListTypes
<1>7. FdTypeOK'
  BY <1>2, <1>4, <1>5, <1>6 DEF FdTypeOK, fdTables, fdGhosts
<1>8. ASSUME ~slipped PROVE Proper(q) /\ Accounts(open', owned', held', raw', value', steps')
  <2>1. Accounts(open, owned, held, raw, value, steps)
    BY <1>1, <1>8, CallFinds
  <2>2. \A u \in FdThreads : from \notin Uses(steps[u]) /\ to \notin Uses(steps[u])
    BY <1>1, IdleIsFree
  <2>3. Accounts(open, owned, held', raw, value, steps') /\ Proper(q)
    BY <1>2, <1>3, <1>4, <2>1, <2>2, MoveBegins
  <2> QED BY <1>4, <2>3 DEF fdTables
<1> QED BY <1>2, <1>4, <1>7, <1>8, CallKeeps DEF fdGhosts

\* A Receiver is made: a value that an earlier one left is forgotten.
LEMMA ReceiveKeeps ==
  ASSUME FdInv, ~crashed, NEW t \in FdThreads, NEW s \in FdSlots, Receive(t, s)
  PROVE  FdInv'
<1>1. MayCall(t)
  BY DEF Receive
<1>2. FdTypeOK /\ child = Invalid /\ steps[t] = <<>> /\ steps \in [FdThreads -> Seq(StepType)]
  BY <1>1, CallFinds
<1>3. /\ receiving' = [receiving EXCEPT ![s] = TRUE] /\ value' = [value EXCEPT ![s] = Invalid]
      /\ UNCHANGED <<fdTables, held, raw, steps, fdGhosts, crashed>>
  BY DEF Receive
<1>4. FdTypeOK'
  BY <1>2, <1>3 DEF FdTypeOK, fdTables, fdGhosts, AnyFd
<1>5. PICK q : q = <<>>
  OBVIOUS
<1>6. steps' = [steps EXCEPT ![t] = q] /\ Proper(q)
  BY <1>2, <1>3, <1>5, SameList
<1>7. ASSUME ~slipped PROVE Accounts(open', owned', held', raw', value', steps')
  <2>1. Accounts(open, owned, held, raw, value, steps)
    BY <1>1, <1>7, CallFinds
  <2>2. PICK X : X = {}
    OBVIOUS
  <2>3. Sums(q, X, {}, {}, {}, {})
    BY <1>5, <2>2, NothingLeft DEF Sums, Books
  <2>4. /\ raw \in [FdThreads -> AnyFd] /\ value' \in [FdSlots -> AnyFd]
        /\ \A u \in FdThreads : raw[u] = raw[u] \/ (u = t /\ raw[u] = Invalid)
        /\ \A z \in FdSlots : value'[z] = value[z] \/ value'[z] = Invalid
        /\ X \in SUBSET Fds /\ \A x \in X : raw[t] = x /\ raw[t] = Invalid
    BY <1>2, <1>3, <1>4, <2>2 DEF FdTypeOK
  <2>5. Accounts(open, owned, held, raw, value', steps')
    BY <1>2, <1>6, <2>1, <2>3, <2>4, CloseBegins
  <2> QED BY <1>3, <2>5 DEF fdTables
<1> QED BY <1>2, <1>3, <1>4, <1>6, <1>7, CallKeeps DEF fdGhosts

\* A Receiver gets the descriptor of the thread.
LEMMA GetKeeps ==
  ASSUME FdInv, ~crashed, NEW t \in FdThreads, NEW s \in FdSlots, Get(t, s)
  PROVE  FdInv'
<1>1. MayCall(t)
  BY DEF Get
<1>2. FdTypeOK /\ child = Invalid /\ steps[t] = <<>> /\ steps \in [FdThreads -> Seq(StepType)]
  BY <1>1, CallFinds
<1>3. /\ raw[t] # Invalid
      /\ value' = [value EXCEPT ![s] = raw[t]] /\ raw' = [raw EXCEPT ![t] = Invalid]
      /\ UNCHANGED <<fdTables, held, receiving, steps, fdGhosts, crashed>>
  BY DEF Get
<1>4. FdTypeOK'
  BY <1>2, <1>3 DEF FdTypeOK, fdTables, fdGhosts, AnyFd
<1>5. steps' = [steps EXCEPT ![t] = <<>>] /\ Proper(<<>>)
  BY <1>2, <1>3, SameList
<1>6. ASSUME ~slipped PROVE Accounts(open', owned', held', raw', value', steps')
  <2>1. Accounts(open, owned, held, raw, value, steps)
    BY <1>1, <1>6, CallFinds
  <2>2. Blank(t, KeptOf(steps), ReleasingOf(steps), AcquiringOf(steps), SettingOf(steps), UsingOf(steps))
    BY <1>2, BlankStart
  <2>3. raw' = Put(raw, t, Invalid) /\ value' = Put(value, s, raw[t])
    BY <1>3 DEF Put
  <2>4. Accounts(open, owned, held, Put(raw, t, Invalid), Put(value, s, raw[t]), steps)
    BY <1>3, <2>1, <2>2, BookGet DEF Accounts
  <2> QED BY <1>3, <2>3, <2>4 DEF fdTables
<1> QED BY <1>2, <1>3, <1>4, <1>5, <1>6, CallKeeps DEF fdGhosts

\* close() of the thread's own descriptor.
LEMMA CloseRawKeeps ==
  ASSUME FdInv, ~crashed, NEW t \in FdThreads, CloseRaw(t)
  PROVE  FdInv'
<1>1. MayCall(t)
  BY DEF CloseRaw
<1>2. FdTypeOK /\ child = Invalid /\ steps[t] = <<>> /\ steps \in [FdThreads -> Seq(StepType)]
  BY <1>1, CallFinds
<1>3. PICK q : q = Close(Invalid, raw[t])
  OBVIOUS
<1>4. /\ raw[t] # Invalid /\ steps' = [steps EXCEPT ![t] = q] /\ raw' = [raw EXCEPT ![t] = Invalid]
      /\ UNCHANGED <<fdTables, held, receiving, value, fdGhosts, crashed>>
  BY <1>3 DEF CloseRaw
<1>5. raw[t] \in Fds
  BY <1>2, <1>4 DEF FdTypeOK, AnyFd
<1>6. Books(q, {raw[t]}, {}, {}, {}, {})
  BY <1>3, <1>5, CloseList
<1>7. q \in Seq(StepType) /\ Proper(q)
  BY <1>6 DEF Books, Proper, Shape
<1>8. FdTypeOK'
  BY <1>2, <1>4, <1>7 DEF FdTypeOK, fdTables, fdGhosts, AnyFd
<1>9. ASSUME ~slipped PROVE Accounts(open', owned', held', raw', value', steps')
  <2>1. Accounts(open, owned, held, raw, value, steps)
    BY <1>1, <1>9, CallFinds
  <2>2. PICK X : X = {raw[t]}
    OBVIOUS
  <2>3. Sums(q, X, {}, {}, {}, {})
    BY <1>6, <2>2 DEF Sums, Books
  <2>4. /\ raw' \in [FdThreads -> AnyFd] /\ value \in [FdSlots -> AnyFd]
        /\ \A u \in FdThreads : raw'[u] = raw[u] \/ (u = t /\ raw'[u] = Invalid)
        /\ \A z \in FdSlots : value[z] = value[z] \/ value[z] = Invalid
        /\ X \in SUBSET Fds /\ \A x \in X : raw[t] = x /\ raw'[t] = Invalid
    BY <1>2, <1>4, <1>5, <1>8, <2>2 DEF FdTypeOK
  <2>5. Accounts(open, owned, held, raw', value, steps')
    BY <1>2, <1>4, <2>1, <2>3, <2>4, CloseBegins
  <2> QED BY <1>4, <2>5 DEF fdTables
<1> QED BY <1>2, <1>4, <1>7, <1>8, <1>9, CallKeeps DEF fdGhosts

\* close() of a descriptor that is not the thread's own: from now on there may be
\* trouble, but there is none yet.
LEMMA CloseStrayKeeps ==
  ASSUME FdInv, ~crashed, NEW t \in FdThreads, NEW fd \in Fds, CloseStray(t, fd)
  PROVE  FdInv'
<1>1. MayCall(t)
  BY DEF CloseStray
<1>2. FdTypeOK /\ child = Invalid /\ steps[t] = <<>> /\ steps \in [FdThreads -> Seq(StepType)]
  BY <1>1, CallFinds
<1>3. PICK q : q = Step("check_stray", Invalid, fd) \o Step("stray_close", Invalid, fd)
  OBVIOUS
<1>4. /\ strays > 0 /\ strays' = strays - 1 /\ steps' = [steps EXCEPT ![t] = q]
      /\ UNCHANGED <<fdTables, held, receiving, raw, value, slipped, child, crashed>>
  BY <1>3 DEF CloseStray
<1>5. /\ Shape(q) /\ Strayless(q)
      /\ Keeps(q) = {} /\ Releases(q) = {} /\ Acquires(q) = {} /\ Sets(q) = {} /\ Uses(q) = {}
  BY <1>3, StrayList
<1>6. q \in Seq(StepType)
  BY <1>5 DEF Shape
<1>7. strays' \in 0..Strays /\ strays' # Strays
  BY <1>2, <1>4, FdAssumption DEF FdTypeOK
<1>8. FdTypeOK'
  BY <1>2, <1>4, <1>6, <1>7 DEF FdTypeOK, fdTables
<1>9. ASSUME ~slipped PROVE InOrder' /\ Ledger'
  <2>1. InOrder'
    <3>1. \A u \in FdThreads : steps'[u] = IF u = t THEN q ELSE steps[u]
      BY <1>2, <1>4
    <3> QED BY <1>5, <1>9, <3>1 DEF InOrder, FdInv, Balanced
  <2>2. Accounts(open, owned, held, raw, value, steps)
    BY <1>1, <1>9, CallFinds
  <2>3. PICK X : X = {}
    OBVIOUS
  <2>4. Sums(q, X, {}, {}, {}, {})
    BY <1>5, <2>3 DEF Sums
  <2>5. /\ raw \in [FdThreads -> AnyFd] /\ value \in [FdSlots -> AnyFd]
        /\ \A u \in FdThreads : raw[u] = raw[u] \/ (u = t /\ raw[u] = Invalid)
        /\ \A z \in FdSlots : value[z] = value[z] \/ value[z] = Invalid
        /\ X \in SUBSET Fds /\ \A x \in X : raw[t] = x /\ raw[t] = Invalid
    BY <1>2, <2>3 DEF FdTypeOK
  <2>6. Accounts(open, owned, held, raw, value, steps')
    BY <1>2, <1>4, <2>2, <2>4, <2>5, CloseBegins
  <2> QED BY <1>4, <2>1, <2>6 DEF Ledger, fdTables
<1>10. Balanced'
  BY <1>2, <1>4, <1>9 DEF Balanced
<1> QED BY <1>4, <1>7, <1>8, <1>10 DEF FdInv, NoneStrayed, OnlyStraysCrash

\* The enforcement is enabled.
LEMMA EnableKeeps ==
  ASSUME FdInv, ~crashed, EnableFDOwnershipEnforcement
  PROVE  FdInv'
<1>1. /\ enforced' = TRUE
      /\ UNCHANGED <<open, owned, held, receiving, raw, value, steps, strays, slipped, child, crashed>>
  BY DEF EnableFDOwnershipEnforcement, fdGhosts
<1>2. FdTypeOK'
  BY <1>1 DEF FdInv, FdTypeOK
<1>3. NoneStrayed' /\ OnlyStraysCrash'
  BY <1>1 DEF FdInv, NoneStrayed, OnlyStraysCrash
<1>4. Balanced'
  BY <1>1 DEF FdInv, Balanced, InOrder, Ledger, ChildCloses
<1> QED BY <1>2, <1>3, <1>4 DEF FdInv

\* A fork: the table of the child is empty.
LEMMA ForkKeeps ==
  ASSUME FdInv, ~crashed, NEW t \in FdThreads, Fork(t)
  PROVE  FdInv'
<1>1. MayCall(t)
  BY DEF Fork
<1>2. FdTypeOK /\ child = Invalid /\ steps[t] = <<>> /\ steps \in [FdThreads -> Seq(StepType)]
  BY <1>1, CallFinds
<1>3. /\ child' = t /\ owned' = ResetFDOwnership
      /\ UNCHANGED <<open, enforced, held, receiving, raw, value, steps, strays, slipped, crashed>>
  BY DEF Fork
<1>4. ResetFDOwnership' = ResetFDOwnership /\ ResetFDOwnership \in [Fds -> BOOLEAN]
  BY DEF ResetFDOwnership
<1>5. FdTypeOK'
  BY <1>2, <1>3, <1>4 DEF FdTypeOK
<1>6. NoneStrayed' /\ OnlyStraysCrash'
  BY <1>3 DEF FdInv, NoneStrayed, OnlyStraysCrash
<1>7. ChildCloses'
  <2>1. Keeps(<<>>) = {}
    BY NothingLeft DEF Books
  <2>2. steps'[child'] = <<>>
    BY <1>2, <1>3
  <2> QED BY <1>3, <1>4, <2>1, <2>2 DEF ChildCloses
<1>8. child' # Invalid
  BY <1>3, NamesAssumption
<1>9. Balanced'
  BY <1>3, <1>7, <1>8 DEF FdInv, Balanced, InOrder
<1> QED BY <1>5, <1>6, <1>9 DEF FdInv

\* close() in the child.
LEMMA CloseInChildKeeps ==
  ASSUME FdInv, ~crashed, NEW t \in FdThreads, NEW fd \in Fds, CloseInChild(t, fd)
  PROVE  FdInv'
<1>1. FdTypeOK /\ steps \in [FdThreads -> Seq(StepType)] /\ child # Invalid
  BY NamesAssumption DEF FdInv, FdTypeOK, CloseInChild
<1>2. PICK q : q = Close(Invalid, fd)
  OBVIOUS
<1>3. /\ child = t /\ fd \in open /\ steps' = [steps EXCEPT ![t] = q]
      /\ UNCHANGED <<fdTables, held, receiving, raw, value, strays, slipped, child, crashed>>
  BY <1>2 DEF CloseInChild, fdGhosts
<1>4. /\ Books(q, {fd}, {}, {}, {}, {})
      /\ \A i \in DOMAIN q : q[i].name \in {"check", "libc_close"}
  BY <1>2, CloseList
<1>5. Shape(q) /\ NoStray(q) /\ Strayless(q) /\ q \in Seq(StepType) /\ Keeps(q) = {fd}
  BY <1>4, NoStrayIsStrayless DEF Books, Proper, Shape
<1>6. \A u \in FdThreads : steps'[u] = IF u = t THEN q ELSE steps[u]
  BY <1>1, <1>3
<1>7. FdTypeOK'
  BY <1>1, <1>3, <1>5 DEF FdTypeOK, fdTables
<1>8. NoneStrayed' /\ OnlyStraysCrash'
  BY <1>3, <1>5, <1>6 DEF FdInv, NoneStrayed, OnlyStraysCrash
<1>9. ASSUME ~slipped PROVE InOrder' /\ ChildCloses'
  <2>1. InOrder'
    BY <1>5, <1>6, <1>9 DEF InOrder, FdInv, Balanced
  <2>2. owned = ResetFDOwnership
    BY <1>1, <1>9 DEF FdInv, Balanced, ChildCloses
  <2>3. steps'[child'] = q
    BY <1>3, <1>6
  <2> QED BY <1>3, <1>4, <1>5, <2>1, <2>2, <2>3 DEF ChildCloses, fdTables, ResetFDOwnership
<1>10. Balanced'
  BY <1>1, <1>3, <1>9 DEF Balanced
<1> QED BY <1>7, <1>8, <1>10 DEF FdInv

-----------------------------------------------------------------------------
(* Steps                                                                   *)

\* The rest of a list is without half a stray close(), unless its first half went.
LEMMA TailStrays ==
  ASSUME NEW q \in Seq(StepType), q # <<>>
  PROVE  /\ NoStray(q) => NoStray(Tail(q))
         /\ Strayless(q) => Head(q).name # "stray_close"
         /\ Strayless(q) /\ Head(q).name # "check_stray" => Strayless(Tail(q))
<1>1. PICK r : r = Tail(q)
  OBVIOUS
<1>2. /\ \A i \in DOMAIN r : i + 1 \in DOMAIN q /\ r[i] = q[i + 1] /\ i \in Nat
      /\ \A i \in DOMAIN q : i # 1 => i - 1 \in DOMAIN r /\ r[i - 1] = q[i]
      /\ 1 \in DOMAIN q /\ Head(q) = q[1]
      /\ \A i \in DOMAIN q, j \in Nat : 1 <= j /\ j <= i => j \in DOMAIN q
  BY <1>1, TailElements
<1>3. NoStray(q) => NoStray(r)
  BY <1>2 DEF NoStray
<1>4. Strayless(q) => Head(q).name # "stray_close"
  <2> SUFFICES ASSUME Strayless(q), q[1].name = "stray_close" PROVE FALSE
    BY <1>2
  <2>1. 1 \in DOMAIN q
    BY <1>2
  <2>2. 1 > 1
    BY <2>1 DEF Strayless
  <2> QED BY <2>2
<1>5. ASSUME Strayless(q), Head(q).name # "check_stray" PROVE Strayless(r)
  <2> SUFFICES ASSUME NEW i \in DOMAIN r, r[i].name = "stray_close"
               PROVE  i > 1 /\ r[i - 1].name = "check_stray"
    BY DEF Strayless
  <2>1. /\ i + 1 \in DOMAIN q /\ q[i + 1].name = "stray_close" /\ i \in Nat
        /\ (i + 1) - 1 = i
    BY <1>2
  <2>2. i + 1 > 1 /\ q[i].name = "check_stray"
    BY <1>5, <2>1 DEF Strayless
  <2>3. i # 1
    BY <1>2, <1>5, <2>2
  <2>4. i > 1
    BY <2>1, <2>2, <2>3
  <2>5. i \in DOMAIN q
    BY <1>2, <2>1, <2>4
  <2> QED BY <1>2, <2>2, <2>3, <2>4, <2>5
<1> QED BY <1>1, <1>3, <1>4, <1>5

\* A step has its type, whatever has slipped.
LEMMA RunTypes ==
  ASSUME FdTypeOK, NEW t \in FdThreads, RunStep(t)
  PROVE  FdTypeOK'
<1>1. PICK x : x = Head(steps[t])
  OBVIOUS
<1>2. steps[t] # <<>> /\ steps[t] \in Seq(StepType)
  BY DEF FdTypeOK, RunStep
<1>3. x \in StepType /\ Tail(steps[t]) \in Seq(StepType)
  BY <1>1, <1>2, TailElements, ElementOfSeq
<1>4. /\ Do(x) /\ steps' = [steps EXCEPT ![t] = Tail(steps[t])]
      /\ UNCHANGED <<enforced, receiving, raw, value, strays, child>>
  BY <1>1 DEF RunStep
<1>5. x.fd \in AnyFd
  BY <1>3 DEF StepType
<1>6. steps' \in [FdThreads -> Seq(StepType)]
  BY <1>3, <1>4 DEF FdTypeOK
<1>7. ASSUME NEW now \in BOOLEAN, Update(x.fd, now)
      PROVE  /\ open' \in SUBSET Fds /\ owned' \in [Fds -> BOOLEAN]
             /\ held' \in [FdSlots -> AnyFd] /\ slipped' \in BOOLEAN /\ crashed' \in BOOLEAN
  BY <1>7 DEF FdTypeOK, Update
<1>8. /\ open' \in SUBSET Fds /\ owned' \in [Fds -> BOOLEAN]
      /\ held' \in [FdSlots -> AnyFd] /\ slipped' \in BOOLEAN /\ crashed' \in BOOLEAN
  <2>1. CASE x.name = "acquire" /\ Update(x.fd, TRUE)
    BY <1>7, <2>1
  <2>2. CASE x.name = "release" /\ Update(x.fd, FALSE)
    BY <1>7, <2>2
  <2>3. CASE /\ x.name \in {"check", "check_stray"}
             /\ crashed' = (IsFDOwned(x.fd) /\ enforced)
             /\ slipped' = (slipped \/ (x.name = "check_stray" /\ ~crashed'))
             /\ UNCHANGED <<open, owned, held>>
    <3>1. crashed' \in BOOLEAN
      BY <2>3
    <3>2. slipped' \in BOOLEAN
      BY <2>3
    <3> QED BY <2>3, <3>1, <3>2 DEF FdTypeOK
  <2>4. CASE /\ x.name \in {"libc_close", "stray_close"}
             /\ open' = open \ {x.fd}
             /\ crashed' = (x.name = "libc_close" /\ x.fd \notin open)
             /\ UNCHANGED <<owned, held, slipped>>
    BY <2>4 DEF FdTypeOK
  <2>5. CASE /\ x.name = "set"
             /\ held' = [held EXCEPT ![x.slot] = x.fd]
             /\ UNCHANGED <<open, owned, slipped, crashed>>
    BY <1>5, <2>5 DEF FdTypeOK
  <2> QED BY <1>4, <2>1, <2>2, <2>3, <2>4, <2>5 DEF Do
<1> QED BY <1>4, <1>6, <1>8 DEF FdTypeOK

\* A step in the parent that is not a stray one does not crash, and keeps the
\* accounts.
LEMMA StepKeepsLedger ==
  ASSUME NEW t, NEW x, Takes(t, x, steps, steps'), Ledger, ~crashed, ~slipped,
         Do(x), raw' = raw, value' = value, x.name \notin StrayNames
  PROVE  ~crashed' /\ ~slipped' /\ Ledger'
<1>1. Accounts(open, owned, held, raw, value, steps)
  BY DEF Ledger
<1>2. CASE x.name = "release"
  <2>1. Update(x.fd, FALSE)
    BY <1>2 DEF Do
  <2>2. PICK w : w = owned'
    OBVIOUS
  <2>3. w = IF CanTrack(x.fd) THEN [owned EXCEPT ![x.fd] = FALSE] ELSE owned
    BY <2>1, <2>2 DEF Update
  <2>4. (CanTrack(x.fd) => owned[x.fd]) /\ Accounts(open, w, held, raw, value, steps')
    BY <1>1, <1>2, <2>3, StepRelease
  <2>5. owned[x.fd] => owned[x.fd] # FALSE
    OBVIOUS
  <2> QED BY <2>1, <2>2, <2>4, <2>5 DEF Update, Ledger
<1>3. CASE x.name = "acquire"
  <2>1. Update(x.fd, TRUE)
    BY <1>3 DEF Do
  <2>2. PICK w : w = owned'
    OBVIOUS
  <2>3. w = IF CanTrack(x.fd) THEN [owned EXCEPT ![x.fd] = TRUE] ELSE owned
    BY <2>1, <2>2 DEF Update
  <2>4. (CanTrack(x.fd) => ~owned[x.fd]) /\ Accounts(open, w, held, raw, value, steps')
    BY <1>1, <1>3, <2>3, StepAcquire
  <2>5. ~owned[x.fd] => owned[x.fd] # TRUE
    OBVIOUS
  <2> QED BY <2>1, <2>2, <2>4, <2>5 DEF Update, Ledger
<1>4. CASE x.name = "check"
  <2>1. /\ crashed' = (IsFDOwned(x.fd) /\ enforced)
        /\ slipped' = (slipped \/ (x.name = "check_stray" /\ ~crashed'))
        /\ UNCHANGED <<open, owned, held>>
    BY <1>4 DEF Do
  <2>2. (CanTrack(x.fd) => ~owned[x.fd]) /\ Accounts(open, owned, held, raw, value, steps')
    BY <1>1, <1>4, StepCheck
  <2>3. ~IsFDOwned(x.fd)
    BY <2>2 DEF IsFDOwned
  <2> QED BY <1>4, <2>1, <2>2, <2>3 DEF Ledger
<1>5. CASE x.name = "libc_close"
  <2>1. /\ open' = open \ {x.fd}
        /\ crashed' = (x.name = "libc_close" /\ x.fd \notin open)
        /\ UNCHANGED <<owned, held, slipped>>
    BY <1>5 DEF Do
  <2>2. x.fd \in open /\ Accounts(open \ {x.fd}, owned, held, raw, value, steps')
    BY <1>1, <1>5, StepClose
  <2> QED BY <2>1, <2>2 DEF Ledger
<1>6. CASE x.name = "set"
  <2>1. /\ held' = [held EXCEPT ![x.slot] = x.fd]
        /\ UNCHANGED <<open, owned, slipped, crashed>>
    BY <1>6 DEF Do
  <2>2. PICK h : h = held'
    OBVIOUS
  <2>3. Accounts(open, owned, h, raw, value, steps')
    BY <1>1, <1>6, <2>1, <2>2, StepSet
  <2> QED BY <2>1, <2>2, <2>3 DEF Ledger
<1> QED BY <1>2, <1>3, <1>4, <1>5, <1>6 DEF Do, StrayNames

\* Nor does one in the child.
LEMMA StepKeepsChild ==
  ASSUME FdTypeOK, NEW t \in FdThreads, NEW x, Takes(t, x, steps, steps'), ChildCloses, child = t,
         ~slipped, Do(x), child' = child
  PROVE  ~crashed' /\ ~slipped' /\ ChildCloses'
<1>1. PICK q : q = steps[t]
  OBVIOUS
<1>2. /\ Shape(q) /\ q # <<>> /\ x = Head(q) /\ steps' = [steps EXCEPT ![t] = Tail(q)]
      /\ steps \in [FdThreads -> Seq(StepType)]
  BY <1>1 DEF Takes
<1>3. PICK p : p = Tail(q)
  OBVIOUS
<1>4. /\ \A i \in DOMAIN p : i + 1 \in DOMAIN q /\ p[i] = q[i + 1]
      /\ 1 \in DOMAIN q /\ x = q[1]
  BY <1>2, <1>3, TailElements DEF Shape
<1>5. /\ owned = ResetFDOwnership /\ Keeps(q) \subseteq open
      /\ \A i \in DOMAIN q : q[i].name \in {"check", "libc_close"}
  BY <1>1 DEF ChildCloses
<1>6. x.name \in {"check", "libc_close"} /\ \A i \in DOMAIN p : p[i].name \in {"check", "libc_close"}
  BY <1>4, <1>5
<1>7. /\ x.fd \in Fds
      /\ Keeps(p) = IF x.name \in KeepNames THEN Keeps(q) \ {x.fd} ELSE Keeps(q)
  BY <1>2, <1>3, <1>6, TailSets
<1>8. x.fd \in Keeps(q)
  <2>1. x.fd # Invalid
    BY <1>7 DEF Fds, Invalid
  <2> QED BY <1>2, <1>6, <2>1, HeadFacts DEF KeepNames
<1>9. steps'[child'] = p
  BY <1>2, <1>3
<1>10. CASE x.name = "check"
  <2>1. /\ crashed' = (IsFDOwned(x.fd) /\ enforced)
        /\ slipped' = (slipped \/ (x.name = "check_stray" /\ ~crashed'))
        /\ UNCHANGED <<open, owned, held>>
    BY <1>10 DEF Do
  <2>2. ~IsFDOwned(x.fd)
    BY <1>5, <1>7 DEF IsFDOwned, ResetFDOwnership
  <2>3. Keeps(p) = Keeps(q)
    BY <1>7, <1>10 DEF KeepNames
  <2> QED BY <1>5, <1>6, <1>9, <1>10, <2>1, <2>2, <2>3 DEF ChildCloses, ResetFDOwnership
<1>11. CASE x.name = "libc_close"
  <2>1. /\ open' = open \ {x.fd}
        /\ crashed' = (x.name = "libc_close" /\ x.fd \notin open)
        /\ UNCHANGED <<owned, held, slipped>>
    BY <1>11 DEF Do
  <2>2. Keeps(p) = Keeps(q) \ {x.fd}
    BY <1>7, <1>11 DEF KeepNames
  <2> QED BY <1>5, <1>6, <1>8, <1>9, <2>1, <2>2 DEF ChildCloses, ResetFDOwnership
<1> QED BY <1>6, <1>10, <1>11

\* A step.
LEMMA RunKeeps ==
  ASSUME FdInv, ~crashed, NEW t \in FdThreads, RunStep(t)
  PROVE  FdInv'
<1>1. FdTypeOK /\ FdTypeOK'
  BY RunTypes DEF FdInv
<1>2. PICK x : x = Head(steps[t])
  OBVIOUS
<1>3. /\ steps[t] # <<>> /\ child \in {Invalid, t} /\ Do(x)
      /\ steps' = [steps EXCEPT ![t] = Tail(steps[t])]
      /\ UNCHANGED <<enforced, receiving, raw, value, strays, child>>
  BY <1>2 DEF RunStep
<1>4. steps \in [FdThreads -> Seq(StepType)] /\ steps[t] \in Seq(StepType)
  BY <1>1 DEF FdTypeOK
<1>5. strays # Strays => strays' < Strays /\ strays' # Strays
  BY <1>1, <1>3, FdAssumption DEF FdTypeOK
<1>6. CASE slipped
  <2>1. slipped'
    BY <1>3, <1>6 DEF Do, Update
  <2>2. strays # Strays
    BY <1>6 DEF FdInv, NoneStrayed
  <2> QED BY <1>1, <1>5, <2>1, <2>2 DEF FdInv, NoneStrayed, Balanced, OnlyStraysCrash
<1>7. CASE ~slipped /\ x.name = "check_stray"
  <2>1. slipped' \/ crashed'
    BY <1>3, <1>7 DEF Do
  <2>2. ~NoStray(steps[t])
    BY <1>2, <1>3, <1>4, <1>7, TailElements DEF NoStray, StrayNames
  <2>3. strays # Strays
    BY <2>2 DEF FdInv, NoneStrayed
  <2> QED BY <1>1, <1>5, <2>1, <2>3 DEF FdInv, NoneStrayed, Balanced, OnlyStraysCrash
<1>8. CASE ~slipped /\ x.name # "check_stray"
  <2>1. InOrder /\ (child = Invalid => Ledger) /\ (child # Invalid => ChildCloses)
    BY <1>8 DEF FdInv, Balanced
  <2>2. Shape(steps[t]) /\ Strayless(steps[t])
    BY <2>1 DEF InOrder
  <2>3. Takes(t, x, steps, steps')
    BY <1>2, <1>3, <1>4, <2>2 DEF Takes
  <2>4. x.name \notin StrayNames
    BY <1>2, <1>3, <1>4, <1>8, <2>2, TailStrays DEF StrayNames
  <2>5. Shape(Tail(steps[t])) /\ Strayless(Tail(steps[t]))
    BY <1>2, <1>3, <1>4, <1>8, <2>2, TailShape, TailStrays
  <2>6. \A u \in FdThreads : steps'[u] = IF u = t THEN Tail(steps[t]) ELSE steps[u]
    BY <1>3, <1>4
  <2>7. InOrder'
    BY <2>1, <2>5, <2>6 DEF InOrder
  <2>8. /\ ~crashed' /\ ~slipped'
        /\ child' = Invalid => Ledger'
        /\ child' # Invalid => ChildCloses'
    <3>1. CASE child = Invalid
      <4>1. Ledger /\ raw' = raw /\ value' = value
        BY <1>3, <2>1, <3>1
      <4>2. ~crashed' /\ ~slipped' /\ Ledger'
        BY <1>3, <1>8, <2>3, <2>4, <4>1, StepKeepsLedger
      <4> QED BY <1>3, <3>1, <4>2
    <3>2. CASE child # Invalid
      <4>1. child = t /\ ChildCloses /\ child' = child
        BY <1>3, <2>1, <3>2
      <4>2. ~crashed' /\ ~slipped' /\ ChildCloses'
        BY <1>1, <1>3, <1>8, <2>3, <4>1, StepKeepsChild
      <4> QED BY <1>3, <3>2, <4>2
    <3> QED BY <3>1, <3>2
  <2>9. NoneStrayed'
    <3>1. NoStray(steps[t]) => NoStray(Tail(steps[t]))
      BY <1>3, <1>4, TailStrays
    <3> QED BY <1>3, <2>6, <2>8, <3>1 DEF FdInv, NoneStrayed
  <2> QED BY <1>1, <2>7, <2>8, <2>9 DEF FdInv, Balanced, OnlyStraysCrash
<1> QED BY <1>6, <1>7, <1>8

-----------------------------------------------------------------------------
(* The theorems                                                            *)

\* Every step of the program keeps the invariant.
LEMMA FdKeeps ==
  ASSUME FdInv, [FdNext]_fdVars
  PROVE  FdInv'
<1>1. CASE UNCHANGED fdVars
  <2>1. UNCHANGED <<open, owned, enforced, held, receiving, raw, value, steps, strays,
                    slipped, child, crashed>>
    BY <1>1 DEF fdVars
  <2>2. FdTypeOK' /\ NoneStrayed' /\ OnlyStraysCrash'
    BY <2>1 DEF FdInv, FdTypeOK, NoneStrayed, OnlyStraysCrash
  <2>3. Balanced'
    BY <2>1 DEF FdInv, Balanced, InOrder, Ledger, ChildCloses
  <2> QED BY <2>2, <2>3 DEF FdInv
<1>2. CASE FdNext
  <2>1. ~crashed
    BY <1>2 DEF FdNext
  <2>2. ASSUME NEW t \in FdThreads, FdCall(t) PROVE FdInv'
    <3>1. CASE OpenFd(t) \/ CloseRaw(t) \/ Fork(t)
      BY <2>1, <3>1, OpenKeeps, CloseRawKeeps, ForkKeeps
    <3>2. CASE \E s \in FdSlots : \/ ResetFd(t, s) \/ ReleaseFd(t, s) \/ Receive(t, s)
                                  \/ Get(t, s) \/ Received(t, s)
      BY <2>1, <3>2, ResetKeeps, ReleaseKeeps, ReceiveKeeps, GetKeeps, ReceivedKeeps
    <3>3. CASE \E from, to \in FdSlots : MoveFd(t, from, to)
      BY <2>1, <3>3, MoveKeeps
    <3>4. CASE \E fd \in Fds : CloseStray(t, fd) \/ CloseInChild(t, fd)
      BY <2>1, <3>4, CloseStrayKeeps, CloseInChildKeeps
    <3> QED BY <2>2, <3>1, <3>2, <3>3, <3>4 DEF FdCall
  <2>3. ASSUME NEW t \in FdThreads, RunStep(t) PROVE FdInv'
    BY <2>1, <2>3, RunKeeps
  <2>4. CASE EnableFDOwnershipEnforcement
    BY <2>1, <2>4, EnableKeeps
  <2> QED BY <1>2, <2>2, <2>3, <2>4 DEF FdNext
<1> QED BY <1>1, <1>2

\* The invariant holds in every state.
LEMMA FdInvariant == FdSpec => []FdInv
<1>1. FdInit => FdInv
  BY FdStarts
<1>2. FdInv /\ [FdNext]_fdVars => FdInv'
  BY FdKeeps
<1> QED BY <1>1, <1>2, PTL DEF FdSpec

\* What a ScopedFD holds when nobody is in a call that uses it has one owner.
LEMMA InvHeldIsOpen ==
  ASSUME FdInv
  PROVE  HeldIsOpen
<1> SUFFICES ASSUME ~slipped, ~crashed, child = Invalid, NEW s \in AtRest
             PROVE  /\ held[s] \in open
                    /\ CanTrack(held[s]) => owned[held[s]]
                    /\ \A s2 \in FdSlots \ {s} : held[s2] = held[s] => ~Idle(s2)
                    /\ \A t \in FdThreads : raw[t] # held[s]
  BY DEF HeldIsOpen
<1>1. Accounts(open, owned, held, raw, value, steps)
  BY DEF FdInv, Balanced, Ledger
<1>2. s \in FdSlots /\ held[s] # Invalid /\ Idle(s)
  BY DEF AtRest
<1>3. \A z \in FdSlots : Idle(z) => \A u \in FdThreads : z \notin Uses(steps[u])
  BY IdleIsFree
<1>4. /\ held[s] \in open
      /\ CanTrack(held[s]) => owned[held[s]]
      /\ \A z \in FdSlots : (\A u \in FdThreads : z \notin Uses(steps[u])) /\ held[z] = held[s] => z = s
      /\ \A t \in FdThreads : raw[t] # held[s]
  BY <1>1, <1>2, <1>3, HeldApart
<1> QED BY <1>3, <1>4

\* The descriptors, the table, the ScopedFDs, the Receivers and the steps left of
\* every call have their types, whatever a stray close() has done.
THEOREM FdTypeCorrect == FdSpec => []FdTypeOK
<1>1. FdInv => FdTypeOK
  BY DEF FdInv
<1> QED BY <1>1, FdInvariant, PTL

\* As long as no stray close() got past the check of the hook, a descriptor that a
\* ScopedFD holds, and that no call is working on, is open and in the table, and no
\* other ScopedFD or thread has it; and the table stops no program, in the child of
\* a fork either, that closes only what is its own.
THEOREM OwnedStaySafe == FdSpec => []OwnedDescriptorsAreSafe
<1>1. FdInv => OwnedDescriptorsAreSafe
  BY InvHeldIsOpen DEF FdInv, OwnedDescriptorsAreSafe
<1> QED BY <1>1, FdInvariant, PTL

-----------------------------------------------------------------------------
(* StringReplace: numbers                                                  *)

LEMMA SetInduction ==
  ASSUME NEW T, 0 \in T, \A n \in Nat : n \in T => n + 1 \in T
  PROVE  \A n \in Nat : n \in T
<1> DEFINE U == {n \in Nat : n \notin T}
           R == {p \in Nat \X Nat : p[1] < p[2]}
<1>1. SUFFICES ASSUME U # {} PROVE FALSE
  OBVIOUS
<1>2. PICK x \in U : \A y \in U : ~(<<y, x>> \in R)
  <2>1. U \subseteq Nat
    OBVIOUS
  <2>2. IsWellFoundedOn(R, Nat)
    <3>1. IsWellFoundedOn(OpToRel(<, Nat), Nat)
      BY NatLessThanWellFounded
    <3>2. OpToRel(<, Nat) = R
      BY DEF OpToRel
    <3> QED BY <3>1, <3>2
  <2> HIDE DEF R, U
  <2> QED BY <1>1, <2>1, <2>2, WFMin
<1>3. x # 0 /\ x - 1 \in Nat /\ x - 1 < x
  OBVIOUS
<1>4. <<x - 1, x>> \in R
  BY <1>3
<1>5. x - 1 \notin U
  BY <1>2, <1>4
<1> QED BY <1>3, <1>5

\* A set of natural numbers has a smallest one.
LEMMA MinIs ==
  ASSUME NEW S \in SUBSET Nat, S # {}
  PROVE  Min(S) \in S /\ \A y \in S : Min(S) <= y
<1> DEFINE T == {n \in Nat : \A m \in S : m <= n => \E x \in S : \A y \in S : x <= y}
<1>1. 0 \in T
  <2>1. ASSUME NEW m \in S, m <= 0 PROVE \A y \in S : m <= y
    BY <2>1
  <2> QED BY <2>1
<1>2. ASSUME NEW n \in Nat, n \in T PROVE n + 1 \in T
  <2>1. ASSUME NEW m \in S, m <= n + 1 PROVE \E x \in S : \A y \in S : x <= y
    <3>1. CASE \E y \in S : y <= n
      BY <1>2, <3>1
    <3>2. CASE ~\E y \in S : y <= n
      <4>1. \A y \in S : m <= y
        BY <2>1, <3>2
      <4> QED BY <4>1
    <3> QED BY <3>1, <3>2
  <2> QED BY <2>1
<1>3. \A n \in Nat : n \in T
  <2> HIDE DEF T
  <2> QED BY <1>1, <1>2, SetInduction
<1>4. \E x \in S : \A y \in S : x <= y
  <2>1. PICK m \in S : TRUE
    OBVIOUS
  <2>2. m \in T /\ m <= m
    BY <1>3
  <2> QED BY <2>2
<1> QED BY <1>4 DEF Min

-----------------------------------------------------------------------------
(* Parts of sequences                                                      *)

Groups(p, q, r) == (p \o q) \o r = p \o (q \o r)

LEMMA GroupsAll ==
  ASSUME NEW S, NEW p \in Seq(S), NEW q \in Seq(S), NEW r \in Seq(S)
  PROVE  Groups(p, q, r)
BY ConcatAssociative DEF Groups

\* p is the part of s from position a up to b.
IsPart(p, S, s, a, b) ==
  /\ p \in Seq(S) /\ Len(p) = b - a
  /\ \A i \in 1 .. (b - a) : p[i] = s[a + i]

LEMMA PartIs ==
  ASSUME NEW S, NEW s \in Seq(S), NEW a \in Nat, NEW b \in Nat, a <= b, b <= Len(s)
  PROVE  IsPart(Between(s, a, b), S, s, a, b)
<1>1. \A i \in (a + 1) .. b : s[i] \in S
  <2>1. ASSUME NEW i \in (a + 1) .. b PROVE s[i] \in S
    <3>1. i \in 1 .. Len(s)
      BY LenProperties
    <3> QED BY <3>1, ElementOfSeq
  <2> QED BY <2>1
<1>2. a + 1 \in Int /\ b \in Int
  OBVIOUS
<1>3. /\ SubSeq(s, a + 1, b) \in Seq(S)
      /\ Len(SubSeq(s, a + 1, b)) = IF a + 1 <= b THEN b - (a + 1) + 1 ELSE 0
      /\ \A i \in 1 .. (b - (a + 1) + 1) : SubSeq(s, a + 1, b)[i] = s[a + 1 + i - 1]
  BY <1>1, <1>2, SubSeqProperties
<1>4. Len(SubSeq(s, a + 1, b)) = b - a
  BY <1>3
<1>5. ASSUME NEW i \in 1 .. (b - a) PROVE SubSeq(s, a + 1, b)[i] = s[a + i]
  <2>1. i \in 1 .. (b - (a + 1) + 1) /\ a + 1 + i - 1 = a + i
    OBVIOUS
  <2> QED BY <1>3, <2>1
<1> QED BY <1>3, <1>4, <1>5 DEF Between, IsPart

LEMMA PartsJoin ==
  ASSUME NEW S, NEW s \in Seq(S), NEW a \in Nat, NEW b \in Nat, NEW e \in Nat,
         a <= b, b <= e, e <= Len(s)
  PROVE  Between(s, a, b) \o Between(s, b, e) = Between(s, a, e)
<1>1. Len(s) \in Nat
  BY LenProperties
<1>2. a + 1 \in 1 .. (Len(s) + 1) /\ b \in (a + 1) - 1 .. Len(s) /\ e \in b .. Len(s)
  BY <1>1
<1> QED BY <1>2, ConcatAdjacentSubSeq DEF Between

LEMMA EmptyPart ==
  ASSUME NEW s, NEW a \in Nat
  PROVE  Between(s, a, a) = <<>>
<1>1. a + 1 \in Int /\ a \in Int /\ a < a + 1
  OBVIOUS
<1> QED BY <1>1, SubSeqEmpty DEF Between

LEMMA WholePart ==
  ASSUME NEW S, NEW s \in Seq(S)
  PROVE  Between(s, 0, Len(s)) = s
BY SubSeqFull DEF Between

\* What t has from r on is what s has from j on.
SameTail(t, r, s, j) ==
  /\ r \in Nat /\ j \in Nat /\ r <= Len(t) /\ j <= Len(s) /\ Len(t) - r = Len(s) - j
  /\ \A i \in 1 .. (Len(s) - j) : t[r + i] = s[j + i]

LEMMA TailParts ==
  ASSUME NEW S, NEW s \in Seq(S), NEW t \in Seq(S), NEW r, NEW j, SameTail(t, r, s, j),
         NEW a \in Nat, NEW b \in Nat, a <= b, b <= Len(s) - j
  PROVE  Between(t, r + a, r + b) = Between(s, j + a, j + b)
<1>1. r \in Nat /\ j \in Nat /\ Len(t) \in Nat /\ Len(s) \in Nat /\ Len(t) - r = Len(s) - j
  BY LenProperties DEF SameTail
<1>2. r + a \in Nat /\ r + b \in Nat /\ r + a <= r + b /\ r + b <= Len(t) /\ (r + b) - (r + a) = b - a
  BY <1>1
<1>3. j + a \in Nat /\ j + b \in Nat /\ j + a <= j + b /\ j + b <= Len(s) /\ (j + b) - (j + a) = b - a
  BY <1>1
<1>4. PICK p, q : p = Between(t, r + a, r + b) /\ q = Between(s, j + a, j + b)
  OBVIOUS
<1>5. IsPart(p, S, t, r + a, r + b) /\ IsPart(q, S, s, j + a, j + b)
  BY <1>2, <1>3, <1>4, PartIs
<1>6. ASSUME NEW i \in 1 .. (b - a) PROVE t[r + a + i] = s[j + a + i]
  <2>1. a + i \in 1 .. (Len(s) - j) /\ r + (a + i) = r + a + i /\ j + (a + i) = j + a + i
    BY <1>1
  <2>2. t[r + (a + i)] = s[j + (a + i)]
    BY <2>1 DEF SameTail
  <2> QED BY <2>1, <2>2
<1>7. /\ p \in Seq(S) /\ q \in Seq(S) /\ Len(p) = b - a /\ Len(q) = b - a
      /\ \A i \in 1 .. (b - a) : p[i] = t[r + a + i] /\ q[i] = s[j + a + i]
  BY <1>2, <1>3, <1>5 DEF IsPart
<1> QED BY <1>4, <1>6, <1>7, SeqEqual

LEMMA TailBehind ==
  ASSUME NEW S, NEW s \in Seq(S), NEW t \in Seq(S), NEW r, NEW j, SameTail(t, r, s, j),
         NEW a \in Nat, a <= Len(s) - j
  PROVE  SameTail(t, r + a, s, j + a)
<1>1. r \in Nat /\ j \in Nat /\ Len(t) \in Nat /\ Len(s) \in Nat /\ Len(t) - r = Len(s) - j
  BY LenProperties DEF SameTail
<1>2. ASSUME NEW i \in 1 .. (Len(s) - (j + a)) PROVE t[r + a + i] = s[j + a + i]
  <2>1. a + i \in 1 .. (Len(s) - j) /\ r + (a + i) = r + a + i /\ j + (a + i) = j + a + i
    BY <1>1
  <2>2. t[r + (a + i)] = s[j + (a + i)]
    BY <2>1 DEF SameTail
  <2> QED BY <2>1, <2>2
<1> QED BY <1>1, <1>2 DEF SameTail

\* Overwriting changes what it covers.
Overwritten(S, s, b, w, t) ==
  /\ t \in Seq(S) /\ Len(t) = Len(s)
  /\ Between(t, 0, b + Len(w)) = Between(s, 0, b) \o w
  /\ \A i \in 1 .. Len(s) : b + Len(w) < i => t[i] = s[i]

LEMMA OverwriteIs ==
  ASSUME NEW S, NEW s \in Seq(S), NEW w \in Seq(S), NEW b \in Nat, b + Len(w) <= Len(s),
         NEW t, t = Overwrite(s, b, w)
  PROVE  Overwritten(S, s, b, w, t)
<1>1. /\ Len(s) \in Nat /\ Len(w) \in Nat /\ DOMAIN s = 1 .. Len(s) /\ DOMAIN w = 1 .. Len(w)
      /\ s \in [1 .. Len(s) -> S] /\ w \in [1 .. Len(w) -> S]
  BY LenProperties
<1>2. t = [i \in 1 .. Len(s) |-> IF i - b \in 1 .. Len(w) THEN w[i - b] ELSE s[i]]
  BY <1>1 DEF Overwrite
<1>3. t \in [1 .. Len(s) -> S]
  BY <1>1, <1>2
<1>4. t \in Seq(S) /\ Len(t) = Len(s)
  BY <1>1, <1>3
<1>5. \A i \in 1 .. Len(s) : b + Len(w) < i => t[i] = s[i]
  BY <1>1, <1>2
<1>6. Between(t, 0, b + Len(w)) = Between(s, 0, b) \o w
  <2>1. /\ Between(t, 0, b + Len(w)) \in Seq(S) /\ Len(Between(t, 0, b + Len(w))) = b + Len(w)
        /\ \A i \in 1 .. (b + Len(w)) : Between(t, 0, b + Len(w))[i] = t[i]
    <3>1. b + Len(w) \in Nat /\ 0 <= b + Len(w) /\ b + Len(w) <= Len(t) /\ b + Len(w) - 0 = b + Len(w)
      BY <1>1, <1>4
    <3>2. IsPart(Between(t, 0, b + Len(w)), S, t, 0, b + Len(w))
      BY <1>4, <3>1, PartIs
    <3> QED BY <3>1, <3>2 DEF IsPart
  <2>2. /\ Between(s, 0, b) \in Seq(S) /\ Len(Between(s, 0, b)) = b
        /\ \A i \in 1 .. b : Between(s, 0, b)[i] = s[i]
    <3>1. 0 <= b /\ b <= Len(s) /\ b - 0 = b
      BY <1>1
    <3>2. IsPart(Between(s, 0, b), S, s, 0, b)
      BY <3>1, PartIs
    <3> QED BY <3>1, <3>2 DEF IsPart
  <2>3. PICK p : p = Between(s, 0, b)
    OBVIOUS
  <2>4. /\ p \o w \in Seq(S) /\ Len(p \o w) = b + Len(w)
        /\ \A i \in 1 .. (b + Len(w)) : (p \o w)[i] = IF i <= b THEN p[i] ELSE w[i - b]
    <3>1. p \in Seq(S) /\ Len(p) = b
      BY <2>2, <2>3
    <3> QED BY <3>1, ConcatProperties
  <2>5. ASSUME NEW i \in 1 .. (b + Len(w)) PROVE (p \o w)[i] = t[i]
    <3>0. i \in 1 .. Len(s)
      BY <1>1
    <3>1. CASE i <= b
      <4>1. ~(i - b \in 1 .. Len(w)) /\ i \in 1 .. b
        BY <1>1, <3>1
      <4> QED BY <1>2, <2>2, <2>3, <2>4, <3>0, <3>1, <4>1
    <3>2. CASE ~(i <= b)
      <4>1. i - b \in 1 .. Len(w)
        BY <1>1, <3>2
      <4>2. t[i] = w[i - b]
        BY <1>2, <3>0, <4>1
      <4>3. (p \o w)[i] = w[i - b]
        BY <2>4, <3>2
      <4> QED BY <4>2, <4>3
    <3> QED BY <3>1, <3>2
  <2> QED BY <2>1, <2>3, <2>4, <2>5, SeqEqual
<1> QED BY <1>4, <1>5, <1>6 DEF Overwritten

LEMMA OverwriteTail ==
  ASSUME NEW S, NEW s \in Seq(S), NEW w \in Seq(S), NEW b \in Nat, b + Len(w) <= Len(s),
         NEW o \in Seq(S), NEW r, NEW j, SameTail(s, r, o, j), b + Len(w) <= r
  PROVE  SameTail(Overwrite(s, b, w), r, o, j)
<1>1. PICK t : t = Overwrite(s, b, w)
  OBVIOUS
<1>2. Len(t) = Len(s) /\ \A i \in 1 .. Len(s) : b + Len(w) < i => t[i] = s[i]
  <2>1. Overwritten(S, s, b, w, t)
    BY <1>1, OverwriteIs
  <2> QED BY <2>1 DEF Overwritten
<1>3. Len(s) \in Nat /\ Len(w) \in Nat /\ Len(o) \in Nat /\ r \in Nat /\ j \in Nat /\ Len(s) - r = Len(o) - j
  BY LenProperties DEF SameTail
<1>4. ASSUME NEW i \in 1 .. (Len(o) - j) PROVE t[r + i] = o[j + i]
  <2>1. r + i \in 1 .. Len(s) /\ b + Len(w) < r + i
    BY <1>3
  <2>2. s[r + i] = o[j + i]
    BY DEF SameTail
  <2> QED BY <1>2, <2>1, <2>2
<1>5. SameTail(t, r, o, j)
  BY <1>2, <1>4 DEF SameTail
<1> QED BY <1>1, <1>5

\* Strings that a call may have.
LEMMA SeqOfIs ==
  ASSUME NEW S, NEW n \in Nat, NEW s \in SeqOf(S, n)
  PROVE  s \in Seq(S) /\ Len(s) \in 0 .. n
<1>1. PICK m \in 0 .. n : s \in [1 .. m -> S]
  BY DEF SeqOf
<1> QED BY <1>1

-----------------------------------------------------------------------------
(* Matches                                                                 *)

\* m is the first match from j on.
Finds(m, c, s, j) ==
  \/ m = Nowhere /\ \A i \in j .. (Len(s) - MatchSize(c)) : ~IsMatch(c, s, i)
  \/ /\ m # Nowhere /\ m \in j .. (Len(s) - MatchSize(c)) /\ IsMatch(c, s, m)
     /\ \A i \in j .. (m - 1) : ~IsMatch(c, s, i)

\* A string that is searched in, and what is looked for.
Searches(c, s) ==
  /\ Len(s) \in Nat /\ MatchSize(c) \in Nat /\ 0 < MatchSize(c)
  /\ Nowhere \in Nat /\ Len(s) < Nowhere

LEMMA FindIs ==
  ASSUME NEW c, NEW s, Searches(c, s), NEW j \in Nat
  PROVE  Finds(Find(c, s, j), c, s, j)
<1>1. /\ Len(s) \in Nat /\ MatchSize(c) \in Nat /\ 0 < MatchSize(c)
      /\ Nowhere \in Nat /\ Len(s) < Nowhere
  BY DEF Searches
<1>2. PICK T : T = {Nowhere} \cup {i \in j .. (Len(s) - MatchSize(c)) : IsMatch(c, s, i)}
  OBVIOUS
<1>3. PICK m : m = Find(c, s, j)
  OBVIOUS
<1>4. m \in T /\ \A y \in T : m <= y
  <2>1. T \in SUBSET Nat /\ T # {}
    BY <1>1, <1>2
  <2>2. m = Min(T)
    BY <1>2, <1>3 DEF Find
  <2> QED BY <2>1, <2>2, MinIs
<1>5. CASE m = Nowhere
  <2>1. ASSUME NEW i \in j .. (Len(s) - MatchSize(c)), IsMatch(c, s, i) PROVE FALSE
    <3>1. i \in T
      BY <1>2, <2>1
    <3>2. Nowhere <= i
      BY <1>4, <1>5, <3>1
    <3> QED BY <1>1, <3>2
  <2> QED BY <1>3, <1>5, <2>1 DEF Finds
<1>6. CASE m # Nowhere
  <2>1. m \in j .. (Len(s) - MatchSize(c)) /\ IsMatch(c, s, m)
    BY <1>2, <1>4, <1>6
  <2>2. ASSUME NEW i \in j .. (m - 1), IsMatch(c, s, i) PROVE FALSE
    <3>1. i \in j .. (Len(s) - MatchSize(c)) /\ i < m
      BY <1>1, <2>1
    <3>2. i \in T
      BY <1>2, <2>2, <3>1
    <3>3. m <= i
      BY <1>4, <3>2
    <3> QED BY <2>1, <3>1, <3>3
  <2> QED BY <1>3, <1>6, <2>1, <2>2 DEF Finds
<1> QED BY <1>5, <1>6

LEMMA FindsOne ==
  ASSUME NEW c, NEW s, Searches(c, s), NEW j \in Nat, NEW m, Finds(m, c, s, j)
  PROVE  m = Find(c, s, j)
<1>1. PICK k : k = Find(c, s, j)
  OBVIOUS
<1>2. Finds(k, c, s, j)
  BY <1>1, FindIs
<1>3. Len(s) \in Nat /\ MatchSize(c) \in Nat
  BY DEF Searches
<1>4. CASE m = Nowhere
  <2>1. k # Nowhere => k \in j .. (Len(s) - MatchSize(c)) /\ IsMatch(c, s, k)
    BY <1>2 DEF Finds
  <2>2. \A i \in j .. (Len(s) - MatchSize(c)) : ~IsMatch(c, s, i)
    BY <1>4 DEF Finds
  <2> QED BY <1>1, <1>4, <2>1, <2>2
<1>5. CASE m # Nowhere
  <2>1. /\ m \in j .. (Len(s) - MatchSize(c)) /\ IsMatch(c, s, m)
        /\ \A i \in j .. (m - 1) : ~IsMatch(c, s, i)
    BY <1>5 DEF Finds
  <2>2. k # Nowhere
    BY <1>2, <2>1 DEF Finds
  <2>3. /\ k \in j .. (Len(s) - MatchSize(c)) /\ IsMatch(c, s, k)
        /\ \A i \in j .. (k - 1) : ~IsMatch(c, s, i)
    BY <1>2, <2>2 DEF Finds
  <2>4. ~(m < k)
    <3>1. m < k => m \in j .. (k - 1)
      BY <1>3, <2>1, <2>3
    <3> QED BY <2>1, <2>3, <3>1
  <2>5. ~(k < m)
    <3>1. k < m => k \in j .. (m - 1)
      BY <1>3, <2>1, <2>3
    <3> QED BY <2>1, <2>3, <3>1
  <2> QED BY <1>1, <1>3, <2>1, <2>3, <2>4, <2>5
<1> QED BY <1>4, <1>5

\* Step by step.
LEMMA FindSteps ==
  ASSUME NEW c, NEW s, Searches(c, s), NEW j \in Nat
  PROVE  /\ Len(s) < j + MatchSize(c) => Find(c, s, j) = Nowhere
         /\ j + MatchSize(c) <= Len(s) /\ IsMatch(c, s, j) => Find(c, s, j) = j /\ j # Nowhere
         /\ j + MatchSize(c) <= Len(s) /\ ~IsMatch(c, s, j) =>
              j + 1 \in Nat /\ j + 1 <= Len(s) /\ Find(c, s, j) = Find(c, s, j + 1)
<1>1. /\ Len(s) \in Nat /\ MatchSize(c) \in Nat /\ 0 < MatchSize(c)
      /\ Nowhere \in Nat /\ Len(s) < Nowhere
  BY DEF Searches
<1>2. ASSUME Len(s) < j + MatchSize(c) PROVE Find(c, s, j) = Nowhere
  <2>1. \A i \in j .. (Len(s) - MatchSize(c)) : FALSE
    BY <1>1, <1>2
  <2>2. Finds(Nowhere, c, s, j)
    BY <2>1 DEF Finds
  <2> QED BY <2>2, FindsOne
<1>3. ASSUME j + MatchSize(c) <= Len(s), IsMatch(c, s, j) PROVE Find(c, s, j) = j /\ j # Nowhere
  <2>1. j # Nowhere /\ j \in j .. (Len(s) - MatchSize(c)) /\ \A i \in j .. (j - 1) : FALSE
    BY <1>1, <1>3
  <2>2. Finds(j, c, s, j)
    BY <1>3, <2>1 DEF Finds
  <2> QED BY <2>1, <2>2, FindsOne
<1>4. ASSUME j + MatchSize(c) <= Len(s), ~IsMatch(c, s, j)
      PROVE  j + 1 \in Nat /\ j + 1 <= Len(s) /\ Find(c, s, j) = Find(c, s, j + 1)
  <2>1. j + 1 \in Nat /\ j + 1 <= Len(s)
    BY <1>1, <1>4
  <2>2. PICK m : m = Find(c, s, j + 1)
    OBVIOUS
  <2>3. Finds(m, c, s, j + 1)
    BY <2>1, <2>2, FindIs
  <2>4. CASE m = Nowhere
    <3>1. ASSUME NEW i \in j .. (Len(s) - MatchSize(c)) PROVE ~IsMatch(c, s, i)
      <4>1. i = j \/ i \in (j + 1) .. (Len(s) - MatchSize(c))
        BY <1>1
      <4> QED BY <1>4, <2>3, <2>4, <4>1 DEF Finds
    <3>2. Finds(m, c, s, j)
      BY <2>4, <3>1 DEF Finds
    <3> QED BY <2>1, <2>2, <3>2, FindsOne
  <2>5. CASE m # Nowhere
    <3>1. /\ m \in (j + 1) .. (Len(s) - MatchSize(c)) /\ IsMatch(c, s, m)
          /\ \A i \in (j + 1) .. (m - 1) : ~IsMatch(c, s, i)
      BY <2>3, <2>5 DEF Finds
    <3>2. ASSUME NEW i \in j .. (m - 1) PROVE ~IsMatch(c, s, i)
      <4>1. i = j \/ i \in (j + 1) .. (m - 1)
        BY <1>1, <3>1
      <4> QED BY <1>4, <3>1, <4>1
    <3>3. m \in j .. (Len(s) - MatchSize(c))
      BY <1>1, <3>1
    <3>4. Finds(m, c, s, j)
      BY <2>5, <3>1, <3>2, <3>3 DEF Finds
    <3> QED BY <2>1, <2>2, <3>4, FindsOne
  <2> QED BY <2>4, <2>5
<1> QED BY <1>2, <1>3, <1>4

\* What matches in a part that moved is what matched.
LEMMA MatchMoves ==
  ASSUME NEW S, NEW s \in Seq(S), NEW t \in Seq(S), NEW r, NEW j, SameTail(t, r, s, j),
         NEW c, MatchSize(c) \in Nat, 0 < MatchSize(c),
         NEW a \in Nat, a + MatchSize(c) <= Len(s) - j
  PROVE  IsMatch(c, t, r + a) <=> IsMatch(c, s, j + a)
<1>1. Len(s) \in Nat /\ j \in Nat /\ r \in Nat
  BY LenProperties DEF SameTail
<1>2. CASE c.any
  <2>1. a + 1 \in 1 .. (Len(s) - j) /\ r + (a + 1) = r + a + 1 /\ j + (a + 1) = j + a + 1
    BY <1>1
  <2>2. t[r + (a + 1)] = s[j + (a + 1)]
    BY <2>1 DEF SameTail
  <2>3. t[r + a + 1] = s[j + a + 1]
    BY <2>1, <2>2
  <2> QED BY <1>2, <2>3 DEF IsMatch
<1>3. CASE ~c.any
  <2>1. MatchSize(c) = Len(c.find)
    BY <1>3 DEF MatchSize
  <2>2. PICK k, b : k = Len(c.find) /\ b = a + k
    OBVIOUS
  <2>0. k \in Nat /\ a \in Nat /\ a + k <= Len(s) - j
    BY <2>1, <2>2
  <2>3. b \in Nat /\ a <= b /\ b <= Len(s) - j /\ r + b = r + a + k /\ j + b = j + a + k
    <3>1. b = a + k
      BY <2>2
    <3>2. PICK n : n = Len(s)
      OBVIOUS
    <3>3. n \in Nat /\ a + k <= n - j
      BY <1>1, <2>0, <3>2
    <3>4. b \in Nat /\ a <= b /\ b <= n - j
      BY ONLY <1>1, <2>0, <3>1, <3>3
    <3>5. r + b = r + a + k /\ j + b = j + a + k
      BY ONLY <1>1, <2>0, <3>1
    <3> QED BY <3>2, <3>4, <3>5
  <2>4. Between(t, r + a, r + b) = Between(s, j + a, j + b)
    BY <2>3, TailParts
  <2>5. Between(t, r + a, r + a + Len(c.find)) = Between(s, j + a, j + a + Len(c.find))
    BY <2>2, <2>3, <2>4
  <2> QED BY <1>3, <2>5 DEF IsMatch
<1> QED BY <1>2, <1>3

LEMMA FindMoves ==
  ASSUME NEW S, NEW s \in Seq(S), NEW t \in Seq(S), NEW r, NEW j, SameTail(t, r, s, j),
         NEW c, Searches(c, s), Searches(c, t), NEW m, m = Find(c, s, j)
  PROVE  /\ m = Nowhere => Find(c, t, r) = Nowhere
         /\ m # Nowhere => /\ m \in Nat /\ j <= m /\ m + MatchSize(c) <= Len(s)
                           /\ Find(c, t, r) = r + (m - j) /\ Find(c, t, r) # Nowhere
<1>1. /\ Len(s) \in Nat /\ j \in Nat /\ r \in Nat /\ MatchSize(c) \in Nat /\ 0 < MatchSize(c)
      /\ Len(t) \in Nat /\ Len(t) - r = Len(s) - j /\ Nowhere \in Nat /\ Len(t) < Nowhere
  BY DEF SameTail, Searches
<1>2. Finds(m, c, s, j)
  BY <1>1, FindIs
<1>3. ASSUME NEW i \in Nat, r <= i, i + MatchSize(c) <= Len(t)
      PROVE  IsMatch(c, t, i) <=> IsMatch(c, s, j + (i - r))
  <2>1. PICK a : a = i - r
    OBVIOUS
  <2>2. a \in Nat /\ r + a = i /\ a + MatchSize(c) <= Len(s) - j
    BY <1>1, <1>3, <2>1
  <2>3. IsMatch(c, t, r + a) <=> IsMatch(c, s, j + a)
    BY <1>1, <2>2, MatchMoves
  <2> QED BY <2>1, <2>2, <2>3
<1>4. CASE m = Nowhere
  <2>1. ASSUME NEW i \in r .. (Len(t) - MatchSize(c)) PROVE ~IsMatch(c, t, i)
    <3>1. i \in Nat /\ r <= i /\ i + MatchSize(c) <= Len(t) /\ j + (i - r) \in j .. (Len(s) - MatchSize(c))
      BY <1>1
    <3> QED BY <1>2, <1>3, <1>4, <3>1 DEF Finds
  <2>2. Finds(Nowhere, c, t, r)
    BY <2>1 DEF Finds
  <2> QED BY <1>1, <1>4, <2>2, FindsOne
<1>5. CASE m # Nowhere
  <2>1. /\ m \in j .. (Len(s) - MatchSize(c)) /\ IsMatch(c, s, m)
        /\ \A i \in j .. (m - 1) : ~IsMatch(c, s, i)
    BY <1>2, <1>5 DEF Finds
  <2>2. PICK k : k = r + (m - j)
    OBVIOUS
  <2>3. /\ m \in Nat /\ j <= m /\ m + MatchSize(c) <= Len(s)
        /\ k \in r .. (Len(t) - MatchSize(c)) /\ k # Nowhere /\ k \in Nat /\ j + (k - r) = m
        /\ r <= k /\ k + MatchSize(c) <= Len(t)
    <3>1. m \in Nat /\ j <= m /\ m + MatchSize(c) <= Len(s)
      BY <1>1, <2>1
    <3>2. k \in Nat /\ r <= k /\ k + MatchSize(c) <= Len(t) /\ j + (k - r) = m
      BY ONLY <1>1, <2>2, <3>1
    <3>3. k \in r .. (Len(t) - MatchSize(c)) /\ k # Nowhere
      BY <1>1, <3>2
    <3> QED BY <3>1, <3>2, <3>3
  <2>4. IsMatch(c, t, k)
    BY <1>3, <2>1, <2>3
  <2>5. ASSUME NEW i \in r .. (k - 1) PROVE ~IsMatch(c, t, i)
    <3>1. i \in Nat /\ r <= i /\ i < k
      BY <1>1, <2>3
    <3>2. i + MatchSize(c) <= Len(t)
      <4>1. PICK p, n : p = MatchSize(c) /\ n = Len(t)
        OBVIOUS
      <4>2. p \in Nat /\ n \in Nat /\ k \in Nat /\ k + p <= n
        BY <1>1, <2>3, <4>1
      <4>3. i + p <= n
        BY ONLY <3>1, <4>2
      <4> QED BY <4>1, <4>3
    <3>3. j + (i - r) \in j .. (m - 1)
      BY ONLY <1>1, <2>2, <2>3, <3>1
    <3>4. ~IsMatch(c, s, j + (i - r))
      BY <2>1, <3>3
    <3>5. IsMatch(c, t, i) <=> IsMatch(c, s, j + (i - r))
      <4>1. PICK a : a = i - r
        OBVIOUS
      <4>2. a \in Nat /\ r + a = i /\ a + MatchSize(c) <= Len(s) - j
        BY <1>1, <3>1, <3>2, <4>1
      <4>3. IsMatch(c, t, r + a) <=> IsMatch(c, s, j + a)
        BY <1>1, <4>2, MatchMoves
      <4> QED BY <4>1, <4>2, <4>3
    <3> QED BY <3>4, <3>5
  <2>6. Finds(k, c, t, r)
    BY <2>3, <2>4, <2>5 DEF Finds
  <2>7. k = Find(c, t, r)
    BY <1>1, <2>6, FindsOne
  <2> QED BY <1>5, <2>2, <2>3, <2>7
<1> QED BY <1>4, <1>5

-----------------------------------------------------------------------------
(* What the recursive definitions compute                                  *)

\* What G makes of a function at a position depends on what is behind it.
Upward(G, n, V) ==
  /\ G \in [[0 .. n -> V] \X (0 .. n) -> V]
  /\ \A g, h \in [0 .. n -> V], j \in 0 .. n :
       (\A i \in 0 .. n : j < i => g[i] = h[i]) => G[<<g, j>>] = G[<<h, j>>]

\* A recursion that goes up to n has a solution.
LEMMA UpwardSolution ==
  ASSUME NEW V, NEW v0 \in V, NEW n \in Nat, NEW G, Upward(G, n, V)
  PROVE  \E h \in [0 .. n -> V] : h = [j \in 0 .. n |-> G[<<h, j>>]]
<1>0. /\ G \in [[0 .. n -> V] \X (0 .. n) -> V]
      /\ \A g, h \in [0 .. n -> V], j \in 0 .. n :
           (\A i \in 0 .. n : j < i => g[i] = h[i]) => G[<<g, j>>] = G[<<h, j>>]
  BY DEF Upward
<1> DEFINE T == {k \in Nat : k <= n + 1 => \E h \in [0 .. n -> V] : \A j \in 0 .. n : n < j + k => h[j] = G[<<h, j>>]}
<1>1. 0 \in T
  <2>1. [j \in 0 .. n |-> v0] \in [0 .. n -> V]
    OBVIOUS
  <2>2. \A j \in 0 .. n : ~(n < j + 0)
    OBVIOUS
  <2> QED BY <2>1, <2>2
<1>2. ASSUME NEW k \in Nat, k \in T PROVE k + 1 \in T
  <2>0. /\ k + 1 \in Nat
        /\ k <= n + 1 => \E h \in [0 .. n -> V] : \A j \in 0 .. n : n < j + k => h[j] = G[<<h, j>>]
    <3>1. k + 1 \in Nat
      OBVIOUS
    <3> QED BY <1>2, <3>1, Zenon
  <2>1. SUFFICES ASSUME k + 1 <= n + 1
                 PROVE  \E h \in [0 .. n -> V] : \A j \in 0 .. n : n < j + (k + 1) => h[j] = G[<<h, j>>]
    BY <2>0, Zenon
  <2>2. k <= n + 1 /\ n - k \in 0 .. n
    BY <2>1
  <2>3. PICK h \in [0 .. n -> V] : \A j \in 0 .. n : n < j + k => h[j] = G[<<h, j>>]
    BY <2>0, <2>2
  <2>4. PICK p, v : p = n - k /\ v = G[<<h, p>>]
    OBVIOUS
  <2>5. p \in 0 .. n /\ v \in V
    BY <1>0, <2>2, <2>3, <2>4
  <2>6. PICK g : g = [h EXCEPT ![p] = v]
    OBVIOUS
  <2>7. g \in [0 .. n -> V] /\ g[p] = v /\ \A i \in 0 .. n : i # p => g[i] = h[i]
    BY <2>3, <2>5, <2>6
  <2>8. ASSUME NEW j \in 0 .. n, n < j + (k + 1) PROVE g[j] = G[<<g, j>>]
    <3>1. j = p \/ (p < j /\ n < j + k)
      BY <2>2, <2>4, <2>8
    <3>2. \A i \in 0 .. n : j < i => h[i] = g[i]
      <4>1. \A i \in 0 .. n : j < i => i # p
        BY <2>4, <2>8
      <4> QED BY <2>7, <4>1
    <3>3. G[<<h, j>>] = G[<<g, j>>]
      BY <1>0, <2>7, <3>2
    <3>4. CASE j = p
      BY <2>4, <2>7, <3>3, <3>4
    <3>5. CASE p < j /\ n < j + k
      <4>1. j # p
        BY <2>5, <3>5
      <4> QED BY <2>3, <2>7, <3>3, <3>5, <4>1
    <3> QED BY <3>1, <3>4, <3>5
  <2> QED BY <2>7, <2>8
<1>3. n + 1 \in T
  <2> HIDE DEF T
  <2>1. \A k \in Nat : k \in T
    BY <1>1, <1>2, SetInduction
  <2> QED BY <2>1
<1>4. PICK h \in [0 .. n -> V] : \A j \in 0 .. n : n < j + (n + 1) => h[j] = G[<<h, j>>]
  <2>1. n + 1 <= n + 1
    OBVIOUS
  <2>2. n + 1 <= n + 1 => \E h \in [0 .. n -> V] : \A j \in 0 .. n : n < j + (n + 1) => h[j] = G[<<h, j>>]
    BY <1>3, Zenon
  <2> QED BY <2>1, <2>2
<1>5. \A j \in 0 .. n : h[j] = G[<<h, j>>]
  <2>1. \A j \in 0 .. n : n < j + (n + 1)
    OBVIOUS
  <2> QED BY <1>4, <2>1
<1> QED BY <1>4, <1>5

RestAt(c, s, h, j) ==
  IF j + MatchSize(c) > Len(s) THEN Between(s, j, Len(s))
  ELSE IF ~IsMatch(c, s, j) THEN <<s[j + 1]>> \o h[j + 1]
  ELSE c.with \o IF c.first THEN Between(s, j + MatchSize(c), Len(s))
                 ELSE h[j + MatchSize(c)]
Rest(c, s) == CHOOSE h : h = [j \in 0 .. Len(s) |-> RestAt(c, s, h, j)]
After(c, s, j) == IF c.first THEN Between(s, j, Len(s)) ELSE Rest(c, s)[j]

CountAt(c, s, h, j) ==
  LET m == Find(c, s, j) IN IF m = Nowhere THEN 0 ELSE 1 + h[m + MatchSize(c)]
Count(c, s) == CHOOSE h : h = [j \in 0 .. Len(s) |-> CountAt(c, s, h, j)]

LEMMA ResultIs ==
  ASSUME NEW c, NEW s, NEW i
  PROVE  WithMatchesReplaced(c, s, i) =
           IF i > Len(s) \/ IsEmptyFind(c) THEN s ELSE Between(s, 0, i) \o Rest(c, s)[i]
BY DEF WithMatchesReplaced, Rest, RestAt

LEMMA MatchCountIs ==
  ASSUME NEW c, NEW s, NEW i
  PROVE  MatchCount(c, s, i) = Count(c, s)[i]
BY DEF MatchCount, Count, CountAt

LEMMA RestSolution ==
  ASSUME NEW S, NEW c, NEW s \in Seq(S), Searches(c, s), c.with \in Seq(S)
  PROVE  /\ Rest(c, s) \in [0 .. Len(s) -> Seq(S)]
         /\ \A j \in 0 .. Len(s) : Rest(c, s)[j] = RestAt(c, s, Rest(c, s), j)
<1>1. Len(s) \in Nat /\ MatchSize(c) \in Nat /\ 0 < MatchSize(c)
  BY DEF Searches
<1>2. PICK n : n = Len(s)
  OBVIOUS
<1>3. ASSUME NEW h, NEW j \in 0 .. n, \A i \in 0 .. n : j < i => h[i] \in Seq(S)
      PROVE  RestAt(c, s, h, j) \in Seq(S)
  <2>1. CASE j + MatchSize(c) > Len(s)
    <3>1. j \in Nat /\ j <= Len(s) /\ Len(s) <= Len(s)
      BY <1>1, <1>2
    <3>2. IsPart(Between(s, j, Len(s)), S, s, j, Len(s))
      BY <1>1, <3>1, PartIs
    <3> QED BY <2>1, <3>2 DEF RestAt, IsPart
  <2>2. CASE ~(j + MatchSize(c) > Len(s))
    <3>0. j + 1 \in 0 .. n /\ j + 1 \in 1 .. Len(s) /\ j + MatchSize(c) \in 0 .. n /\ j + MatchSize(c) \in Nat /\ j + MatchSize(c) <= Len(s)
      BY <1>1, <1>2, <2>2
    <3>1. CASE ~IsMatch(c, s, j)
      <4>1. s[j + 1] \in S
        BY <3>0, ElementOfSeq
      <4>2. <<s[j + 1]>> \in Seq(S) /\ h[j + 1] \in Seq(S)
        <5>1. j < j + 1
          OBVIOUS
        <5> QED BY <1>3, <3>0, <4>1, <5>1
      <4>3. <<s[j + 1]>> \o h[j + 1] \in Seq(S)
        BY <4>2, ConcatProperties
      <4> QED BY <2>2, <3>1, <4>3 DEF RestAt
    <3>2. CASE IsMatch(c, s, j)
      <4>1. PICK u : u = IF c.first THEN Between(s, j + MatchSize(c), Len(s)) ELSE h[j + MatchSize(c)]
        OBVIOUS
      <4>2. u \in Seq(S)
        <5>1. IsPart(Between(s, j + MatchSize(c), Len(s)), S, s, j + MatchSize(c), Len(s))
          BY <1>1, <3>0, PartIs
        <5>2. Between(s, j + MatchSize(c), Len(s)) \in Seq(S)
          BY <5>1 DEF IsPart
        <5>3. j < j + MatchSize(c)
          BY <1>1
        <5> QED BY <1>3, <3>0, <4>1, <5>2, <5>3
      <4>3. c.with \o u \in Seq(S)
        BY <4>2, ConcatProperties
      <4> QED BY <2>2, <3>2, <4>1, <4>3 DEF RestAt
    <3> QED BY <3>1, <3>2
  <2> QED BY <2>1, <2>2
<1>4. ASSUME NEW g, NEW h, NEW j \in 0 .. n, \A i \in 0 .. n : j < i => g[i] = h[i]
      PROVE  RestAt(c, s, g, j) = RestAt(c, s, h, j)
  <2>1. CASE j + MatchSize(c) > Len(s)
    BY <2>1 DEF RestAt
  <2>2. CASE ~(j + MatchSize(c) > Len(s))
    <3>1. j + 1 \in 0 .. n /\ j < j + 1 /\ j + MatchSize(c) \in 0 .. n /\ j < j + MatchSize(c)
      BY <1>1, <1>2, <2>2
    <3>2. g[j + 1] = h[j + 1] /\ g[j + MatchSize(c)] = h[j + MatchSize(c)]
      BY <1>4, <3>1
    <3> QED BY <3>2 DEF RestAt
  <2> QED BY <2>1, <2>2
<1>5. PICK G : G = [p \in [0 .. n -> Seq(S)] \X (0 .. n) |-> RestAt(c, s, p[1], p[2])]
  OBVIOUS
<1>6. \A h \in [0 .. n -> Seq(S)], j \in 0 .. n : G[<<h, j>>] = RestAt(c, s, h, j)
  BY <1>5
<1>7. G \in [[0 .. n -> Seq(S)] \X (0 .. n) -> Seq(S)]
  BY <1>3, <1>5
<1>8. \E h \in [0 .. n -> Seq(S)] : h = [j \in 0 .. n |-> G[<<h, j>>]]
  <2>1. n \in Nat /\ <<>> \in Seq(S)
    BY <1>1, <1>2
  <2>2. \A g, h \in [0 .. n -> Seq(S)], j \in 0 .. n :
           (\A i \in 0 .. n : j < i => g[i] = h[i]) => G[<<g, j>>] = G[<<h, j>>]
    <3>1. ASSUME NEW g \in [0 .. n -> Seq(S)], NEW h \in [0 .. n -> Seq(S)], NEW j \in 0 .. n,
                 \A i \in 0 .. n : j < i => g[i] = h[i]
          PROVE  G[<<g, j>>] = G[<<h, j>>]
      <4>1. RestAt(c, s, g, j) = RestAt(c, s, h, j)
        BY <1>4, <3>1
      <4> QED BY <1>6, <4>1
    <3> QED BY <3>1
  <2>3. Upward(G, n, Seq(S))
    BY <1>7, <2>2 DEF Upward
  <2> QED BY <2>1, <2>3, UpwardSolution
<1>9. PICK h \in [0 .. n -> Seq(S)] : h = [j \in 0 .. n |-> RestAt(c, s, h, j)]
  <2>1. PICK h \in [0 .. n -> Seq(S)] : h = [j \in 0 .. n |-> G[<<h, j>>]]
    BY <1>8
  <2>2. [j \in 0 .. n |-> G[<<h, j>>]] = [j \in 0 .. n |-> RestAt(c, s, h, j)]
    BY <1>6
  <2> QED BY <2>1, <2>2
<1>10. PICK f : f = Rest(c, s)
  OBVIOUS
<1>11. f = [j \in 0 .. n |-> RestAt(c, s, f, j)]
  BY <1>2, <1>9, <1>10 DEF Rest
<1>12. \A j \in 0 .. n : f[j] = RestAt(c, s, f, j)
  BY <1>11
<1>13. f[n] \in Seq(S)
  <2>1. n \in 0 .. n /\ n + MatchSize(c) > Len(s) /\ \A i \in 0 .. n : ~(n < i)
    BY <1>1, <1>2
  <2>2. \A i \in 0 .. n : n < i => f[i] \in Seq(S)
    BY <2>1
  <2>3. RestAt(c, s, f, n) \in Seq(S)
    BY <1>3, <2>1, <2>2
  <2> QED BY <1>12, <2>1, <2>3
<1> DEFINE T == {m \in Nat : \A j \in 0 .. n : n <= j + m => f[j] \in Seq(S)}
<1>14. 0 \in T
  <2>1. \A j \in 0 .. n : n <= j + 0 => j = n
    BY <1>1, <1>2
  <2> QED BY <1>13, <2>1
<1>15. ASSUME NEW m \in Nat, m \in T PROVE m + 1 \in T
  <2>1. ASSUME NEW j \in 0 .. n, n <= j + (m + 1) PROVE f[j] \in Seq(S)
    <3>1. \A i \in 0 .. n : j < i => n <= i + m
      BY <1>1, <1>2, <2>1
    <3>2. \A i \in 0 .. n : j < i => f[i] \in Seq(S)
      BY <1>15, <3>1
    <3>3. RestAt(c, s, f, j) \in Seq(S)
      BY <1>3, <3>2
    <3> QED BY <1>12, <3>3
  <2> QED BY <2>1
<1>16. n \in T
  <2> HIDE DEF T
  <2>1. \A m \in Nat : m \in T
    BY <1>14, <1>15, SetInduction
  <2> QED BY <1>1, <1>2, <2>1
<1>17. \A j \in 0 .. n : f[j] \in Seq(S)
  <2>1. \A j \in 0 .. n : n <= j + n
    BY <1>1, <1>2
  <2> QED BY <1>16, <2>1
<1>18. f \in [0 .. n -> Seq(S)]
  <2>1. PICK g : g = [j \in 0 .. n |-> RestAt(c, s, f, j)]
    OBVIOUS
  <2>2. g = f /\ \A j \in 0 .. n : g[j] \in Seq(S)
    BY <1>11, <1>17, <2>1
  <2>3. g \in [0 .. n -> Seq(S)]
    BY <2>1, <2>2
  <2> QED BY <2>2, <2>3
<1> QED BY <1>2, <1>10, <1>12, <1>18

\* One element, then the others.
LEMMA PartFirst ==
  ASSUME NEW S, NEW s \in Seq(S), NEW j \in Nat, j + 1 <= Len(s)
  PROVE  Between(s, j, j + 1) = <<s[j + 1]>> /\ s[j + 1] \in S
<1>1. Len(s) \in Nat
  BY LenProperties
<1>2. s[j + 1] \in S
  <2>1. j + 1 \in 1 .. Len(s)
    BY <1>1
  <2> QED BY <2>1, ElementOfSeq
<1>3. PICK p : p = Between(s, j, j + 1)
  OBVIOUS
<1>4. IsPart(p, S, s, j, j + 1)
  <2>1. j + 1 \in Nat /\ j <= j + 1
    OBVIOUS
  <2> QED BY <1>3, <2>1, PartIs
<1>5. p \in Seq(S) /\ Len(p) = 1 /\ p[1] = s[j + 1]
  BY <1>4 DEF IsPart
<1>6. p = <<s[j + 1]>>
  <2>1. PICK q : q = <<s[j + 1]>>
    OBVIOUS
  <2>2. q \in Seq(S) /\ Len(q) = 1 /\ q[1] = s[j + 1]
    BY <1>2, <2>1
  <2>3. Len(p) = Len(q) /\ \A i \in 1 .. Len(p) : p[i] = q[i]
    BY <1>5, <2>2
  <2> QED BY <1>5, <2>1, <2>2, <2>3, SeqEqual
<1> QED BY <1>2, <1>3, <1>6

\* What the rest of a string becomes, from its first match on.
RestFound(c, s, j, m) ==
  /\ m = Nowhere => Rest(c, s)[j] = Between(s, j, Len(s))
  /\ m # Nowhere => /\ m \in Nat /\ j <= m /\ m + MatchSize(c) <= Len(s)
                    /\ Rest(c, s)[j] = Between(s, j, m) \o (c.with \o After(c, s, m + MatchSize(c)))

LEMMA AfterIs ==
  ASSUME NEW S, NEW c, NEW s \in Seq(S), Searches(c, s), c.with \in Seq(S), NEW j \in 0 .. Len(s)
  PROVE  After(c, s, j) \in Seq(S) /\ c.with \o After(c, s, j) \in Seq(S) /\ Rest(c, s)[j] \in Seq(S)
<1>1. Rest(c, s)[j] \in Seq(S)
  BY RestSolution
<1>2. Between(s, j, Len(s)) \in Seq(S)
  <2>1. Len(s) \in Nat /\ j \in Nat /\ j <= Len(s) /\ Len(s) <= Len(s)
    BY LenProperties
  <2>2. IsPart(Between(s, j, Len(s)), S, s, j, Len(s))
    BY <2>1, PartIs
  <2> QED BY <2>2 DEF IsPart
<1>3. After(c, s, j) \in Seq(S)
  BY <1>1, <1>2 DEF After
<1> QED BY <1>1, <1>3, ConcatProperties

LEMMA RestIs ==
  ASSUME NEW S, NEW c, NEW s \in Seq(S), Searches(c, s), c.with \in Seq(S), NEW j \in 0 .. Len(s)
  PROVE  RestFound(c, s, j, Find(c, s, j))
<1>1. Len(s) \in Nat /\ MatchSize(c) \in Nat /\ 0 < MatchSize(c)
  BY DEF Searches
<1>2. PICK n, f : n = Len(s) /\ f = Rest(c, s)
  OBVIOUS
<1>3. ASSUME NEW i \in 0 .. n, i < n => RestFound(c, s, i + 1, Find(c, s, i + 1))
      PROVE  RestFound(c, s, i, Find(c, s, i))
  <2>0. i \in Nat /\ f[i] = RestAt(c, s, f, i)
    BY <1>2, RestSolution
  <2>1. CASE i + MatchSize(c) > Len(s)
    <3>1. Find(c, s, i) = Nowhere
      BY <1>1, <2>0, <2>1, FindSteps
    <3>2. f[i] = Between(s, i, Len(s))
      BY <2>0, <2>1 DEF RestAt
    <3> QED BY <1>2, <3>1, <3>2 DEF RestFound
  <2>2. CASE ~(i + MatchSize(c) > Len(s)) /\ IsMatch(c, s, i)
    <3>1. i + MatchSize(c) <= Len(s) /\ i + MatchSize(c) \in 0 .. n
      BY <1>1, <1>2, <2>0, <2>2
    <3>2. Find(c, s, i) = i /\ i # Nowhere
      BY <2>0, <2>2, <3>1, FindSteps
    <3>3. f[i] = c.with \o After(c, s, i + MatchSize(c))
      BY <1>2, <2>0, <2>2 DEF RestAt, After
    <3>4. c.with \o After(c, s, i + MatchSize(c)) \in Seq(S)
      BY <1>2, <3>1, AfterIs
    <3>5. Between(s, i, i) = <<>>
      BY <2>0, EmptyPart
    <3>6. f[i] = Between(s, i, i) \o (c.with \o After(c, s, i + MatchSize(c)))
      BY <3>3, <3>4, <3>5, ConcatEmptySeq
    <3>7. RestFound(c, s, i, i)
      <4>1. i \in Nat /\ i <= i /\ i + MatchSize(c) <= Len(s) /\ i # Nowhere
        BY <2>0, <3>1, <3>2
      <4>2. Rest(c, s)[i] = Between(s, i, i) \o (c.with \o After(c, s, i + MatchSize(c)))
        BY <1>2, <3>6
      <4> HIDE <1>2, <3>2, <3>6
      <4> QED BY ONLY <4>1, <4>2 DEF RestFound
    <3> QED BY <3>2, <3>7
  <2>3. CASE ~(i + MatchSize(c) > Len(s)) /\ ~IsMatch(c, s, i)
    <3>1. i + MatchSize(c) <= Len(s)
      BY <1>1, <2>0, <2>3
    <3>2. PICK m, k : k = i + 1 /\ m = Find(c, s, k)
      OBVIOUS
    <3>3. k \in Nat /\ k <= Len(s) /\ Find(c, s, i) = m
      BY <2>0, <2>3, <3>1, <3>2, FindSteps
    <3>4. i < n /\ i <= k /\ i + 1 <= Len(s) /\ Len(s) <= Len(s)
      BY <1>2, <2>0, <3>2, <3>3
    <3>5. RestFound(c, s, k, m)
      BY <1>3, <3>2, <3>4
    <3>6. f[i] = Between(s, i, k) \o f[k]
      <4>1. f[i] = <<s[i + 1]>> \o f[i + 1]
        BY <2>0, <2>3 DEF RestAt
      <4>2. Between(s, i, i + 1) = <<s[i + 1]>>
        BY <2>0, <3>4, PartFirst
      <4> QED BY <3>2, <4>1, <4>2
    <3>7. CASE m = Nowhere
      <4>1. f[k] = Between(s, k, Len(s))
        BY <1>2, <3>5, <3>7 DEF RestFound
      <4>2. Between(s, i, k) \o Between(s, k, Len(s)) = Between(s, i, Len(s))
        BY <1>1, <2>0, <3>3, <3>4, PartsJoin
      <4>3. f[i] = Between(s, i, Len(s))
        BY <3>6, <4>1, <4>2
      <4> QED BY <1>2, <3>3, <3>7, <4>3 DEF RestFound
    <3>8. CASE m # Nowhere
      <4>1. PICK e, x : e = m + MatchSize(c) /\ x = c.with \o After(c, s, e)
        OBVIOUS
      <4>2. m \in Nat /\ k <= m /\ e <= Len(s) /\ f[k] = Between(s, k, m) \o x
        BY <1>2, <3>5, <3>8, <4>1 DEF RestFound
      <4>3. e \in 0 .. Len(s) /\ m <= Len(s) /\ i <= m
        BY <1>1, <2>0, <3>3, <3>4, <4>1, <4>2
      <4>4. x \in Seq(S)
        BY <4>1, <4>3, AfterIs
      <4>5. Between(s, i, k) \in Seq(S) /\ Between(s, k, m) \in Seq(S)
        <5>1. IsPart(Between(s, i, k), S, s, i, k) /\ IsPart(Between(s, k, m), S, s, k, m)
          BY <2>0, <3>3, <3>4, <4>2, <4>3, PartIs
        <5> QED BY <5>1 DEF IsPart
      <4>6. Between(s, i, k) \o (Between(s, k, m) \o x) = (Between(s, i, k) \o Between(s, k, m)) \o x
        <5>1. PICK p, q : p = Between(s, i, k) /\ q = Between(s, k, m)
          OBVIOUS
        <5>2. p \in Seq(S) /\ q \in Seq(S)
          BY <4>5, <5>1
        <5>3. Groups(p, q, x)
          BY ONLY <4>4, <5>2, GroupsAll
        <5> QED BY <5>1, <5>3 DEF Groups
      <4>7. Between(s, i, k) \o Between(s, k, m) = Between(s, i, m)
        BY <2>0, <3>3, <3>4, <4>2, <4>3, PartsJoin
      <4>8. f[i] = Between(s, i, m) \o x
        BY <3>6, <4>2, <4>6, <4>7
      <4> QED BY <1>2, <3>3, <3>8, <4>1, <4>2, <4>3, <4>8 DEF RestFound
    <3> QED BY <3>7, <3>8
  <2> QED BY <2>1, <2>2, <2>3
<1> DEFINE T == {k \in Nat : \A i \in 0 .. n : n <= i + k => RestFound(c, s, i, Find(c, s, i))}
<1>4. 0 \in T
  <2>1. \A i \in 0 .. n : n <= i + 0 => ~(i < n)
    BY <1>1, <1>2
  <2> QED BY <1>3, <2>1
<1>5. ASSUME NEW k \in Nat, k \in T PROVE k + 1 \in T
  <2>1. ASSUME NEW i \in 0 .. n, n <= i + (k + 1) PROVE RestFound(c, s, i, Find(c, s, i))
    <3>1. i < n => i + 1 \in 0 .. n /\ n <= (i + 1) + k
      BY <1>1, <1>2, <2>1
    <3>2. i < n => RestFound(c, s, i + 1, Find(c, s, i + 1))
      BY <1>5, <3>1
    <3> QED BY <1>3, <3>2
  <2> QED BY <2>1
<1>6. n \in T
  <2> HIDE DEF T
  <2>1. \A k \in Nat : k \in T
    BY <1>4, <1>5, SetInduction
  <2> QED BY <1>1, <1>2, <2>1
<1>7. n <= j + n
  BY <1>1, <1>2
<1> QED BY <1>2, <1>6, <1>7

LEMMA CountIs ==
  ASSUME NEW c, NEW s, Searches(c, s), NEW j \in 0 .. Len(s), NEW m, m = Find(c, s, j)
  PROVE  /\ Count(c, s)[j] \in Nat /\ Count(c, s)[j] <= Len(s) - j
         /\ m = Nowhere => Count(c, s)[j] = 0
         /\ m # Nowhere => /\ m \in Nat /\ j <= m /\ m + MatchSize(c) <= Len(s)
                           /\ Count(c, s)[j] = 1 + Count(c, s)[m + MatchSize(c)]
<1>1. Len(s) \in Nat /\ MatchSize(c) \in Nat /\ 0 < MatchSize(c)
  BY DEF Searches
<1>2. PICK n : n = Len(s)
  OBVIOUS
<1>3. ASSUME NEW i \in 0 .. n, NEW k, k = Find(c, s, i)
      PROVE  k = Nowhere \/ (k \in Nat /\ i <= k /\ k + MatchSize(c) \in 0 .. n /\ i < k + MatchSize(c))
  <2>1. i \in Nat
    BY <1>1, <1>2
  <2>2. Finds(k, c, s, i)
    BY <1>3, <2>1, FindIs
  <2>3. k # Nowhere => k \in i .. (Len(s) - MatchSize(c))
    BY <2>2 DEF Finds
  <2>4. k \in i .. (Len(s) - MatchSize(c)) => k \in Nat /\ i <= k /\ k + MatchSize(c) \in 0 .. n /\ i < k + MatchSize(c)
    BY <1>1, <1>2, <2>1
  <2> QED BY <2>3, <2>4
<1>4. PICK G : G = [p \in [0 .. n -> Nat] \X (0 .. n) |-> CountAt(c, s, p[1], p[2])]
  OBVIOUS
<1>5. \A h \in [0 .. n -> Nat], i \in 0 .. n : G[<<h, i>>] = CountAt(c, s, h, i)
  BY <1>4
<1>6. Upward(G, n, Nat)
  <2>1. ASSUME NEW h \in [0 .. n -> Nat], NEW i \in 0 .. n PROVE CountAt(c, s, h, i) \in Nat
    <3>1. PICK k : k = Find(c, s, i)
      OBVIOUS
    <3>2. k # Nowhere => h[k + MatchSize(c)] \in Nat
      BY <1>3, <3>1
    <3> QED BY <3>1, <3>2 DEF CountAt
  <2>2. G \in [[0 .. n -> Nat] \X (0 .. n) -> Nat]
    BY <1>4, <2>1
  <2>3. ASSUME NEW g \in [0 .. n -> Nat], NEW h \in [0 .. n -> Nat], NEW i \in 0 .. n,
               \A x \in 0 .. n : i < x => g[x] = h[x]
        PROVE  G[<<g, i>>] = G[<<h, i>>]
    <3>1. PICK k : k = Find(c, s, i)
      OBVIOUS
    <3>2. k # Nowhere => h[k + MatchSize(c)] = g[k + MatchSize(c)]
      BY <1>3, <2>3, <3>1
    <3>3. CountAt(c, s, g, i) = CountAt(c, s, h, i)
      BY <3>1, <3>2 DEF CountAt
    <3> QED BY <1>5, <3>3
  <2> QED BY <2>2, <2>3 DEF Upward
<1>7. PICK h \in [0 .. n -> Nat] : h = [i \in 0 .. n |-> CountAt(c, s, h, i)]
  <2>1. n \in Nat /\ 0 \in Nat
    BY <1>1, <1>2
  <2>2. PICK h \in [0 .. n -> Nat] : h = [i \in 0 .. n |-> G[<<h, i>>]]
    <3>1. PICK V, v0 : V = Nat /\ v0 = 0
      OBVIOUS
    <3>2. v0 \in V /\ n \in Nat /\ Upward(G, n, V)
      BY <1>6, <2>1, <3>1
    <3>3. \E h \in [0 .. n -> V] : h = [i \in 0 .. n |-> G[<<h, i>>]]
      BY ONLY <3>2, UpwardSolution
    <3> QED BY <3>1, <3>3
  <2>3. [i \in 0 .. n |-> G[<<h, i>>]] = [i \in 0 .. n |-> CountAt(c, s, h, i)]
    BY <1>5
  <2> QED BY <2>2, <2>3
<1>8. PICK f : f = Count(c, s)
  OBVIOUS
<1>9. f = [i \in 0 .. n |-> CountAt(c, s, f, i)]
  BY <1>2, <1>7, <1>8 DEF Count
<1>10. \A i \in 0 .. n : f[i] = CountAt(c, s, f, i)
  BY <1>9
<1>11. ASSUME NEW i \in 0 .. n, \A x \in 0 .. n : i < x => f[x] \in Nat /\ f[x] <= n - x
       PROVE  f[i] \in Nat /\ f[i] <= n - i
  <2>1. PICK k : k = Find(c, s, i)
    OBVIOUS
  <2>2. f[i] = IF k = Nowhere THEN 0 ELSE 1 + f[k + MatchSize(c)]
    BY <1>10, <2>1 DEF CountAt
  <2>3. CASE k = Nowhere
    BY <1>1, <1>2, <2>2, <2>3
  <2>4. CASE k # Nowhere
    <3>1. PICK x, y : x = k + MatchSize(c) /\ y = f[x]
      OBVIOUS
    <3>2. x \in 0 .. n /\ i < x
      BY <1>3, <2>1, <2>4, <3>1
    <3>3. y \in Nat /\ y <= n - x /\ f[i] = 1 + y
      BY <1>11, <2>2, <2>4, <3>1, <3>2
    <3> QED BY <1>1, <1>2, <3>2, <3>3
  <2> QED BY <2>3, <2>4
<1> DEFINE T == {k \in Nat : \A i \in 0 .. n : n <= i + k => f[i] \in Nat /\ f[i] <= n - i}
<1>12. 0 \in T
  <2>1. ASSUME NEW i \in 0 .. n, n <= i + 0 PROVE f[i] \in Nat /\ f[i] <= n - i
    <3>1. \A x \in 0 .. n : ~(i < x)
      BY <1>1, <1>2, <2>1
    <3> QED BY <1>11, <3>1
  <2> QED BY <2>1
<1>13. ASSUME NEW k \in Nat, k \in T PROVE k + 1 \in T
  <2>1. ASSUME NEW i \in 0 .. n, n <= i + (k + 1) PROVE f[i] \in Nat /\ f[i] <= n - i
    <3>1. \A x \in 0 .. n : i < x => n <= x + k
      BY <1>1, <1>2, <2>1
    <3>2. \A x \in 0 .. n : i < x => f[x] \in Nat /\ f[x] <= n - x
      BY <1>13, <3>1
    <3> QED BY <1>11, <3>2
  <2> QED BY <2>1
<1>14. n \in T
  <2> HIDE DEF T
  <2>1. \A k \in Nat : k \in T
    BY <1>12, <1>13, SetInduction
  <2> QED BY <1>1, <1>2, <2>1
<1>15. f[j] \in Nat /\ f[j] <= n - j
  <2>1. n <= j + n
    BY <1>1, <1>2
  <2> QED BY <1>2, <1>14, <2>1
<1>16. f[j] = IF m = Nowhere THEN 0 ELSE 1 + f[m + MatchSize(c)]
  BY <1>2, <1>10 DEF CountAt
<1>17. m # Nowhere => m \in Nat /\ j <= m /\ m + MatchSize(c) <= Len(s)
  <2>1. m # Nowhere => m \in Nat /\ j <= m /\ m + MatchSize(c) \in 0 .. n
    BY <1>2, <1>3
  <2> QED BY <1>1, <1>2, <2>1
<1> QED BY <1>2, <1>8, <1>15, <1>16, <1>17

-----------------------------------------------------------------------------
(* Calls                                                                   *)

Chars == Text \cup {Nul}

\* Products, as far as they are needed.
LEMMA ProductIs ==
  ASSUME NEW a \in Nat, NEW b \in Nat
  PROVE  a * b \in Nat /\ a * b = b * a /\ a * (1 + b) = a + a * b /\ (0 < a /\ 0 < b => 0 < a * b)
OBVIOUS

LEMMA ProductGrows ==
  ASSUME NEW a \in Nat, NEW b \in Nat, NEW x \in Nat, NEW y \in Nat, a <= x, b <= y
  PROVE  a * b <= x * y
<1>1. PICK d \in Nat, e \in Nat : x = a + d /\ y = b + e
  <2>1. x - a \in Nat /\ y - b \in Nat /\ x = a + (x - a) /\ y = b + (y - b)
    OBVIOUS
  <2> QED BY <2>1
<1>2. x * y = a * b + a * e + d * b + d * e
  BY <1>1
<1>3. a * b \in Nat /\ a * e \in Nat /\ d * b \in Nat /\ d * e \in Nat
  BY ProductIs
<1> QED BY <1>2, <1>3

\* The strings of a call, and the longest one that it makes.
Longest == MaxString + MaxReplace * MaxString

LEMMA NowhereIsFar ==
  Longest \in Nat /\ MaxString <= Longest /\ Nowhere \in Nat /\ Longest < Nowhere
<1>1. MaxString \in Nat /\ MaxReplace \in Nat
  BY ReplaceAssumption
<1>2. PICK k : k = MaxReplace * MaxString
  OBVIOUS
<1>3. k \in Nat
  BY <1>1, <1>2, ProductIs
<1>4. 2 * MaxString * MaxReplace = 2 * k
  BY <1>1, <1>2
<1>5. Nowhere = MaxString + 2 * k + 1
  BY <1>4 DEF Nowhere
<1>6. Longest = MaxString + k
  BY <1>2 DEF Longest
<1> QED BY <1>1, <1>3, <1>5, <1>6

LEMMA CallIs ==
  ASSUME NEW c \in Calls
  PROVE  /\ c.old \in Seq(Chars) /\ Len(c.old) \in Nat /\ Len(c.old) <= MaxString
         /\ c.with \in Seq(Chars) /\ Len(c.with) \in Nat /\ Len(c.with) <= MaxReplace
         /\ c.find \in Seq(Text) /\ c.offset \in Nat /\ MatchSize(c) \in Nat
         /\ MaxString \in Nat /\ MaxReplace \in Nat
<1>1. /\ MaxString \in Nat /\ MaxReplace \in Nat /\ MaxFind \in Nat /\ MaxOffset \in Nat
  BY ReplaceAssumption
<1>2. /\ c.find \in SeqOf(Text, MaxFind) /\ c.with \in SeqOf(Text, MaxReplace)
      /\ c.old \in SeqOf(Text, MaxString) /\ c.offset \in 0 .. MaxOffset
  BY DEF Calls
<1>3. c.find \in Seq(Text)
  BY <1>1, <1>2, SeqOfIs
<1>4. c.with \in Seq(Text) /\ Len(c.with) \in 0 .. MaxReplace
  BY <1>1, <1>2, SeqOfIs
<1>5. c.old \in Seq(Text) /\ Len(c.old) \in 0 .. MaxString
  BY <1>1, <1>2, SeqOfIs
<1>6. Text \subseteq Chars
  BY DEF Chars
<1>7. c.with \in Seq(Chars) /\ c.old \in Seq(Chars)
  BY <1>4, <1>5, <1>6, SeqMonotonic
<1>8. Len(c.find) \in Nat
  BY <1>3, LenProperties
<1>9. MatchSize(c) \in Nat
  BY <1>8 DEF MatchSize
<1> QED BY <1>1, <1>2, <1>3, <1>4, <1>5, <1>7, <1>9

LEMMA CanSearch ==
  ASSUME NEW c \in Calls, 0 < MatchSize(c)
  PROVE  /\ Searches(c, c.old)
         /\ \A t : Len(t) \in Nat /\ Len(t) <= Longest => Searches(c, t)
<1>1. \A t : Len(t) \in Nat /\ Len(t) <= Longest => Searches(c, t)
  BY CallIs, NowhereIsFar DEF Searches
<1>2. Len(c.old) \in Nat /\ Len(c.old) <= Longest
  BY CallIs, NowhereIsFar
<1> QED BY <1>1, <1>2

\* What a call is to make of its string.
Result(c) == Between(c.old, 0, c.offset) \o Rest(c, c.old)[c.offset]

Finds1st(c, f) ==
  /\ c \in Calls /\ 0 < MatchSize(c) /\ c.offset <= Len(c.old)
  /\ f \in Nat /\ f # Nowhere /\ c.offset <= f /\ f + MatchSize(c) <= Len(c.old)
  /\ Find(c, c.old, f) = f

LEMMA FirstMatchIs ==
  ASSUME NEW c \in Calls, Matches(c), NEW f, f = FirstMatch(c)
  PROVE  /\ Finds1st(c, f)
         /\ Result(c) = Between(c.old, 0, f) \o (c.with \o After(c, c.old, f + MatchSize(c)))
         /\ WithMatchesReplaced(c, c.old, c.offset) = Result(c)
<1>1. /\ c.old \in Seq(Chars) /\ Len(c.old) \in Nat /\ c.with \in Seq(Chars) /\ c.offset \in Nat /\ MatchSize(c) \in Nat
  BY CallIs
<1>2. 0 < MatchSize(c) /\ f = Find(c, c.old, c.offset) /\ f # Nowhere /\ ~IsEmptyFind(c)
  BY <1>1 DEF Matches, FirstMatch, IsEmptyFind
<1>3. Searches(c, c.old)
  BY <1>2, CanSearch
<1>4. Finds(f, c, c.old, c.offset)
  BY <1>1, <1>2, <1>3, FindIs
<1>5. f \in c.offset .. (Len(c.old) - MatchSize(c)) /\ IsMatch(c, c.old, f)
  BY <1>2, <1>4 DEF Finds
<1>6. f \in Nat /\ c.offset <= f /\ f + MatchSize(c) <= Len(c.old) /\ c.offset \in 0 .. Len(c.old) /\ f <= Len(c.old)
  BY <1>1, <1>5
<1>7. Find(c, c.old, f) = f
  BY <1>3, <1>5, <1>6, FindSteps
<1>8. Finds1st(c, f)
  BY <1>1, <1>2, <1>6, <1>7 DEF Finds1st
<1>9. RestFound(c, c.old, c.offset, f)
  BY <1>1, <1>2, <1>3, <1>6, RestIs
<1>10. PICK o, i, x : o = c.old /\ i = c.offset /\ x = c.with \o After(c, c.old, f + MatchSize(c))
  OBVIOUS
<1>11. Rest(c, c.old)[i] = Between(o, i, f) \o x
  BY <1>2, <1>9, <1>10 DEF RestFound
<1>12. x \in Seq(Chars)
  <2>1. f + MatchSize(c) \in 0 .. Len(c.old)
    BY <1>1, <1>6
  <2> QED BY <1>1, <1>3, <1>10, <2>1, AfterIs
<1>13. PICK p, q : p = Between(o, 0, i) /\ q = Between(o, i, f)
  OBVIOUS
<1>14. p \in Seq(Chars) /\ q \in Seq(Chars) /\ p \o q = Between(o, 0, f)
  <2>1. o \in Seq(Chars) /\ i \in Nat /\ f \in Nat /\ 0 \in Nat /\ 0 <= i /\ i <= f /\ i <= Len(o) /\ f <= Len(o)
    BY <1>1, <1>6, <1>10
  <2>2. IsPart(p, Chars, o, 0, i) /\ IsPart(q, Chars, o, i, f)
    BY <1>13, <2>1, PartIs
  <2>3. p \o q = Between(o, 0, f)
    BY <1>13, <2>1, PartsJoin
  <2> QED BY <2>2, <2>3 DEF IsPart
<1>15. Groups(p, q, x)
  <2>1. p \in Seq(Chars)
    BY <1>14
  <2>2. q \in Seq(Chars)
    BY <1>14
  <2> QED BY ONLY <1>12, <2>1, <2>2, GroupsAll
<1>16. Result(c) = Between(c.old, 0, f) \o x
  BY <1>10, <1>11, <1>13, <1>14, <1>15 DEF Result, Groups
<1>17. WithMatchesReplaced(c, c.old, c.offset) = Result(c)
  <2>1. ~(c.offset > Len(c.old))
    BY <1>1, <1>6
  <2> QED BY <1>2, <2>1, ResultIs DEF Result
<1> QED BY <1>8, <1>10, <1>16, <1>17

\* Where there is nothing to replace, the string is what the function makes of it.
LEMMA NothingIs ==
  ASSUME NEW c \in Calls, ~Matches(c)
  PROVE  WithMatchesReplaced(c, c.old, c.offset) = c.old
<1>1. /\ c.old \in Seq(Chars) /\ Len(c.old) \in Nat /\ c.with \in Seq(Chars) /\ c.offset \in Nat /\ MatchSize(c) \in Nat
  BY CallIs
<1>2. CASE c.offset > Len(c.old) \/ IsEmptyFind(c)
  BY <1>2, ResultIs
<1>3. CASE ~(c.offset > Len(c.old)) /\ ~IsEmptyFind(c)
  <2>1. 0 < MatchSize(c) /\ Find(c, c.old, c.offset) = Nowhere /\ c.offset \in 0 .. Len(c.old)
    BY <1>1, <1>3 DEF Matches, FirstMatch, IsEmptyFind
  <2>2. Searches(c, c.old)
    BY <2>1, CanSearch
  <2>3. RestFound(c, c.old, c.offset, Nowhere)
    BY <1>1, <2>1, <2>2, RestIs
  <2>4. Rest(c, c.old)[c.offset] = Between(c.old, c.offset, Len(c.old))
    BY <2>3 DEF RestFound
  <2>5. Between(c.old, 0, c.offset) \o Between(c.old, c.offset, Len(c.old)) = Between(c.old, 0, Len(c.old))
    <3>1. 0 \in Nat /\ 0 <= c.offset /\ c.offset <= Len(c.old) /\ Len(c.old) <= Len(c.old)
      BY <1>1, <2>1
    <3> QED BY <1>1, <3>1, PartsJoin
  <2>6. Between(c.old, 0, Len(c.old)) = c.old
    BY <1>1, WholePart
  <2> QED BY <1>3, <2>4, <2>5, <2>6, ResultIs
<1> QED BY <1>2, <1>3

-----------------------------------------------------------------------------
(* The loops                                                               *)

Working(c) == c \in Calls /\ ~c.first /\ 0 < MatchSize(c) /\ c.offset <= Len(c.old)

\* t is done up to the match at position r, and the rest is still there.
Overwriting(c, t, r) ==
  LET u == r + MatchSize(c)
  IN /\ Len(c.with) = MatchSize(c) /\ Len(t) = Len(c.old)
     /\ SameTail(t, u, c.old, u)
     /\ Between(t, 0, r) \o (c.with \o Rest(c, c.old)[u]) = Result(c)

\* t is done up to position r of the string, and there is a match from i on.
Appending(c, t, r) ==
  LET i == IF r = 0 THEN c.offset ELSE r
  IN /\ r <= i /\ i <= Len(c.old) /\ Find(c, c.old, i) # Nowhere
     /\ t \o (Between(c.old, r, i) \o Rest(c, c.old)[i]) = Result(c)

\* t is done up to position w; the rest of the string is behind the match at r, and
\* between them is the room that the longer replacements will take.
Shifting(c, t, w, r) ==
  LET u == r + MatchSize(c)
      j == Len(c.old) - (Len(t) - u)
      end == w + Len(c.with)
  IN /\ w <= r /\ end <= u /\ u <= Len(t) /\ Len(t) <= Longest
     /\ SameTail(t, u, c.old, j)
     /\ MatchSize(c) < Len(c.with) =>
          u - end = (Len(c.with) - MatchSize(c)) * Count(c, c.old)[j]
     /\ Between(t, 0, w) \o (c.with \o Rest(c, c.old)[j]) = Result(c)

\* What a round begins with, in the loops that go over the string.
LEMMA Works ==
  ASSUME NEW c, Working(c)
  PROVE  /\ c \in Calls /\ Searches(c, c.old) /\ MatchSize(c) \in Nat /\ 0 < MatchSize(c)
         /\ c.old \in Seq(Chars) /\ Len(c.old) \in Nat /\ Len(c.old) <= Longest
         /\ c.with \in Seq(Chars) /\ Len(c.with) \in Nat /\ c.offset \in 0 .. Len(c.old)
         /\ WithMatchesReplaced(c, c.old, c.offset) = Result(c)
         /\ \A j \in 0 .. Len(c.old) : /\ Rest(c, c.old)[j] \in Seq(Chars)
                                      /\ c.with \o Rest(c, c.old)[j] \in Seq(Chars)
<1>1. /\ c \in Calls /\ ~c.first /\ 0 < MatchSize(c) /\ c.offset <= Len(c.old)
  BY DEF Working
<1>2. /\ c.old \in Seq(Chars) /\ Len(c.old) \in Nat /\ c.with \in Seq(Chars) /\ Len(c.with) \in Nat
      /\ c.offset \in Nat /\ MatchSize(c) \in Nat /\ Len(c.old) <= MaxString /\ MaxString \in Nat
  BY <1>1, CallIs
<1>3. Searches(c, c.old)
  BY <1>1, CanSearch
<1>4. Len(c.old) <= Longest
  BY <1>2, NowhereIsFar
<1>5. WithMatchesReplaced(c, c.old, c.offset) = Result(c)
  <2>1. ~(c.offset > Len(c.old)) /\ ~IsEmptyFind(c)
    BY <1>1, <1>2 DEF IsEmptyFind
  <2> QED BY <2>1, ResultIs DEF Result
<1>6. ASSUME NEW j \in 0 .. Len(c.old)
      PROVE  Rest(c, c.old)[j] \in Seq(Chars) /\ c.with \o Rest(c, c.old)[j] \in Seq(Chars)
  <2>1. After(c, c.old, j) = Rest(c, c.old)[j]
    BY <1>1 DEF After
  <2>2. After(c, c.old, j) \in Seq(Chars) /\ c.with \o After(c, c.old, j) \in Seq(Chars)
    BY <1>2, <1>3, AfterIs
  <2> QED BY <2>1, <2>2
<1>7. c.offset \in 0 .. Len(c.old)
  BY <1>1, <1>2
<1> QED BY <1>1, <1>2, <1>3, <1>4, <1>5, <1>6, <1>7

\* What the rest of the string is, in the loops that replace every match.
LEMMA RestWorks ==
  ASSUME NEW c, Working(c), NEW j \in 0 .. Len(c.old), NEW m, m = Find(c, c.old, j)
  PROVE  /\ m = Nowhere => Rest(c, c.old)[j] = Between(c.old, j, Len(c.old))
         /\ m # Nowhere =>
              /\ m \in Nat /\ j <= m /\ m + MatchSize(c) \in 0 .. Len(c.old) /\ m < m + MatchSize(c)
              /\ Rest(c, c.old)[j] = Between(c.old, j, m) \o (c.with \o Rest(c, c.old)[m + MatchSize(c)])
<1>1. /\ Searches(c, c.old) /\ c.old \in Seq(Chars) /\ c.with \in Seq(Chars) /\ Len(c.old) \in Nat
      /\ MatchSize(c) \in Nat /\ 0 < MatchSize(c)
  BY Works
<1>2. RestFound(c, c.old, j, m)
  BY <1>1, RestIs
<1>3. m # Nowhere => After(c, c.old, m + MatchSize(c)) = Rest(c, c.old)[m + MatchSize(c)]
  BY DEF After, Working
<1>4. m # Nowhere => m \in Nat /\ j <= m /\ m + MatchSize(c) <= Len(c.old)
  BY <1>2 DEF RestFound
<1>5. m # Nowhere => m + MatchSize(c) \in 0 .. Len(c.old) /\ m < m + MatchSize(c)
  BY <1>1, <1>4
<1> QED BY <1>2, <1>3, <1>4, <1>5 DEF RestFound

Regroups(S, b, w, d, x) ==
  /\ (b \o w) \o x = b \o (w \o x)
  /\ ((b \o w) \o d) \o x = b \o (w \o (d \o x))
  /\ b \o w \in Seq(S) /\ (b \o w) \o d \in Seq(S)

\* b is done, w the replacement, d what is left before the next match, and x the rest.
LEMMA Regroup ==
  ASSUME NEW S, NEW b \in Seq(S), NEW w \in Seq(S), NEW d \in Seq(S), NEW x \in Seq(S)
  PROVE  Regroups(S, b, w, d, x)
<1>1. b \o w \in Seq(S) /\ d \o x \in Seq(S)
  BY ConcatProperties
<1>2. Groups(b, w, x)
  BY GroupsAll
<1>3. PICK y, z : y = b \o w /\ z = d \o x
  OBVIOUS
<1>4. y \in Seq(S) /\ z \in Seq(S)
  BY <1>1, <1>3
<1>5. Groups(y, d, x)
  BY <1>4, GroupsAll
<1>6. Groups(b, w, z)
  BY <1>4, GroupsAll
<1>7. y \o d \in Seq(S)
  BY <1>4, ConcatProperties
<1> QED BY <1>1, <1>2, <1>3, <1>5, <1>6, <1>7 DEF Regroups, Groups

\* A round of the loop that overwrites.
LEMMA OverwriteGoes ==
  ASSUME NEW c, Working(c), NEW t \in Seq(Chars), NEW r \in Nat, Overwriting(c, t, r),
         NEW v, v = Overwrite(t, r, c.with), NEW next, next = Find(c, v, r + Len(c.with))
  PROVE  /\ v \in Seq(Chars)
         /\ next = Nowhere => v = WithMatchesReplaced(c, c.old, c.offset)
         /\ next # Nowhere => next \in Nat /\ Overwriting(c, v, next)
<1>1. /\ c \in Calls /\ Searches(c, c.old) /\ MatchSize(c) \in Nat /\ 0 < MatchSize(c)
      /\ c.old \in Seq(Chars) /\ Len(c.old) \in Nat /\ Len(c.old) <= Longest
      /\ c.with \in Seq(Chars) /\ Len(c.with) \in Nat
      /\ WithMatchesReplaced(c, c.old, c.offset) = Result(c)
  BY Works
<1>2. PICK u, o, w, n : u = r + Len(c.with) /\ o = c.old /\ w = c.with /\ n = Len(o)
  OBVIOUS
<1>3. /\ Len(w) = MatchSize(c) /\ Len(t) = n /\ u = r + MatchSize(c)
      /\ SameTail(t, u, o, u) /\ Between(t, 0, r) \o (w \o Rest(c, o)[u]) = Result(c)
  BY <1>2 DEF Overwriting
<1>4. u \in Nat /\ u <= n /\ u \in 0 .. n /\ r <= u /\ r <= n /\ n \in Nat /\ r + Len(w) = u /\ Len(t) = Len(o) /\ Len(o) = n
  <2>1. u \in Nat /\ u <= n
    BY <1>2, <1>3 DEF SameTail
  <2> QED BY <1>1, <1>2, <1>3, <2>1
<1>5. /\ v \in Seq(Chars) /\ Len(v) = n /\ Between(v, 0, u) = Between(t, 0, r) \o w
  <2>1. r + Len(w) <= Len(t) /\ v = Overwrite(t, r, w) /\ w \in Seq(Chars)
    BY <1>1, <1>2, <1>3, <1>4
  <2>2. v \in Seq(Chars) /\ Len(v) = Len(t) /\ Between(v, 0, r + Len(w)) = Between(t, 0, r) \o w
    <3>1. Overwritten(Chars, t, r, w, v)
      BY <2>1, OverwriteIs
    <3> QED BY <3>1 DEF Overwritten
  <2> QED BY <1>3, <1>4, <2>2
<1>6. SameTail(v, u, o, u)
  <2>1. r + Len(w) <= Len(t) /\ v = Overwrite(t, r, w) /\ w \in Seq(Chars) /\ o \in Seq(Chars) /\ r + Len(w) <= u
    BY <1>1, <1>2, <1>3, <1>4
  <2> QED BY <1>3, <2>1, OverwriteTail
<1>0. v \in Seq(Chars) /\ o \in Seq(Chars)
  BY <1>1, <1>2, <1>5
<1>7. PICK m, b, x : m = Find(c, o, u) /\ b = Between(t, 0, r) /\ x = Rest(c, o)[u]
  OBVIOUS
<1>8. b \in Seq(Chars) /\ w \in Seq(Chars) /\ x \in Seq(Chars)
  <2>1. IsPart(b, Chars, t, 0, r)
    <3>1. 0 \in Nat /\ 0 <= r /\ r <= Len(t)
      BY <1>3, <1>4
    <3> QED BY <1>7, <3>1, PartIs
  <2>2. x \in Seq(Chars)
    BY <1>2, <1>4, <1>7, Works
  <2> QED BY <1>1, <1>2, <2>1, <2>2 DEF IsPart
<1>9. Between(v, 0, u) \in Seq(Chars) /\ Between(v, 0, u) \o x = Result(c)
  <2>1. (b \o w) \o x = b \o (w \o x) /\ b \o w \in Seq(Chars)
    <3>1. Regroups(Chars, b, w, w, x)
      BY <1>8, Regroup
    <3> QED BY <3>1 DEF Regroups
  <2> QED BY <1>3, <1>5, <1>7, <2>1
<1>10. /\ m = Nowhere => next = Nowhere
       /\ m # Nowhere => next = m
  <2>1. Searches(c, v)
    BY <1>1, <1>2, <1>4, <1>5, CanSearch
  <2>2. /\ m = Nowhere => Find(c, v, u) = Nowhere
        /\ m # Nowhere => m \in Nat /\ u <= m /\ Find(c, v, u) = u + (m - u)
    BY <1>1, <1>2, <1>5, <1>6, <1>7, <2>1, FindMoves
  <2>3. m # Nowhere => u + (m - u) = m
    BY <1>4, <2>2
  <2> QED BY <1>2, <2>2, <2>3
<1>11. /\ m = Nowhere => x = Between(o, u, n)
       /\ m # Nowhere =>
            /\ m \in Nat /\ u <= m /\ m + MatchSize(c) \in 0 .. n /\ m < m + MatchSize(c)
            /\ x = Between(o, u, m) \o (w \o Rest(c, o)[m + MatchSize(c)])
  BY <1>2, <1>4, <1>7, RestWorks
<1>12. CASE m = Nowhere
  <2>1. Between(v, u, n) = Between(o, u, n)
    <3>1. 0 \in Nat /\ n - u \in Nat /\ 0 <= n - u /\ n - u <= Len(o) - u /\ u + 0 = u /\ u + (n - u) = n
      BY ONLY <1>4
    <3>2. PICK k : k = n - u
      OBVIOUS
    <3>3. Between(v, u + 0, u + k) = Between(o, u + 0, u + k)
      BY ONLY <1>0, <1>6, <3>1, <3>2, TailParts
    <3> QED BY <3>1, <3>2, <3>3
  <2>2. Between(v, 0, u) \o Between(v, u, n) = Between(v, 0, n)
    <3>1. 0 \in Nat /\ 0 <= u /\ n <= Len(v) /\ u \in Nat /\ n \in Nat /\ u <= n
      BY <1>4, <1>5
    <3> QED BY ONLY <1>0, <3>1, PartsJoin
  <2>3. Between(v, 0, n) = v
    BY <1>5, WholePart
  <2> QED BY <1>1, <1>5, <1>9, <1>10, <1>11, <1>12, <2>1, <2>2, <2>3
<1>13. CASE m # Nowhere
  <2>1. PICK e, y : e = m + MatchSize(c) /\ y = w \o Rest(c, o)[m + MatchSize(c)]
    OBVIOUS
  <2>2. m \in Nat /\ u <= m /\ e \in 0 .. n /\ m < e /\ x = Between(o, u, m) \o y
    BY <1>11, <1>13, <2>1
  <2>3. y \in Seq(Chars)
    BY <1>2, <2>1, <2>2, Works
  <2>4. Between(v, u, m) = Between(o, u, m) /\ Between(v, u, m) \in Seq(Chars)
    <3>1. 0 \in Nat /\ m - u \in Nat /\ 0 <= m - u /\ m - u <= Len(o) - u /\ u + 0 = u /\ u + (m - u) = m /\ m <= Len(v)
      BY <1>2, <1>4, <1>5, <2>2
    <3>4. PICK k : k = m - u
      OBVIOUS
    <3>5. Between(v, u + 0, u + k) = Between(o, u + 0, u + k)
      BY ONLY <1>0, <1>6, <3>1, <3>4, TailParts
    <3>2. Between(v, u + 0, u + (m - u)) = Between(o, u + 0, u + (m - u))
      BY <3>4, <3>5
    <3>3. IsPart(Between(v, u, m), Chars, v, u, m)
      BY <1>4, <1>5, <2>2, <3>1, PartIs
    <3> QED BY <3>1, <3>2, <3>3 DEF IsPart
  <2>5. Between(v, 0, u) \o Between(v, u, m) = Between(v, 0, m)
    <3>1. 0 \in Nat /\ 0 <= u /\ m <= Len(v) /\ u \in Nat /\ m \in Nat /\ u <= m
      BY <1>4, <1>5, <2>2
    <3> QED BY ONLY <1>0, <3>1, PartsJoin
  <2>6. Between(v, 0, m) \o y = Result(c)
    <3>1. PICK p, q : p = Between(v, 0, u) /\ q = Between(v, u, m)
      OBVIOUS
    <3>2. p \in Seq(Chars)
      BY <1>9, <3>1
    <3>3. q \in Seq(Chars)
      BY <2>4, <3>1
    <3>4. Groups(p, q, y)
      BY ONLY <2>3, <3>2, <3>3, GroupsAll
    <3> QED BY <1>9, <2>2, <2>4, <2>5, <3>1, <3>4 DEF Groups
  <2>7. SameTail(v, e, o, e)
    <3>1. e - u \in Nat /\ e - u <= Len(o) - u /\ u + (e - u) = e
      BY <1>2, <1>4, <2>2
    <3>2. SameTail(v, u + (e - u), o, u + (e - u))
      BY <1>1, <1>2, <1>5, <1>6, <3>1, TailBehind
    <3> QED BY <3>1, <3>2
  <2>8. Overwriting(c, v, m)
    BY <1>2, <1>3, <1>5, <2>1, <2>6, <2>7 DEF Overwriting
  <2> QED BY <1>5, <1>10, <1>13, <2>2, <2>8
<1> QED BY <1>12, <1>13

\* What a round of the loop that appends makes, g, and where it has come to, e.
Appended(c, g, e) ==
  /\ g \in Seq(Chars) /\ e \in Nat
  /\ Find(c, c.old, e) = Nowhere =>
       /\ g \o Between(c.old, e, Len(c.old)) \in Seq(Chars)
       /\ g \o Between(c.old, e, Len(c.old)) = WithMatchesReplaced(c, c.old, c.offset)
  /\ Find(c, c.old, e) # Nowhere => Appending(c, g, e)

LEMMA AppendGoes ==
  ASSUME NEW c, Working(c), NEW t \in Seq(Chars), NEW r \in Nat, Appending(c, t, r),
         NEW m, m = Find(c, c.old, IF r = 0 THEN c.offset ELSE r),
         NEW e, e = m + MatchSize(c), NEW g, g = t \o Between(c.old, r, m) \o c.with
  PROVE  Appended(c, g, e)
<1>1. /\ c \in Calls /\ Searches(c, c.old) /\ MatchSize(c) \in Nat /\ 0 < MatchSize(c)
      /\ c.old \in Seq(Chars) /\ Len(c.old) \in Nat /\ c.offset \in 0 .. Len(c.old)
      /\ c.with \in Seq(Chars) /\ Len(c.with) \in Nat
      /\ WithMatchesReplaced(c, c.old, c.offset) = Result(c)
  BY Works
<1>2. PICK i, o, w, n : i = (IF r = 0 THEN c.offset ELSE r) /\ o = c.old /\ w = c.with /\ n = Len(o)
  OBVIOUS
<1>3. /\ r <= i /\ i <= n /\ m # Nowhere /\ m = Find(c, o, i)
      /\ t \o (Between(o, r, i) \o Rest(c, o)[i]) = Result(c)
  BY <1>2 DEF Appending
<1>4. i \in Nat /\ i \in 0 .. n /\ n \in Nat
  BY <1>1, <1>2, <1>3
<1>5. PICK x : x = Rest(c, o)[e]
  OBVIOUS
<1>6. /\ m \in Nat /\ i <= m /\ e \in 0 .. n /\ m < e
      /\ Rest(c, o)[i] = Between(o, i, m) \o (w \o x)
  BY <1>2, <1>3, <1>4, <1>5, RestWorks
<1>7. x \in Seq(Chars) /\ w \o x \in Seq(Chars) /\ w \in Seq(Chars) /\ o \in Seq(Chars)
  BY <1>1, <1>2, <1>5, <1>6, Works
<1>8. PICK p, q, d : p = Between(o, r, i) /\ q = Between(o, i, m) /\ d = Between(o, r, m)
  OBVIOUS
<1>9. p \in Seq(Chars) /\ q \in Seq(Chars) /\ d \in Seq(Chars) /\ p \o q = d
  <2>1. r <= m /\ m <= Len(o) /\ i <= Len(o)
    BY <1>2, <1>3, <1>4, <1>6
  <2>2. IsPart(p, Chars, o, r, i) /\ IsPart(q, Chars, o, i, m) /\ IsPart(d, Chars, o, r, m)
    BY <1>3, <1>4, <1>6, <1>7, <1>8, <2>1, PartIs
  <2>3. p \o q = d
    BY <1>3, <1>4, <1>6, <1>7, <1>8, <2>1, PartsJoin
  <2> QED BY <2>2, <2>3 DEF IsPart
<1>10. p \o (q \o (w \o x)) = d \o (w \o x)
  <2>1. p \in Seq(Chars)
    BY <1>9
  <2>2. q \in Seq(Chars)
    BY <1>9
  <2>3. PICK y : y = w \o x
    OBVIOUS
  <2>4. y \in Seq(Chars)
    BY <1>7, <2>3
  <2>5. Groups(p, q, y)
    BY ONLY <2>1, <2>2, <2>4, GroupsAll
  <2> QED BY <1>9, <2>3, <2>5 DEF Groups
<1>11. t \o (d \o (w \o x)) = Result(c)
  BY <1>3, <1>6, <1>8, <1>10
<1>12. ((t \o d) \o w) \o x = t \o (d \o (w \o x)) /\ (t \o d) \o w \in Seq(Chars)
  <2>1. Regroups(Chars, t, d, w, x)
    BY <1>7, <1>9, Regroup
  <2> QED BY <2>1 DEF Regroups
<1>13. g = (t \o d) \o w
  BY <1>2, <1>8
<1>14. g \in Seq(Chars) /\ g \o x = Result(c) /\ e \in Nat
  <2>1. e \in Nat
    BY <1>4, <1>6
  <2>2. g \o x = Result(c)
    BY <1>11, <1>12, <1>13
  <2> QED BY <1>12, <1>13, <2>1, <2>2
<1>15. CASE Find(c, o, e) = Nowhere
  <2>1. x = Between(o, e, n)
    BY <1>2, <1>5, <1>6, <1>15, RestWorks
  <2>2. g \o Between(o, e, n) \in Seq(Chars)
    BY <1>7, <1>14, <2>1, ConcatProperties
  <2> QED BY <1>1, <1>2, <1>14, <1>15, <2>1, <2>2 DEF Appended
<1>16. CASE Find(c, o, e) # Nowhere
  <2>1. Between(o, e, e) = <<>>
    BY <1>14, EmptyPart
  <2>2. <<>> \o x = x
    BY <1>7, ConcatEmptySeq
  <2>3. e # 0 /\ e <= e /\ e <= n
    BY <1>4, <1>6, <1>14
  <2>4. g \o (Between(o, e, e) \o Rest(c, o)[e]) = Result(c)
    BY <1>5, <1>14, <2>1, <2>2
  <2>5. Appending(c, g, e)
    BY <1>2, <1>16, <2>3, <2>4 DEF Appending
  <2> QED BY <1>2, <1>14, <1>16, <2>5 DEF Appended
<1> QED BY <1>2, <1>15, <1>16

LEMMA ResizeIs ==
  ASSUME NEW S, NEW s \in Seq(S), NEW n \in Nat, n <= Len(s)
  PROVE  Resize(s, n) = Between(s, 0, n) /\ Resize(s, n) \in Seq(S)
<1>1. IsPart(Between(s, 0, n), S, s, 0, n)
  <2>1. 0 \in Nat /\ 0 <= n
    OBVIOUS
  <2> QED BY <2>1, PartIs
<1>2. PICK p, q : p = Between(s, 0, n) /\ q = Resize(s, n)
  OBVIOUS
<1>3. p \in Seq(S) /\ Len(p) = n /\ \A i \in 1 .. n : p[i] = s[i]
  BY <1>1, <1>2 DEF IsPart
<1>4. q = [i \in 1 .. n |-> s[i]]
  <2>1. \A i \in 1 .. n : i <= Len(s)
    BY LenProperties
  <2> QED BY <1>2, <2>1 DEF Resize
<1>5. \A i \in 1 .. n : s[i] \in S
  <2>1. \A i \in 1 .. n : i \in 1 .. Len(s)
    BY LenProperties
  <2> QED BY <2>1, ElementOfSeq
<1>6. q \in Seq(S) /\ Len(q) = n
  BY <1>4, <1>5
<1>7. \A i \in 1 .. n : q[i] = p[i]
  BY <1>3, <1>4
<1> QED BY <1>2, <1>3, <1>6, <1>7, SeqEqual

\* b and what is behind it, the replacement w and what comes before the next match,
\* are written, and what is further on is left.
Moved(S, t, w, o, b, u, j, k, d, q) ==
  /\ d \in Seq(S) /\ q \in Seq(S) /\ Len(q) = Len(t)
  /\ Between(q, 0, b + Len(w) + k) = (Between(t, 0, b) \o w) \o d
  /\ SameTail(q, u + k, o, j + k)

LEMMA MoveIs ==
  ASSUME NEW S, NEW t \in Seq(S), NEW w \in Seq(S), NEW o \in Seq(S), NEW b \in Nat, NEW u, NEW j,
         SameTail(t, u, o, j), b + Len(w) <= u, NEW k \in Nat, k <= Len(o) - j,
         NEW v, v = Overwrite(t, b, w),
         NEW d, d = Between(o, j, j + k),
         NEW q, q = Overwrite(v, b + Len(w), Between(v, u, u + k))
  PROVE  Moved(S, t, w, o, b, u, j, k, d, q)
<1>1. /\ u \in Nat /\ j \in Nat /\ Len(t) \in Nat /\ Len(o) \in Nat /\ Len(w) \in Nat
      /\ u <= Len(t) /\ j <= Len(o) /\ Len(t) - u = Len(o) - j
  BY LenProperties DEF SameTail
<1>2. /\ v \in Seq(S) /\ Len(v) = Len(t) /\ Between(v, 0, b + Len(w)) = Between(t, 0, b) \o w
  <2>1. b + Len(w) <= Len(t)
    BY <1>1
  <2>2. Overwritten(S, t, b, w, v)
    BY <2>1, OverwriteIs
  <2> QED BY <2>2 DEF Overwritten
<1>3. SameTail(v, u, o, j)
  <2>1. b + Len(w) <= Len(t)
    BY <1>1
  <2> QED BY <2>1, OverwriteTail
<1>4. PICK e : e = b + Len(w)
  OBVIOUS
<1>5. e \in Nat /\ e <= u /\ u + k \in Nat /\ u <= u + k /\ u + k <= Len(v) /\ e + k <= Len(v) /\ (u + k) - u = k /\ e + k <= u + k
  BY <1>1, <1>2, <1>4
<1>6. Between(v, u, u + k) = d
  <2>1. 0 \in Nat /\ 0 <= k /\ u + 0 = u /\ j + 0 = j
    BY <1>1
  <2>2. Between(v, u + 0, u + k) = Between(o, j + 0, j + k)
    BY ONLY <1>2, <1>3, <2>1, TailParts, o \in Seq(S), k \in Nat, k <= Len(o) - j
  <2> QED BY <2>1, <2>2
<1>7. d \in Seq(S) /\ Len(d) = k
  <2>1. IsPart(Between(v, u, u + k), S, v, u, u + k)
    BY <1>1, <1>2, <1>5, PartIs
  <2> QED BY <1>5, <1>6, <2>1 DEF IsPart
<1>8. q = Overwrite(v, e, d)
  BY <1>4, <1>6
<1>9. e + Len(d) <= Len(v) /\ e + Len(d) <= u + k
  BY <1>5, <1>7
<1>10. q \in Seq(S) /\ Len(q) = Len(v) /\ Between(q, 0, e + Len(d)) = Between(v, 0, e) \o d
  <2>1. v \in Seq(S)
    BY <1>2
  <2>2. d \in Seq(S)
    BY <1>7
  <2>3. e \in Nat
    BY <1>5
  <2>4. e + Len(d) <= Len(v)
    BY <1>9
  <2>5. Overwritten(S, v, e, d, q)
    BY ONLY <1>8, <2>1, <2>2, <2>3, <2>4, OverwriteIs
  <2> QED BY <2>5 DEF Overwritten
<1>11. SameTail(v, u + k, o, j + k)
  BY <1>2, <1>3, TailBehind
<1>12. SameTail(Overwrite(v, e, d), u + k, o, j + k)
  BY <1>2, <1>5, <1>7, <1>9, <1>11, OverwriteTail
<1> QED BY <1>2, <1>4, <1>7, <1>8, <1>10, <1>12 DEF Moved

\* A round of the loop that moves what is between the matches.
LEMMA ShiftGoes ==
  ASSUME NEW c, Working(c), NEW t \in Seq(Chars), NEW w \in Nat, NEW r \in Nat, Shifting(c, t, w, r),
         NEW u, u = r + MatchSize(c), NEW e, e = w + Len(c.with),
         NEW v, v = Overwrite(t, w, c.with),
         NEW match, match = Min({Find(c, v, u), Len(v)}),
         NEW q, q = Overwrite(v, e, Between(v, u, match)),
         NEW z, z = e + (match - u)
  PROVE  /\ match \in Nat /\ z \in Nat /\ q \in Seq(Chars) /\ Resize(q, z) \in Seq(Chars)
         /\ match < Len(t) => Shifting(c, q, z, match)
         /\ ~(match < Len(t)) => Resize(q, z) = WithMatchesReplaced(c, c.old, c.offset)
<1>1. /\ c \in Calls /\ Searches(c, c.old) /\ MatchSize(c) \in Nat /\ 0 < MatchSize(c)
      /\ c.old \in Seq(Chars) /\ Len(c.old) \in Nat
      /\ c.with \in Seq(Chars) /\ Len(c.with) \in Nat
      /\ WithMatchesReplaced(c, c.old, c.offset) = Result(c)
  BY Works
<1>2. PICK j, o, x, n, ms, lw, lt : /\ j = Len(c.old) - (Len(t) - u) /\ o = c.old /\ x = c.with /\ n = Len(o)
                                    /\ ms = MatchSize(c) /\ lw = Len(x) /\ lt = Len(t)
  OBVIOUS
<1>3. /\ w <= r /\ e <= u /\ u <= Len(t) /\ Len(t) <= Longest /\ SameTail(t, u, o, j)
      /\ ms < lw => u - e = (lw - ms) * Count(c, o)[j]
      /\ Between(t, 0, w) \o (x \o Rest(c, o)[j]) = Result(c)
  BY <1>2 DEF Shifting
<1>4. /\ Len(t) \in Nat /\ u \in Nat /\ e \in Nat /\ j \in 0 .. n /\ n \in Nat /\ ms \in Nat /\ 0 < ms /\ lw \in Nat
      /\ Len(t) - u = n - j /\ e = w + lw /\ u = r + ms
  <2>1. Len(t) \in Nat
    BY LenProperties
  <2>2. u \in Nat /\ j \in Nat /\ j <= n /\ Len(t) - u = n - j
    BY <1>2, <1>3 DEF SameTail
  <2> QED BY <1>1, <1>2, <2>1, <2>2
<1>5. o \in Seq(Chars) /\ x \in Seq(Chars) /\ t \in Seq(Chars) /\ w + Len(x) <= u /\ v = Overwrite(t, w, x)
  <2>1. x = c.with /\ o = c.old
    BY <1>2
  <2>2. w + Len(x) <= u
    BY ONLY <1>3, <2>1, e = w + Len(c.with)
  <2> QED BY <1>1, <2>1, <2>2
<1>6. SameTail(v, u, o, j) /\ v \in Seq(Chars) /\ Len(v) = Len(t)
  <2>1. w + Len(x) <= Len(t)
    <3>1. w + lw <= u /\ u <= lt /\ u \in Nat /\ lt \in Nat /\ lw \in Nat
      BY <1>2, <1>3, <1>4, <1>5
    <3>2. w + lw <= lt
      BY ONLY <3>1, w \in Nat
    <3> QED BY <1>2, <3>2
  <2>2. v \in Seq(Chars) /\ Len(v) = Len(t)
    <3>1. Overwritten(Chars, t, w, x, v)
      BY <1>5, <2>1, OverwriteIs
    <3> QED BY <3>1 DEF Overwritten
  <2>3. SameTail(v, u, o, j)
    BY <1>3, <1>5, <2>1, OverwriteTail
  <2> QED BY <2>2, <2>3
<1>7. PICK m : m = Find(c, o, j)
  OBVIOUS
<1>8. /\ m = Nowhere => Find(c, v, u) = Nowhere
      /\ m # Nowhere => m \in Nat /\ j <= m /\ m + ms <= n /\ Find(c, v, u) = u + (m - j)
  <2>1. Searches(c, v)
    BY <1>1, <1>3, <1>4, <1>6, CanSearch
  <2>2. Searches(c, o)
    BY <1>1, <1>2
  <2>3. o \in Seq(Chars)
    BY <1>5
  <2>4. v \in Seq(Chars)
    BY <1>6
  <2>5. SameTail(v, u, o, j)
    BY <1>6
  <2>6. /\ m = Nowhere => Find(c, v, u) = Nowhere
        /\ m # Nowhere => /\ m \in Nat /\ j <= m /\ m + MatchSize(c) <= Len(o)
                          /\ Find(c, v, u) = u + (m - j) /\ Find(c, v, u) # Nowhere
    BY ONLY <1>7, <2>1, <2>2, <2>3, <2>4, <2>5, FindMoves
  <2> QED BY <1>2, <2>6
<1>9. PICK k : k = IF m = Nowhere THEN n - j ELSE m - j
  OBVIOUS
<1>10. k \in Nat /\ k <= n - j /\ match = u + k /\ match \in Nat /\ z = e + k /\ z \in Nat /\ match <= Len(t) /\ z <= match
  <2>0. j \in Nat /\ n \in Nat /\ j <= n /\ ms \in Nat
    BY <1>4
  <2>1. k \in Nat /\ k <= n - j
    <3>1. CASE m = Nowhere
      <4>1. k = n - j
        BY <1>9, <3>1
      <4> QED BY ONLY <2>0, <4>1
    <3>2. CASE m # Nowhere
      <4>1. k = m - j
        BY <1>9, <3>2
      <4>2. m \in Nat /\ j <= m /\ m + ms <= n
        BY <1>8, <3>2
      <4> QED BY ONLY <2>0, <4>1, <4>2
    <3> QED BY <3>1, <3>2
  <2>2. match = u + k
    <3>1. PICK T : T = {Find(c, v, u), Len(v)}
      OBVIOUS
    <3>2. Nowhere \in Nat /\ Len(v) < Nowhere
      BY <1>3, <1>4, <1>6, NowhereIsFar
    <3>3. Find(c, v, u) \in Nat /\ Len(v) \in Nat
      <4>1. Len(v) \in Nat
        BY <1>4, <1>6
      <4>2. CASE m = Nowhere
        <5>1. Find(c, v, u) = Nowhere
          BY <1>8, <4>2
        <5> QED BY <3>2, <4>1, <5>1
      <4>3. CASE m # Nowhere
        <5>1. m \in Nat /\ j <= m /\ Find(c, v, u) = u + (m - j)
          BY <1>8, <4>3
        <5>2. u + (m - j) \in Nat
          BY <2>0, <1>4, <5>1
        <5> QED BY <4>1, <5>1, <5>2
      <4> QED BY <4>2, <4>3
    <3>4. match \in T /\ \A y \in T : match <= y
      <4>1. T \in SUBSET Nat
        BY ONLY <3>1, <3>3
      <4>2. T # {}
        BY ONLY <3>1
      <4>3. match = Min(T)
        BY <3>1
      <4>4. Min(T) \in T /\ \A y \in T : Min(T) <= y
        BY ONLY <4>1, <4>2, MinIs
      <4> QED BY ONLY <4>3, <4>4
    <3>5. CASE m = Nowhere
      <4>1. match = Len(v)
        BY <1>8, <3>1, <3>2, <3>3, <3>4, <3>5
      <4>2. Len(v) = u + (n - j)
        BY <1>4, <1>6
      <4> QED BY <1>9, <3>5, <4>1, <4>2
    <3>6. CASE m # Nowhere
      <4>1. Find(c, v, u) = u + (m - j) /\ u + (m - j) < Len(v)
        <5>1. m \in Nat /\ j <= m /\ m + ms <= n /\ Find(c, v, u) = u + (m - j)
          BY <1>8, <3>6
        <5>2. u \in Nat /\ lt \in Nat /\ lt - u = n - j /\ 0 < ms /\ Len(v) = lt
          BY <1>2, <1>4, <1>6
        <5>3. u + (m - j) < lt
          BY ONLY <2>0, <5>1, <5>2
        <5> QED BY <5>1, <5>2, <5>3
      <4>2. match = u + (m - j)
        <5>1. match \in T /\ \A y \in T : match <= y
          BY <3>4
        <5>2. Find(c, v, u) < Len(v)
          BY <4>1
        <5>3. match = Find(c, v, u)
          BY ONLY <3>1, <3>3, <5>1, <5>2
        <5> QED BY <4>1, <5>3
      <4> QED BY <1>9, <3>6, <4>2
    <3> QED BY <3>5, <3>6
  <2>3. u \in Nat /\ lt \in Nat /\ lt - u = n - j /\ e \in Nat /\ e <= u /\ u <= lt
    BY <1>2, <1>3, <1>4
  <2>4. match \in Nat /\ match <= lt /\ z = e + (match - u)
    BY ONLY <2>0, <2>1, <2>2, <2>3, z = e + (match - u)
  <2>5. z = e + k /\ z \in Nat /\ z <= match
    BY ONLY <2>1, <2>2, <2>3, <2>4
  <2> QED BY <1>2, <2>1, <2>2, <2>4, <2>5
<1>11. PICK d : d = Between(o, j, j + k)
  OBVIOUS
<1>12. /\ d \in Seq(Chars) /\ q \in Seq(Chars) /\ Len(q) = Len(t)
       /\ Between(q, 0, z) = (Between(t, 0, w) \o x) \o d
       /\ SameTail(q, match, o, j + k)
  <2>1. q = Overwrite(v, w + Len(x), Between(v, u, u + k)) /\ k <= Len(o) - j
    BY <1>2, <1>4, <1>10
  <2>2. /\ d \in Seq(Chars) /\ q \in Seq(Chars) /\ Len(q) = Len(t)
        /\ Between(q, 0, w + Len(x) + k) = (Between(t, 0, w) \o x) \o d
        /\ SameTail(q, u + k, o, j + k)
    <3>1. o \in Seq(Chars)
      BY <1>5
    <3>2. x \in Seq(Chars)
      BY <1>5
    <3>3. SameTail(t, u, o, j)
      BY <1>3
    <3>4. w + Len(x) <= u /\ v = Overwrite(t, w, x)
      BY <1>5
    <3>5. k \in Nat
      BY <1>10
    <3>6. Moved(Chars, t, x, o, w, u, j, k, d, q)
      BY ONLY <1>11, <2>1, <3>1, <3>2, <3>3, <3>4, <3>5, MoveIs, t \in Seq(Chars), w \in Nat
    <3> QED BY ONLY <3>6 DEF Moved
  <2>3. w + Len(x) + k = z
    BY <1>2, <1>4, <1>10
  <2> QED BY <1>10, <2>2, <2>3
<1>13. Resize(q, z) = Between(q, 0, z) /\ Resize(q, z) \in Seq(Chars)
  <2>1. z <= Len(q)
    BY <1>4, <1>10, <1>12
  <2> QED BY <1>10, <1>12, <2>1, ResizeIs
<1>14. PICK b : b = Between(t, 0, w)
  OBVIOUS
<1>15. b \in Seq(Chars)
  <2>1. 0 \in Nat /\ 0 <= w /\ w <= Len(t)
    BY <1>3, <1>4
  <2>2. IsPart(b, Chars, t, 0, w)
    BY <1>14, <2>1, PartIs
  <2> QED BY <2>2 DEF IsPart
<1>16. Rest(c, o)[j] \in Seq(Chars)
  BY <1>2, <1>4, Works
<1>17. CASE m = Nowhere
  <2>1. Rest(c, o)[j] = d
    <3>1. Rest(c, o)[j] = Between(o, j, n)
      BY <1>2, <1>4, <1>7, <1>17, RestWorks
    <3>2. j + k = n
      BY <1>4, <1>9, <1>17
    <3> QED BY <1>11, <3>1, <3>2
  <2>2. (b \o x) \o d = b \o (x \o d)
    <3>1. Regroups(Chars, b, x, x, d)
      BY <1>5, <1>12, <1>15, Regroup
    <3> QED BY <3>1 DEF Regroups
  <2>3. Resize(q, z) = Result(c)
    BY <1>3, <1>12, <1>13, <1>14, <2>1, <2>2
  <2>4. ~(match < Len(t))
    BY <1>4, <1>9, <1>10, <1>17
  <2> QED BY <1>1, <1>10, <1>12, <1>13, <2>3, <2>4
<1>18. CASE m # Nowhere
  <2>1. PICK y, h : y = Rest(c, o)[m + ms] /\ h = m + ms
    OBVIOUS
  <2>2. /\ m \in Nat /\ j <= m /\ h \in 0 .. n /\ h <= n /\ h = m + ms /\ k = m - j /\ j + k = m
    <3>1. m \in Nat /\ j <= m /\ m + ms <= n /\ k = m - j
      BY <1>8, <1>9, <1>18
    <3>2. h = m + ms
      BY <2>1
    <3>3. j \in Nat /\ n \in Nat /\ ms \in Nat
      BY <1>4
    <3> QED BY ONLY <3>1, <3>2, <3>3
  <2>3. Rest(c, o)[j] = d \o (x \o y) /\ y \in Seq(Chars) /\ x \o y \in Seq(Chars)
    <3>1. Rest(c, o)[j] = Between(o, j, m) \o (x \o y)
      BY <1>2, <1>4, <1>7, <1>18, <2>1, RestWorks
    <3>2. y \in Seq(Chars) /\ x \o y \in Seq(Chars)
      BY <1>2, <2>1, <2>2, Works
    <3> QED BY <1>11, <2>2, <3>1, <3>2
  <2>4. ((b \o x) \o d) \o (x \o y) = b \o (x \o (d \o (x \o y)))
    <3>1. PICK g : g = x \o y
      OBVIOUS
    <3>2. g \in Seq(Chars)
      BY <2>3, <3>1
    <3>3. Regroups(Chars, b, x, d, g)
      BY <1>5, <1>12, <1>15, <3>2, Regroup
    <3> QED BY <3>1, <3>3 DEF Regroups
  <2>5. Between(q, 0, z) \o (x \o y) = Result(c)
    BY <1>3, <1>12, <1>14, <2>3, <2>4
  <2>6. SameTail(q, match + ms, o, h)
    <3>1. ms \in Nat
      BY <1>4
    <3>2. ms <= Len(o) - m
      <4>1. m \in Nat /\ h <= n /\ h = m + ms /\ n \in Nat
        BY <1>4, <2>2
      <4>2. ms <= n - m
        BY ONLY <3>1, <4>1
      <4> QED BY <1>2, <4>2
    <3>3. SameTail(q, match, o, m)
      BY <1>12, <2>2
    <3>4. q \in Seq(Chars)
      BY <1>12
    <3>5. o \in Seq(Chars)
      BY <1>5
    <3>6. SameTail(q, match + ms, o, m + ms)
      BY ONLY <3>1, <3>2, <3>3, <3>4, <3>5, TailBehind
    <3> QED BY <2>2, <3>6
  <2>7. match + ms \in Nat /\ match + ms <= lt /\ lt - (match + ms) = n - h /\ Len(q) = lt
    BY <1>2, <1>12, <2>6 DEF SameTail
  <2>0. /\ match \in Nat /\ ms \in Nat /\ 0 < ms /\ h \in Nat /\ n \in Nat /\ lt \in Nat /\ z \in Nat /\ lw \in Nat
        /\ match = u + k /\ z = e + k /\ u \in Nat /\ e \in Nat /\ k \in Nat /\ z <= match
    BY <1>2, <1>4, <1>10, <2>2
  <2>8. h = n - (lt - (match + ms)) /\ match < lt
    BY ONLY <2>0, <2>7
  <2>9. (match + ms) - (z + lw) = (u - e) - (lw - ms)
    BY ONLY <2>0
  <2>10. ms < lw => (match + ms) - (z + lw) = (lw - ms) * Count(c, o)[h] /\ z + lw <= match + ms
    <3>1. SUFFICES ASSUME ms < lw
                   PROVE (match + ms) - (z + lw) = (lw - ms) * Count(c, o)[h] /\ z + lw <= match + ms
      OBVIOUS
    <3>2. PICK a, y1, y2 : a = lw - ms /\ y1 = Count(c, o)[h] /\ y2 = Count(c, o)[j]
      OBVIOUS
    <3>3. y2 = 1 + y1
      BY <1>1, <1>2, <1>4, <1>7, <1>18, <2>1, <3>2, CountIs
    <3>4. y1 \in Nat
      BY <1>1, <1>2, <2>2, <3>2, CountIs
    <3>5. a \in Nat
      BY <1>4, <3>1, <3>2
    <3>6. a * y1 \in Nat /\ a * (1 + y1) = a + a * y1
      BY <3>4, <3>5, ProductIs
    <3>7. u - e = a + a * y1
      BY <1>3, <3>1, <3>2, <3>3, <3>6
    <3>8. (match + ms) - (z + lw) = a * y1
      BY <2>9, <3>2, <3>5, <3>6, <3>7
    <3>9. z + lw <= match + ms
      <4>1. PICK f : f = a * y1
        OBVIOUS
      <4>2. f \in Nat /\ (match + ms) - (z + lw) = f
        BY <3>6, <3>8, <4>1
      <4> QED BY ONLY <2>0, <4>2
    <3> QED BY <3>2, <3>8, <3>9
  <2>11. z + lw <= match + ms
    <3>1. lw <= ms => z + lw <= match + ms
      BY ONLY <2>0
    <3> QED BY <2>0, <2>10, <3>1
  <2>12. Shifting(c, q, z, match)
    BY <1>2, <1>3, <1>10, <2>1, <2>5, <2>6, <2>7, <2>8, <2>10, <2>11 DEF Shifting
  <2> QED BY <1>2, <1>10, <1>12, <1>13, <2>8, <2>12
<1> QED BY <1>17, <1>18

-----------------------------------------------------------------------------
(* How the loops begin                                                     *)

LEMMA MaxOfTwo ==
  ASSUME NEW a \in Nat, NEW b \in Nat
  PROVE  Max({a, b}) \in Nat /\ a <= Max({a, b}) /\ b <= Max({a, b})
<1>1. PICK x \in {a, b} : \A y \in {a, b} : x >= y
  <2>1. CASE a <= b
    BY <2>1
  <2>2. CASE ~(a <= b)
    BY <2>2
  <2> QED BY <2>1, <2>2
<1>2. Max({a, b}) \in {a, b} /\ \A y \in {a, b} : Max({a, b}) >= y
  BY <1>1 DEF Max
<1> QED BY <1>2

\* A string that grows keeps what it has.
LEMMA ResizeGrows ==
  ASSUME NEW S, NEW s \in Seq(S), Nul \in S, NEW n \in Nat, Len(s) <= n, NEW p, p = Resize(s, n)
  PROVE  p \in Seq(S) /\ Len(p) = n /\ \A i \in 1 .. Len(s) : p[i] = s[i]
<1>1. p = [i \in 1 .. n |-> IF i <= Len(s) THEN s[i] ELSE Nul]
  BY DEF Resize
<1>2. Len(s) \in Nat
  BY LenProperties
<1>3. ASSUME NEW i \in 1 .. n PROVE (IF i <= Len(s) THEN s[i] ELSE Nul) \in S
  <2>1. CASE i <= Len(s)
    <3>1. i \in 1 .. Len(s)
      BY <1>2, <2>1
    <3>2. s[i] \in S
      BY <3>1, ElementOfSeq
    <3> QED BY <2>1, <3>2
  <2>2. CASE ~(i <= Len(s))
    BY <2>2
  <2> QED BY <2>1, <2>2
<1>4. p \in Seq(S) /\ Len(p) = n
  BY <1>1, <1>3
<1>5. ASSUME NEW i \in 1 .. Len(s) PROVE p[i] = s[i]
  <2>1. i \in 1 .. n /\ i <= Len(s)
    BY <1>2
  <2> QED BY <1>1, <2>1
<1> QED BY <1>4, <1>5

\* Two strings with one beginning.
LEMMA SameBeginning ==
  ASSUME NEW S, NEW s \in Seq(S), NEW t \in Seq(S), NEW k \in Nat, k <= Len(s), k <= Len(t),
         \A i \in 1 .. k : t[i] = s[i]
  PROVE  Between(t, 0, k) = Between(s, 0, k)
<1>1. PICK p, q : p = Between(t, 0, k) /\ q = Between(s, 0, k)
  OBVIOUS
<1>2. 0 \in Nat /\ 0 <= k /\ k - 0 = k
  OBVIOUS
<1>3. IsPart(p, S, t, 0, k)
  BY <1>1, <1>2, PartIs
<1>4. IsPart(q, S, s, 0, k)
  BY <1>1, <1>2, PartIs
<1>5. \A i \in 1 .. k : 0 + i = i
  OBVIOUS
<1>6. p \in Seq(S) /\ Len(p) = k /\ \A i \in 1 .. k : p[i] = t[i]
  BY <1>2, <1>3, <1>5 DEF IsPart
<1>7. q \in Seq(S) /\ Len(q) = k /\ \A i \in 1 .. k : q[i] = s[i]
  BY <1>2, <1>4, <1>5 DEF IsPart
<1> QED BY <1>1, <1>6, <1>7, SeqEqual

\* t is a string, and the part of s from j on behind it.
Joined(S, t, p, s, j) ==
  /\ t \in Seq(S) /\ Len(t) = Len(p) + (Len(s) - j)
  /\ \A i \in 1 .. Len(p) : t[i] = p[i]
  /\ SameTail(t, Len(p), s, j)

LEMMA JoinTail ==
  ASSUME NEW S, NEW s \in Seq(S), NEW p \in Seq(S), NEW j \in Nat, j <= Len(s),
         NEW t, t = p \o Between(s, j, Len(s))
  PROVE  Joined(S, t, p, s, j)
<1>1. PICK q, a, n : q = Between(s, j, Len(s)) /\ a = Len(p) /\ n = Len(s)
  OBVIOUS
<1>2. a \in Nat /\ n \in Nat /\ j <= n
  BY <1>1, LenProperties
<1>3. q \in Seq(S) /\ Len(q) = n - j /\ \A i \in 1 .. (n - j) : q[i] = s[j + i]
  <2>1. n \in Nat /\ j <= n /\ n <= Len(s)
    BY <1>1, <1>2
  <2>2. IsPart(q, S, s, j, n)
    BY <1>1, <2>1, PartIs
  <2> QED BY <2>2 DEF IsPart
<1>4. /\ t \in Seq(S) /\ Len(t) = a + Len(q)
      /\ \A i \in 1 .. (a + Len(q)) : t[i] = IF i <= a THEN p[i] ELSE q[i - a]
  <2>1. q \in Seq(S)
    BY <1>3
  <2>2. PICK g : g = p \o q
    OBVIOUS
  <2>3. /\ g \in Seq(S) /\ Len(g) = Len(p) + Len(q)
        /\ \A i \in 1 .. (Len(p) + Len(q)) : g[i] = IF i <= Len(p) THEN p[i] ELSE q[i - Len(p)]
    BY ONLY <2>1, <2>2, ConcatProperties, p \in Seq(S)
  <2> QED BY <1>1, <2>2, <2>3
<1>5. Len(t) = a + (n - j) /\ \A i \in 1 .. (a + (n - j)) : t[i] = IF i <= a THEN p[i] ELSE q[i - a]
  BY <1>3, <1>4
<1>6. ASSUME NEW i \in 1 .. a PROVE t[i] = p[i]
  <2>1. i \in 1 .. (a + (n - j)) /\ i <= a
    BY <1>2
  <2> QED BY <1>5, <2>1
<1>7. ASSUME NEW i \in 1 .. (n - j) PROVE t[a + i] = s[j + i]
  <2>1. a + i \in 1 .. (a + (n - j)) /\ ~(a + i <= a) /\ (a + i) - a = i
    BY <1>2
  <2>2. t[a + i] = q[(a + i) - a]
    BY <1>5, <2>1
  <2> QED BY <1>3, <2>1, <2>2
<1>8. a <= Len(t) /\ Len(t) - a = n - j
  BY <1>2, <1>5
<1>9. SameTail(t, a, s, j)
  BY <1>1, <1>2, <1>7, <1>8 DEF SameTail
<1> QED BY <1>1, <1>4, <1>5, <1>6, <1>9 DEF Joined

\* t is s with x places more behind position a, and before them it is the same up to f.
Spreads(S, t, s, f, a, x) ==
  /\ t \in Seq(S) /\ Len(t) = Len(s) + x
  /\ Between(t, 0, f) = Between(s, 0, f) /\ SameTail(t, a + x, s, a)

LEMMA SpreadIs ==
  ASSUME NEW S, NEW s \in Seq(S), Nul \in S, NEW c, NEW f \in Nat, NEW a \in Nat, a = f + MatchSize(c),
         f <= a, a <= Len(s), NEW x \in Nat, NEW t, t = Spread(c, s, f, x)
  PROVE  Spreads(S, t, s, f, a, x)
<1>1. PICK n, d, k, p, b : /\ n = Len(s) /\ d = a + x /\ k = Max({n, d}) /\ p = Resize(s, k)
                           /\ b = Between(p, 0, d)
  OBVIOUS
<1>2. n \in Nat /\ d \in Nat /\ a <= n /\ a <= d
  BY <1>1, LenProperties
<1>3. k \in Nat /\ n <= k /\ d <= k
  BY <1>1, <1>2, MaxOfTwo
<1>4. p \in Seq(S) /\ Len(p) = k /\ \A i \in 1 .. n : p[i] = s[i]
  <2>1. Len(s) <= k
    BY <1>1, <1>3
  <2>2. k \in Nat
    BY <1>3
  <2>3. p = Resize(s, k)
    BY <1>1
  <2>4. p \in Seq(S) /\ Len(p) = k /\ \A i \in 1 .. Len(s) : p[i] = s[i]
    BY ONLY <2>1, <2>2, <2>3, ResizeGrows, s \in Seq(S), Nul \in S
  <2> QED BY <1>1, <2>4
<1>5. b \in Seq(S) /\ Len(b) = d /\ \A i \in 1 .. d : b[i] = p[i]
  <2>1. 0 \in Nat /\ 0 <= d /\ d <= Len(p) /\ d - 0 = d /\ \A i \in 1 .. d : 0 + i = i
    BY <1>2, <1>3, <1>4
  <2>2. IsPart(b, S, p, 0, d)
    BY <1>1, <1>2, <1>4, <2>1, PartIs
  <2> QED BY <2>1, <2>2 DEF IsPart
<1>6. t = b \o Between(s, a, Len(s))
  BY <1>1 DEF Spread
<1>7. /\ t \in Seq(S) /\ Len(t) = d + (n - a)
      /\ \A i \in 1 .. d : t[i] = b[i]
      /\ SameTail(t, d, s, a)
  <2>1. b \in Seq(S)
    BY <1>5
  <2>2. Joined(S, t, b, s, a)
    BY ONLY <1>6, <2>1, JoinTail, s \in Seq(S), a \in Nat, a <= Len(s)
  <2> QED BY <1>1, <1>5, <2>2 DEF Joined
<1>8. Len(t) = n + x
  BY <1>1, <1>2, <1>7
<1>9. Between(t, 0, f) = Between(s, 0, f)
  <2>1. f <= Len(s) /\ f <= Len(t)
    <3>1. f <= n /\ f <= n + x
      BY <1>1, <1>2
    <3> QED BY <1>1, <1>8, <3>1
  <2>2. \A i \in 1 .. f : t[i] = s[i]
    <3>1. ASSUME NEW i \in 1 .. f PROVE t[i] = s[i]
      <4>1. i \in 1 .. d /\ i \in 1 .. n
        BY <1>1, <1>2
      <4> QED BY <1>4, <1>5, <1>7, <4>1
    <3> QED BY <3>1
  <2> QED BY <1>7, <2>1, <2>2, SameBeginning
<1> QED BY <1>1, <1>7, <1>8, <1>9 DEF Spreads

\* What a call that replaces every match begins with.
LEMMA Begins ==
  ASSUME NEW c \in Calls, Matches(c), ~c.first, NEW f, f = FirstMatch(c),
         NEW a, a = f + MatchSize(c)
  PROVE  /\ Working(c) /\ f \in Nat /\ f # Nowhere /\ a \in 0 .. Len(c.old) /\ f <= a /\ Find(c, c.old, f) = f
         /\ Between(c.old, 0, f) \o (c.with \o Rest(c, c.old)[a]) = Result(c)
<1>1. /\ Finds1st(c, f)
      /\ Result(c) = Between(c.old, 0, f) \o (c.with \o After(c, c.old, f + MatchSize(c)))
  BY FirstMatchIs
<1>2. /\ 0 < MatchSize(c) /\ c.offset <= Len(c.old) /\ f \in Nat /\ f # Nowhere
      /\ f + MatchSize(c) <= Len(c.old) /\ Find(c, c.old, f) = f
  BY <1>1 DEF Finds1st
<1>3. MatchSize(c) \in Nat /\ Len(c.old) \in Nat
  BY CallIs
<1>4. Working(c)
  BY <1>2 DEF Working
<1>5. After(c, c.old, a) = Rest(c, c.old)[a]
  BY DEF After
<1>6. a \in 0 .. Len(c.old) /\ f <= a
  BY <1>2, <1>3
<1> QED BY <1>1, <1>2, <1>4, <1>5, <1>6

LEMMA OverwriteBegins ==
  ASSUME NEW c \in Calls, Matches(c), ~c.first, NEW f, f = FirstMatch(c), Len(c.with) = MatchSize(c)
  PROVE  Working(c) /\ f \in Nat /\ c.old \in Seq(Chars) /\ Overwriting(c, c.old, f)
<1>1. PICK a : a = f + MatchSize(c)
  OBVIOUS
<1>2. /\ Working(c) /\ f \in Nat /\ a \in 0 .. Len(c.old)
      /\ Between(c.old, 0, f) \o (c.with \o Rest(c, c.old)[a]) = Result(c)
  BY <1>1, Begins
<1>3. Len(c.old) \in Nat /\ c.old \in Seq(Chars)
  BY CallIs
<1>4. SameTail(c.old, a, c.old, a)
  BY <1>2, <1>3 DEF SameTail
<1> QED BY <1>1, <1>2, <1>3, <1>4 DEF Overwriting

LEMMA AppendBegins ==
  ASSUME NEW c \in Calls, Matches(c), ~c.first
  PROVE  Working(c) /\ Appending(c, <<>>, 0)
<1>1. PICK f, a : f = FirstMatch(c) /\ a = f + MatchSize(c)
  OBVIOUS
<1>2. Working(c)
  BY <1>1, Begins
<1>3. Find(c, c.old, c.offset) # Nowhere /\ c.offset \in 0 .. Len(c.old) /\ Len(c.old) \in Nat /\ c.old \in Seq(Chars)
  BY <1>2, Works DEF Matches, FirstMatch
<1>4. PICK p, q : p = Between(c.old, 0, c.offset) /\ q = Rest(c, c.old)[c.offset]
  OBVIOUS
<1>5. p \in Seq(Chars)
  <2>1. 0 \in Nat /\ c.offset \in Nat /\ 0 <= c.offset /\ c.offset <= Len(c.old)
    BY <1>3
  <2>2. IsPart(p, Chars, c.old, 0, c.offset)
    BY <1>3, <1>4, <2>1, PartIs
  <2> QED BY <2>2 DEF IsPart
<1>6. q \in Seq(Chars)
  BY <1>2, <1>3, <1>4, Works
<1>7. PICK g : g = p \o q
  OBVIOUS
<1>8. g \in Seq(Chars)
  BY <1>5, <1>6, <1>7, ConcatProperties
<1>9. <<>> \o g = g
  BY <1>8, ConcatEmptySeq
<1>10. <<>> \o (Between(c.old, 0, c.offset) \o Rest(c, c.old)[c.offset]) = Result(c)
  BY <1>4, <1>7, <1>9 DEF Result
<1>11. 0 <= c.offset /\ c.offset <= Len(c.old)
  BY <1>3
<1> QED BY <1>2, <1>3, <1>10, <1>11 DEF Appending

\* How much the string grows by is what the replacements need.
LEMMA ExpansionIs ==
  ASSUME NEW c \in Calls, Matches(c), ~c.first, NEW f, f = FirstMatch(c),
         NEW a, a = f + MatchSize(c), NEW x, x = Expansion(c, c.old, f)
  PROVE  /\ x \in Nat /\ Len(c.old) + x <= Longest
         /\ MatchSize(c) < Len(c.with) =>
              /\ 0 < x /\ Len(c.with) - MatchSize(c) <= x
              /\ x - (Len(c.with) - MatchSize(c)) = (Len(c.with) - MatchSize(c)) * Count(c, c.old)[a]
         /\ Len(c.with) < MatchSize(c) => x = 0
<1>1. /\ Working(c) /\ f \in Nat /\ f # Nowhere /\ a \in 0 .. Len(c.old) /\ f <= a /\ Find(c, c.old, f) = f
  BY Begins
<1>2. PICK o, n, lw, ms : o = c.old /\ n = Len(o) /\ lw = Len(c.with) /\ ms = MatchSize(c)
  OBVIOUS
<1>3. /\ n \in Nat /\ n <= MaxString /\ MaxString \in Nat /\ lw \in Nat /\ lw <= MaxReplace /\ MaxReplace \in Nat
      /\ ms \in Nat
  BY <1>2, CallIs
<1>4. CASE ~(ms < lw)
  <2>1. x = 0
    <3>1. ~(lw > ms)
      BY <1>3, <1>4
    <3> QED BY <1>2, <3>1 DEF Expansion
  <2>2. n <= Longest
    BY <1>3, NowhereIsFar
  <2>3. n + 0 <= Longest
    BY <1>3, <2>2
  <2> QED BY <1>2, <1>3, <1>4, <2>1, <2>3
<1>5. CASE ms < lw
  <2>1. PICK b, y1, y2 : b = lw - ms /\ y1 = Count(c, o)[a] /\ y2 = Count(c, o)[f]
    OBVIOUS
  <2>2. Searches(c, o)
    BY <1>1, <1>2, Works
  <2>3. y1 \in Nat
    BY <1>1, <1>2, <2>1, <2>2, CountIs
  <2>4. y2 \in Nat /\ y2 <= n - f /\ y2 = 1 + y1
    <3>1. f \in 0 .. Len(o) /\ f = Find(c, o, f) /\ f # Nowhere
      BY <1>1, <1>2, <1>3
    <3> QED BY <1>2, <2>1, <2>2, <3>1, CountIs
  <2>5. x = b * y2
    <3>1. lw > ms
      BY <1>3, <1>5
    <3>2. MatchCount(c, o, f) = y2
      BY <2>1, MatchCountIs
    <3> QED BY <1>2, <2>1, <3>1, <3>2 DEF Expansion
  <2>6. b \in Nat /\ 0 < b /\ b <= MaxReplace /\ y2 <= MaxString
    <3>1. b \in Nat /\ 0 < b /\ b <= MaxReplace
      BY ONLY <1>3, <1>5, <2>1
    <3>2. y2 <= MaxString
      BY ONLY <1>1, <1>3, <2>4
    <3> QED BY <3>1, <3>2
  <2>7. PICK k : k = b * y1
    OBVIOUS
  <2>8. k \in Nat /\ x = b + k
    BY <2>3, <2>4, <2>5, <2>6, <2>7, ProductIs
  <2>9. x \in Nat /\ 0 < x /\ b <= x /\ x - b = k
    BY ONLY <2>6, <2>8
  <2>10. n + x <= Longest
    <3>1. PICK l : l = MaxReplace * MaxString
      OBVIOUS
    <3>2. x <= l /\ l \in Nat
      BY <1>3, <2>4, <2>5, <2>6, <3>1, ProductGrows, ProductIs
    <3>3. Longest = MaxString + l
      BY <3>1 DEF Longest
    <3> QED BY ONLY <1>3, <2>9, <3>2, <3>3
  <2> QED BY <1>2, <1>3, <1>5, <2>1, <2>7, <2>9, <2>10
<1> QED BY <1>4, <1>5

LEMMA ShiftBegins ==
  ASSUME NEW c \in Calls, Matches(c), ~c.first, NEW f, f = FirstMatch(c),
         NEW x, x = Expansion(c, c.old, f), Len(c.with) # MatchSize(c),
         NEW t, t = IF x = 0 THEN c.old ELSE Spread(c, c.old, f, x)
  PROVE  Working(c) /\ f \in Nat /\ f + x \in Nat /\ t \in Seq(Chars) /\ Shifting(c, t, f, f + x)
<1>1. PICK o, n, lw, ms, a : o = c.old /\ n = Len(o) /\ lw = Len(c.with) /\ ms = MatchSize(c) /\ a = f + ms
  OBVIOUS
<1>2. /\ Working(c) /\ f \in Nat /\ a \in 0 .. n /\ f <= a
      /\ Between(o, 0, f) \o (c.with \o Rest(c, o)[a]) = Result(c)
  BY <1>1, Begins
<1>3. /\ x \in Nat /\ n + x <= Longest
      /\ ms < lw => /\ 0 < x /\ lw - ms <= x /\ x - (lw - ms) = (lw - ms) * Count(c, o)[a]
      /\ lw < ms => x = 0
  BY <1>1, ExpansionIs
<1>4. o \in Seq(Chars) /\ n \in Nat /\ lw \in Nat /\ ms \in Nat /\ lw # ms
  BY <1>1, CallIs
<1>5. /\ t \in Seq(Chars) /\ Len(t) = n + x
      /\ Between(t, 0, f) = Between(o, 0, f) /\ SameTail(t, a + x, o, a)
  <2>1. CASE x = 0
    <3>1. t = o /\ Len(t) = n + x /\ a + x = a
      BY <1>1, <1>2, <1>4, <2>1
    <3>2. a \in Nat /\ a <= Len(o)
      BY <1>1, <1>2, <1>4
    <3>3. SameTail(o, a, o, a)
      BY <1>1, <1>4, <3>2 DEF SameTail
    <3> QED BY <1>4, <3>1, <3>3
  <2>2. CASE x # 0
    <3>1. t = Spread(c, o, f, x)
      BY <1>1, <2>2
    <3>2. a \in Nat /\ a <= Len(o) /\ a = f + MatchSize(c)
      BY <1>1, <1>2, <1>4
    <3>3. Nul \in Chars
      BY DEF Chars
    <3>4. Spreads(Chars, t, o, f, a, x)
      <4>1. f \in Nat /\ f <= a
        BY <1>2
      <4>2. x \in Nat
        BY <1>3
      <4>3. o \in Seq(Chars)
        BY <1>4
      <4> QED BY ONLY <3>1, <3>2, <3>3, <4>1, <4>2, <4>3, SpreadIs
    <3> QED BY <1>1, <3>4 DEF Spreads
  <2> QED BY <2>1, <2>2
<1>6. PICK r, u, e : r = f + x /\ u = r + ms /\ e = f + lw
  OBVIOUS
<1>7. r \in Nat /\ f <= r /\ u = a + x /\ u <= n + x /\ a = n - ((n + x) - u)
  <2>1. x \in Nat /\ f \in Nat /\ a = f + ms /\ f <= a
    BY <1>1, <1>2, <1>3
  <2>2. a <= n /\ a \in Nat
    BY <1>2, <1>4
  <2> QED BY ONLY <1>4, <1>6, <2>1, <2>2
<1>8. e <= u
  <2>1. (ms < lw => lw - ms <= x) /\ x \in Nat /\ f \in Nat
    BY <1>2, <1>3
  <2> QED BY ONLY <1>4, <1>6, <2>1
<1>9. ms < lw => u - e = (lw - ms) * Count(c, o)[a]
  <2>1. x \in Nat /\ f \in Nat
    BY <1>2, <1>3
  <2>2. u - e = x - (lw - ms)
    BY ONLY <1>4, <1>6, <2>1
  <2> QED BY <1>3, <2>2
<1>10. Shifting(c, t, f, r)
  BY <1>1, <1>2, <1>3, <1>5, <1>6, <1>7, <1>8, <1>9 DEF Shifting
<1> QED BY <1>2, <1>5, <1>6, <1>7, <1>10

-----------------------------------------------------------------------------
(* The invariant                                                           *)

Loops == {"overwrite", "append", "shift"}

\* Every value of a variable.
ReplaceTypeOK ==
  /\ str \in Seq(Chars) /\ call \in Calls \cup {NoCall} /\ write \in Nat /\ read \in Nat
  /\ at \in {"idle", "done"} \cup Loops
  /\ at \in Loops => Working(call)

\* What each loop keeps, and what it ends with.
ReplaceIInv ==
  /\ ReplaceTypeOK
  /\ at = "overwrite" => Overwriting(call, str, read)
  /\ at = "append" => Appending(call, str, read)
  /\ at = "shift" => Shifting(call, str, write, read)
  /\ ReplacesMatches

LEMMA ReplaceInitIInv == ReplaceInit => ReplaceIInv
<1>1. <<>> \in Seq(Chars)
  OBVIOUS
<1> QED BY <1>1 DEF ReplaceInit, ReplaceIInv, ReplaceTypeOK, ReplacesMatches, Loops

\* A function that returns at once has made what it is to make.
LEMMA NothingFound ==
  ASSUME NEW c \in Calls, FindNothing(c)
  PROVE  ReplaceIInv'
<1>1. ~Matches(c) /\ call' = c /\ str' = c.old /\ write' = 0 /\ read' = 0 /\ at' = "done"
  BY DEF FindNothing, Goes
<1>2. c.old \in Seq(Chars)
  BY CallIs
<1>3. WithMatchesReplaced(c, c.old, c.offset) = c.old
  BY <1>1, NothingIs
<1>4. ReplacesMatches'
  BY <1>1, <1>3 DEF ReplacesMatches
<1> QED BY <1>1, <1>2, <1>4 DEF ReplaceIInv, ReplaceTypeOK, Loops

LEMMA FirstReplaced ==
  ASSUME NEW c \in Calls, ReplaceFirst(c)
  PROVE  ReplaceIInv'
<1>1. PICK f, e, p, w, d : /\ f = FirstMatch(c) /\ e = f + MatchSize(c) /\ p = Between(c.old, 0, f)
                           /\ w = c.with /\ d = Between(c.old, e, Len(c.old))
  OBVIOUS
<1>2. /\ Matches(c) /\ c.first /\ call' = c /\ str' = p \o w \o d /\ write' = 0 /\ read' = 0 /\ at' = "done"
  BY <1>1 DEF ReplaceFirst, Goes
<1>3. /\ Finds1st(c, f) /\ Result(c) = p \o (w \o After(c, c.old, e))
      /\ WithMatchesReplaced(c, c.old, c.offset) = Result(c)
  BY <1>1, <1>2, FirstMatchIs
<1>4. After(c, c.old, e) = d
  BY <1>1, <1>2 DEF After
<1>5. /\ c.old \in Seq(Chars) /\ w \in Seq(Chars) /\ Len(c.old) \in Nat /\ MatchSize(c) \in Nat
      /\ f \in Nat /\ e \in Nat /\ f <= Len(c.old) /\ e <= Len(c.old)
  <2>1. c.old \in Seq(Chars) /\ w \in Seq(Chars) /\ Len(c.old) \in Nat /\ MatchSize(c) \in Nat
    BY <1>1, CallIs
  <2>2. f \in Nat /\ e <= Len(c.old)
    BY <1>1, <1>3 DEF Finds1st
  <2> QED BY <1>1, <2>1, <2>2
<1>6. p \in Seq(Chars) /\ d \in Seq(Chars)
  <2>1. 0 \in Nat /\ 0 <= f /\ Len(c.old) <= Len(c.old)
    BY <1>5
  <2>2. IsPart(p, Chars, c.old, 0, f)
    BY <1>1, <1>5, <2>1, PartIs
  <2>3. IsPart(d, Chars, c.old, e, Len(c.old))
    BY <1>1, <1>5, <2>1, PartIs
  <2> QED BY <2>2, <2>3 DEF IsPart
<1>7. (p \o w) \o d = p \o (w \o d) /\ p \o w \in Seq(Chars)
  <2>1. Regroups(Chars, p, w, d, d)
    BY <1>5, <1>6, Regroup
  <2> QED BY <2>1 DEF Regroups
<1>8. str' \in Seq(Chars)
  <2>1. PICK g : g = p \o w
    OBVIOUS
  <2>2. g \in Seq(Chars)
    BY <1>7, <2>1
  <2>3. g \o d \in Seq(Chars)
    BY <1>6, <2>2, ConcatProperties
  <2> QED BY <1>2, <2>1, <2>3
<1>9. str' = WithMatchesReplaced(c, c.old, c.offset)
  BY <1>2, <1>3, <1>4, <1>7
<1>10. ReplacesMatches'
  BY <1>2, <1>9 DEF ReplacesMatches
<1> QED BY <1>2, <1>8, <1>10 DEF ReplaceIInv, ReplaceTypeOK, Loops

\* Each loop begins with what its rounds keep.
LEMMA EveryBegins ==
  ASSUME NEW c \in Calls, ReplaceEvery(c)
  PROVE  ReplaceIInv'
<1>1. PICK f, x, t : /\ f = FirstMatch(c) /\ x = Expansion(c, c.old, f)
                     /\ t = IF x = 0 THEN c.old ELSE Spread(c, c.old, f, x)
  OBVIOUS
<1>2. /\ Matches(c) /\ ~c.first
      /\ \/ Len(c.with) = MatchSize(c) /\ Goes(c, c.old, f, f, "overwrite")
         \/ Goes(c, <<>>, 0, 0, "append")
         \/ Len(c.with) # MatchSize(c) /\ Goes(c, t, f, f + x, "shift")
  BY <1>1 DEF ReplaceEvery
<1>3. CASE Len(c.with) = MatchSize(c) /\ Goes(c, c.old, f, f, "overwrite")
  <2>1. Working(c) /\ f \in Nat /\ c.old \in Seq(Chars) /\ Overwriting(c, c.old, f)
    BY <1>1, <1>2, <1>3, OverwriteBegins
  <2>2. call' = c /\ str' = c.old /\ write' = f /\ read' = f /\ at' = "overwrite"
    BY <1>3 DEF Goes
  <2>3. ReplaceTypeOK'
    BY <2>1, <2>2 DEF ReplaceTypeOK, Loops
  <2> QED BY <2>1, <2>2, <2>3 DEF ReplaceIInv, ReplacesMatches
<1>4. CASE Goes(c, <<>>, 0, 0, "append")
  <2>1. Working(c) /\ Appending(c, <<>>, 0) /\ <<>> \in Seq(Chars)
    BY <1>2, AppendBegins
  <2>2. call' = c /\ str' = <<>> /\ write' = 0 /\ read' = 0 /\ at' = "append"
    BY <1>4 DEF Goes
  <2>3. ReplaceTypeOK'
    BY <2>1, <2>2 DEF ReplaceTypeOK, Loops
  <2> QED BY <2>1, <2>2, <2>3 DEF ReplaceIInv, ReplacesMatches
<1>5. CASE Len(c.with) # MatchSize(c) /\ Goes(c, t, f, f + x, "shift")
  <2>1. Working(c) /\ f \in Nat /\ f + x \in Nat /\ t \in Seq(Chars) /\ Shifting(c, t, f, f + x)
    BY <1>1, <1>2, <1>5, ShiftBegins
  <2>2. call' = c /\ str' = t /\ write' = f /\ read' = f + x /\ at' = "shift"
    BY <1>5 DEF Goes
  <2>3. ReplaceTypeOK'
    BY <2>1, <2>2 DEF ReplaceTypeOK, Loops
  <2> QED BY <2>1, <2>2, <2>3 DEF ReplaceIInv, ReplacesMatches
<1> QED BY <1>2, <1>3, <1>4, <1>5

LEMMA OverwriteRoundKeeps == ReplaceIInv /\ OverwriteRound => ReplaceIInv'
<1> SUFFICES ASSUME ReplaceIInv, OverwriteRound PROVE ReplaceIInv'
  OBVIOUS
<1>1. PICK v, next : v = Overwrite(str, read, call.with) /\ next = Find(call, v, read + Len(call.with))
  OBVIOUS
<1>2. /\ str' = v /\ call' = call
      /\ IF next = Nowhere THEN at' = "done" /\ write' = write /\ read' = read
         ELSE read' = next /\ write' = next /\ at' = "overwrite"
  BY <1>1 DEF OverwriteRound, NextOffset
<1>3. Working(call) /\ str \in Seq(Chars) /\ read \in Nat /\ write \in Nat /\ Overwriting(call, str, read)
      /\ call \in Calls \cup {NoCall}
  BY DEF ReplaceIInv, ReplaceTypeOK, OverwriteRound, Loops
<1>4. /\ v \in Seq(Chars)
      /\ next = Nowhere => v = WithMatchesReplaced(call, call.old, call.offset)
      /\ next # Nowhere => next \in Nat /\ Overwriting(call, v, next)
  BY <1>1, <1>3, OverwriteGoes
<1>5. CASE next = Nowhere
  <2>1. ReplaceTypeOK'
    BY <1>2, <1>3, <1>4, <1>5 DEF ReplaceTypeOK, Loops
  <2> QED BY <1>2, <1>4, <1>5, <2>1 DEF ReplaceIInv, ReplacesMatches
<1>6. CASE next # Nowhere
  <2>1. ReplaceTypeOK'
    BY <1>2, <1>3, <1>4, <1>6 DEF ReplaceTypeOK, Loops
  <2> QED BY <1>2, <1>4, <1>6, <2>1 DEF ReplaceIInv, ReplacesMatches
<1> QED BY <1>5, <1>6

LEMMA AppendRoundKeeps == ReplaceIInv /\ AppendRound => ReplaceIInv'
<1> SUFFICES ASSUME ReplaceIInv, AppendRound PROVE ReplaceIInv'
  OBVIOUS
<1>1. PICK m, e, g, d : /\ m = Find(call, call.old, IF read = 0 THEN call.offset ELSE read)
                        /\ e = m + MatchSize(call) /\ g = str \o Between(call.old, read, m) \o call.with
                        /\ d = Between(call.old, e, Len(call.old))
  OBVIOUS
<1>2. /\ str' = (IF Find(call, call.old, e) = Nowhere THEN g \o d ELSE g)
      /\ write' = Len(str') /\ read' = e /\ call' = call
      /\ at' = (IF Find(call, call.old, e) = Nowhere THEN "done" ELSE "append")
  BY <1>1 DEF AppendRound
<1>3. Working(call) /\ str \in Seq(Chars) /\ read \in Nat /\ Appending(call, str, read)
      /\ call \in Calls \cup {NoCall}
  BY DEF ReplaceIInv, ReplaceTypeOK, AppendRound, Loops
<1>4. /\ g \in Seq(Chars) /\ e \in Nat
      /\ Find(call, call.old, e) = Nowhere =>
           /\ g \o d \in Seq(Chars)
           /\ g \o d = WithMatchesReplaced(call, call.old, call.offset)
      /\ Find(call, call.old, e) # Nowhere => Appending(call, g, e)
  <2>1. Working(call) /\ str \in Seq(Chars) /\ read \in Nat /\ Appending(call, str, read)
    BY <1>3
  <2>2. /\ m = Find(call, call.old, IF read = 0 THEN call.offset ELSE read)
        /\ e = m + MatchSize(call) /\ g = str \o Between(call.old, read, m) \o call.with
    BY <1>1
  <2>3. Appended(call, g, e)
    BY ONLY <2>1, <2>2, AppendGoes
  <2> QED BY <1>1, <2>3 DEF Appended
<1>5. str' \in Seq(Chars) /\ write' \in Nat
  <2>1. str' \in Seq(Chars)
    BY <1>2, <1>4
  <2> QED BY <1>2, <2>1, LenProperties
<1>6. ReplaceTypeOK'
  BY <1>2, <1>3, <1>4, <1>5 DEF ReplaceTypeOK, Loops
<1> QED BY <1>2, <1>4, <1>6 DEF ReplaceIInv, ReplacesMatches

LEMMA ShiftRoundKeeps == ReplaceIInv /\ ShiftRound => ReplaceIInv'
<1> SUFFICES ASSUME ReplaceIInv, ShiftRound PROVE ReplaceIInv'
  OBVIOUS
<1>1. PICK u, e, v, match, q, z :
        /\ u = read + MatchSize(call) /\ e = write + Len(call.with) /\ v = Overwrite(str, write, call.with)
        /\ match = Min({Find(call, v, u), Len(v)}) /\ q = Overwrite(v, e, Between(v, u, match))
        /\ z = e + (match - u)
  OBVIOUS
<1>2. /\ call' = call /\ write' = z /\ read' = match
      /\ IF match < Len(str) THEN str' = q /\ at' = "shift" ELSE str' = Resize(q, z) /\ at' = "done"
  BY <1>1 DEF ShiftRound, MatchFrom
<1>3. Working(call) /\ str \in Seq(Chars) /\ read \in Nat /\ write \in Nat /\ Shifting(call, str, write, read)
      /\ call \in Calls \cup {NoCall}
  BY DEF ReplaceIInv, ReplaceTypeOK, ShiftRound, Loops
<1>4. /\ match \in Nat /\ z \in Nat /\ q \in Seq(Chars) /\ Resize(q, z) \in Seq(Chars)
      /\ match < Len(str) => Shifting(call, q, z, match)
      /\ ~(match < Len(str)) => Resize(q, z) = WithMatchesReplaced(call, call.old, call.offset)
  BY <1>1, <1>3, ShiftGoes
<1>5. CASE match < Len(str)
  <2>1. ReplaceTypeOK'
    BY <1>2, <1>3, <1>4, <1>5 DEF ReplaceTypeOK, Loops
  <2> QED BY <1>2, <1>4, <1>5, <2>1 DEF ReplaceIInv, ReplacesMatches
<1>6. CASE ~(match < Len(str))
  <2>1. ReplaceTypeOK'
    BY <1>2, <1>3, <1>4, <1>6 DEF ReplaceTypeOK, Loops
  <2> QED BY <1>2, <1>4, <1>6, <2>1 DEF ReplaceIInv, ReplacesMatches
<1> QED BY <1>5, <1>6

LEMMA ReplaceKeeps == ReplaceIInv /\ [ReplaceNext]_replaceVars => ReplaceIInv'
<1> SUFFICES ASSUME ReplaceIInv, [ReplaceNext]_replaceVars PROVE ReplaceIInv'
  OBVIOUS
<1>1. CASE at = "idle" /\ \E c \in Calls : FindNothing(c) \/ ReplaceFirst(c) \/ ReplaceEvery(c)
  <2>1. PICK c \in Calls : FindNothing(c) \/ ReplaceFirst(c) \/ ReplaceEvery(c)
    BY <1>1
  <2> QED BY <2>1, NothingFound, FirstReplaced, EveryBegins
<1>2. CASE OverwriteRound
  BY <1>2, OverwriteRoundKeeps
<1>3. CASE AppendRound
  BY <1>3, AppendRoundKeeps
<1>4. CASE ShiftRound
  BY <1>4, ShiftRoundKeeps
<1>5. CASE Return
  <2>1. <<>> \in Seq(Chars)
    OBVIOUS
  <2> QED BY <1>5, <2>1 DEF Return, ReplaceIInv, ReplaceTypeOK, ReplacesMatches, Loops
<1>6. CASE UNCHANGED replaceVars
  <2>1. str' = str /\ call' = call /\ write' = write /\ read' = read /\ at' = at
    BY <1>6 DEF replaceVars
  <2> QED BY <2>1 DEF ReplaceIInv, ReplaceTypeOK, ReplacesMatches
<1> QED BY <1>1, <1>2, <1>3, <1>4, <1>5, <1>6 DEF ReplaceNext

\* The part that is not searched yet is the end of the string at first.
LEMMA ShiftingLeaves == ReplaceIInv => ReplacesInPlace
<1> SUFFICES ASSUME ReplaceIInv PROVE ReplacesInPlace
  OBVIOUS
<1>1. ASSUME at = "shift" PROVE UnsearchedIsIntact
  <2>1. PICK o, u, j, n, lt : /\ o = call.old /\ u = read + MatchSize(call) /\ lt = Len(str) /\ n = Len(o)
                              /\ j = n - (lt - u)
    OBVIOUS
  <2>2. /\ write <= read /\ write + Len(call.with) <= u /\ u <= lt /\ SameTail(str, u, o, j)
    BY <1>1, <2>1 DEF ReplaceIInv, Shifting
  <2>3. str \in Seq(Chars) /\ Working(call)
    BY <1>1 DEF ReplaceIInv, ReplaceTypeOK, Loops
  <2>4. o \in Seq(Chars) /\ n \in Nat
    BY <2>1, <2>3, Works
  <2>5. u \in Nat /\ j \in Nat /\ j <= n /\ lt - u = n - j /\ lt \in Nat
    BY <2>1, <2>2, <2>3, LenProperties DEF SameTail
  <2>6. PICK k : k = n - j
    OBVIOUS
  <2>7. 0 \in Nat /\ k \in Nat /\ 0 <= k /\ u + 0 = u /\ j + 0 = j /\ u + k = lt /\ j + k = n /\ n - (lt - u) = j
    BY ONLY <2>4, <2>5, <2>6
  <2>8. k <= Len(o) - j
    BY <2>1, <2>6, <2>7
  <2>9. Between(str, u + 0, u + k) = Between(o, j + 0, j + k)
    <3>1. str \in Seq(Chars)
      BY <2>3
    <3>2. o \in Seq(Chars)
      BY <2>4
    <3>3. SameTail(str, u, o, j)
      BY <2>2
    <3> QED BY ONLY <2>7, <2>8, <3>1, <3>2, <3>3, TailParts
  <2>10. Between(str, u, lt) = Between(o, j, n)
    BY <2>7, <2>9
  <2> QED BY <2>1, <2>2, <2>7, <2>10 DEF UnsearchedIsIntact
<1>2. UnsearchedIsIntact
  <2>1. CASE at = "shift"
    BY <1>1, <2>1
  <2>2. CASE at # "shift"
    BY <2>2 DEF UnsearchedIsIntact
  <2> QED BY <2>1, <2>2
<1> QED BY <1>2 DEF ReplaceIInv, ReplacesInPlace

THEOREM ReplaceTypeCorrect == ReplaceSpec => []ReplaceTypeOK
<1>1. ReplaceIInv => ReplaceTypeOK
  BY DEF ReplaceIInv
<1> QED BY <1>1, ReplaceInitIInv, ReplaceKeeps, PTL DEF ReplaceSpec

\* Whichever way the lengths and the capacity make the function take, it ends with
\* every match replaced, and the loop that works within the buffer never writes over
\* what it has not read: for all strings, and all lengths of what is found and put.
THEOREM ReplacesInPlaceAlways == ReplaceSpec => []ReplacesInPlace
BY ReplaceInitIInv, ReplaceKeeps, ShiftingLeaves, PTL DEF ReplaceSpec

=============================================================================
