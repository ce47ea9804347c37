------------------------------- MODULE SafeMath -------------------------------
(***************************************************************************)
(* The operations of checked_math_impl and clamped_math_impl: x of type t  *)
(* with y of type u, into type v.  fast: the compiler's builtins are used. *)
(***************************************************************************)
EXTENDS Numerics, FiniteSets, FiniteSetsExt

-----------------------------------------------------------------------------
(* Checked operations                                                      *)

Narrowed(v, p, r) ==
  IF r.ok /\ IsValueInRange(v, p, r.value) THEN Succeeds(Cast(v, r.value)) ELSE Failed
Builtin(v, exact) == IF InType(v, exact) THEN Succeeds(exact) ELSE Failed

AddOp(fast, t, x, u, y, v) ==
  LET p == FastPromotion(t, u)
  IN IF fast THEN Builtin(v, x + y)
     ELSE IF ~IsValueInRange(p, t, x) \/ ~IsValueInRange(p, u, y) THEN Failed
     ELSE Narrowed(v, p, IF ArithmeticSafe(p, t, u) THEN Succeeds(x + y)
                         ELSE CheckedAddImpl(p, Cast(p, x), Cast(p, y)))
SubOp(fast, t, x, u, y, v) ==
  LET p == FastPromotion(t, u)
  IN IF fast THEN Builtin(v, x - y)
     ELSE IF ~IsValueInRange(p, t, x) \/ ~IsValueInRange(p, u, y) THEN Failed
     ELSE Narrowed(v, p, IF ArithmeticSafe(p, t, u) THEN Succeeds(Cast(p, x - y))
                         ELSE CheckedSubImpl(p, Cast(p, x), Cast(p, y)))
\* Clang has no builtin for the two signs at full width.
MulBuiltin(fast, t, u) ==
  fast /\ \E signed \in BOOLEAN : LET intptr == TwiceWider(signed)
                                  IN RangeContains(intptr, t) /\ RangeContains(intptr, u)
MulOp(fast, t, x, u, y, v) ==
  LET p == FastPromotion(t, u)
  IN IF MulBuiltin(fast, t, u) THEN Builtin(v, x * y)
     ELSE IF (~IsValueInRange(p, t, x) \/ ~IsValueInRange(p, u, y)) /\ x # 0 /\ y # 0
     THEN Failed
     ELSE Narrowed(v, p, IF MulBuiltin(fast, p, p) THEN Builtin(p, Cast(p, x) * Cast(p, y))
                         ELSE IF ArithmeticSafe(p, t, u) THEN Succeeds(x * y)
                         ELSE CheckedMulImpl(p, Cast(p, x), Cast(p, y)))

\* Division of C++, towards zero.
Magnitude(x) == IF x < 0 THEN -x ELSE x
Quotient(x, y) ==
  LET q == Magnitude(x) \div Magnitude(y) IN IF (x < 0) # (y < 0) THEN -q ELSE q
Remainder(x, y) == x - y * Quotient(x, y)

IsLowestByMinusOne(t, x, u, y) ==
  LET p == BigEnough(t, u)
  IN t.signed /\ u.signed /\ RangeContains(t, p) /\ Cast(p, x) = Lowest(p) /\ y = -1
DivOp(t, x, u, y, v) ==
  LET p == BigEnough(t, u)
  IN IF \/ y = 0
        \/ IsLowestByMinusOne(t, x, u, y)
        \/ (~IsValueInRange(p, t, x) \/ ~IsValueInRange(p, u, y)) /\ x # 0
     THEN Failed
     ELSE Narrowed(v, p, Succeeds(Quotient(Cast(p, x), Cast(p, y))))
\* The operands are promoted without a range check.
ModOp(t, x, u, y, v) ==
  LET p == BigEnough(t, u)
  IN CASE y = 0 -> Failed
       [] y # 0 /\ IsLowestByMinusOne(t, x, u, y) -> Succeeds(0)
       [] OTHER -> Narrowed(v, p, Succeeds(Remainder(Cast(p, x), Cast(p, y))))

Bits(t) == CHOOSE n \in 1..t.half : 2^n = Modulus(t)
Digits(t) == IF t.signed THEN Bits(t) - 1 ELSE Bits(t)
Unsigned(t, v) == Cast(MakeUnsigned(t), v)

LshOp(t, x, u, shift) ==
  IF ~IsNegative(t, x) /\ Unsigned(u, shift) < Digits(t)
  THEN LET shifted == Cast(t, Unsigned(t, x) * 2^shift)
       IN [ok |-> shifted \div 2^shift = x, value |-> shifted]
  ELSE IF t.signed /\ x = 0 /\ Unsigned(u, shift) = Digits(t) THEN Succeeds(0) ELSE Failed
RshOp(t, x, u, shift) ==
  IF Unsigned(u, shift) >= Bits(t) THEN Failed ELSE Succeeds(x \div 2^shift)

\* A bit of the result is a function of the bits of the operands.
Bitwise2(Bit(_, _), t, x, u, y) ==
  LET r == MakeUnsigned(MaxExponentPromotion(t, u))
      has(v, i) == (Cast(r, v) \div 2^i) % 2 = 1
  IN MapThenSumSet(LAMBDA i : 2^i, {i \in 0..(Bits(r) - 1) : Bit(has(x, i), has(y, i))})
And(a, b) == a /\ b
Or(a, b) == a \/ b
Xor(a, b) == a # b

MaxOp(t, x, u, y) == IF IsLess(u, y, t, x) THEN x ELSE y
MinOp(t, x, u, y) == IF IsLess(t, x, u, y) THEN x ELSE y

-----------------------------------------------------------------------------
Arithmetic == {"Add", "Sub", "Mul", "Div", "Mod"}
Shifts == {"Lsh", "Rsh"}
Logic == {"And", "Or", "Xor"}
Operations == Arithmetic \cup Shifts \cup Logic \cup {"Max", "Min"}

ResultType(name, t, u) ==
  CASE name \in Shifts -> t
    [] name \in Logic -> MakeUnsigned(MaxExponentPromotion(t, u))
    [] name = "Min" -> LowestValuePromotion(t, u)
    [] OTHER -> MaxExponentPromotion(t, u)

BitsOf(name, t, x, u, y) ==
  CASE name = "And" -> Bitwise2(And, t, x, u, y)
    [] name = "Or" -> Bitwise2(Or, t, x, u, y)
    [] name = "Xor" -> Bitwise2(Xor, t, x, u, y)
Extreme(name, t, x, u, y) == IF name = "Max" THEN MaxOp(t, x, u, y) ELSE MinOp(t, x, u, y)

Checked(fast, name, t, x, u, y, v) ==
  LET r == ResultType(name, t, u)
  IN CASE name = "Add" -> AddOp(fast, t, x, u, y, v)
       [] name = "Sub" -> SubOp(fast, t, x, u, y, v)
       [] name = "Mul" -> MulOp(fast, t, x, u, y, v)
       [] name = "Div" -> DivOp(t, x, u, y, v)
       [] name = "Mod" -> ModOp(t, x, u, y, v)
       [] name = "Lsh" -> LshOp(t, x, u, y)
       [] name = "Rsh" -> RshOp(t, x, u, y)
       [] name \in Logic -> Narrowed(v, r, Succeeds(BitsOf(name, t, x, u, y)))
       [] name \in {"Max", "Min"} ->
            Narrowed(v, r, Succeeds(Cast(r, Extreme(name, t, x, u, y))))

SaturatedAbs(t, v) ==
  LET abs == SafeUnsignedAbs(t, v) IN Cast(t, abs - (IF IsNegative(t, Cast(t, abs)) THEN 1 ELSE 0))
SaturatedNeg(t, v) ==
  IF ~t.signed THEN 0
  ELSE IF NegateWrapper(t, v) # Lowest(t) THEN NegateWrapper(t, v) ELSE MaxOf(t)

\* What the checked operation returns, or else an end of the type.
ValueOr(checked, otherwise) == IF checked.ok THEN checked.value ELSE otherwise
EndOf(v, is_min) == CommonMaxOrMin(v, v, is_min)
Differ(t, x, u, y) == IsNegative(t, x) # IsNegative(u, y)

ClampedAdd(fast, t, x, u, y, v) ==
  ValueOr(AddOp(fast, t, x, u, y, v), EndOf(v, IsNegative(u, y)))
ClampedSub(fast, t, x, u, y, v) ==
  ValueOr(SubOp(fast, t, x, u, y, v), EndOf(v, ~IsNegative(u, y)))
ClampedMul(fast, t, x, u, y, v) ==
  ValueOr(MulOp(fast, t, x, u, y, v), EndOf(v, Differ(t, x, u, y)))
ClampedDiv(t, x, u, y, v) ==
  ValueOr(DivOp(t, x, u, y, v), IF x = 0 THEN 0 ELSE EndOf(v, Differ(t, x, u, y)))
ClampedMod(t, x, u, y, v) == ValueOr(ModOp(t, x, u, y, v), Cast(v, x))

ClampedLsh(t, x, shift) ==
  LET shifted == Cast(t, Unsigned(t, x) * 2^shift)
  IN IF shift < Digits(t) /\ shifted \div 2^shift = x THEN shifted
     ELSE IF x = 0 THEN 0 ELSE CommonMaxOrMin(t, t, IsNegative(t, x))
ClampedRsh(t, x, shift) ==
  IF shift < Bits(t) THEN saturated_cast(t, t, x \div 2^shift)
  ELSE IF IsNegative(t, x) THEN -1 ELSE 0

Clamped(fast, name, t, x, u, y, v) ==
  CASE name = "Add" -> ClampedAdd(fast, t, x, u, y, v)
    [] name = "Sub" -> ClampedSub(fast, t, x, u, y, v)
    [] name = "Mul" -> ClampedMul(fast, t, x, u, y, v)
    [] name = "Div" -> ClampedDiv(t, x, u, y, v)
    [] name = "Mod" -> ClampedMod(t, x, u, y, v)
    [] name = "Lsh" -> ClampedLsh(t, x, y)
    [] name = "Rsh" -> ClampedRsh(t, x, y)
    [] name \in Logic -> Cast(v, BitsOf(name, t, x, u, y))
    [] name \in {"Max", "Min"} ->
         LET e == Extreme(name, t, x, u, y)
         IN saturated_cast(v, IF e = x THEN t ELSE u, e)

\* The value of a type that is nearest to v.
Nearest(t, v) ==
  CASE v < Lowest(t) -> Lowest(t) [] v > MaxOf(t) -> MaxOf(t) [] OTHER -> v
=============================================================================
