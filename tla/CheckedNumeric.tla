---------------------------- MODULE CheckedNumeric ----------------------------
(***************************************************************************)
(* CheckedNumeric and ClampedNumeric of base/numerics: a program builds up *)
(* a number by one operation after the other, on integers of any types,    *)
(* with the compiler's overflow builtins or without.  The model keeps the  *)
(* number that mathematics would have made beside it.                      *)
(***************************************************************************)
EXTENDS SafeMath

CONSTANTS
  Samples(_), \* the values of a type that a number starts from or is combined with
  Undefined   \* the ideal number after an operation that has no result

VARIABLES
  number, \* a CheckedNumeric, or a ClampedNumeric, which is always valid
  ideal   \* what number stands for

mathVars == <<number, ideal>>

-----------------------------------------------------------------------------
(* The numbers.  ideal is computed from the definitions of arithmetic, in  *)
(* which nothing wraps.                                                    *)

Make(kind, t, src, v, valid) ==
  IF kind = "checked"
  THEN [kind |-> kind, type |-> t, value |-> Cast(t, v),
        valid |-> valid /\ IsValueInRange(t, src, v)]
  ELSE [kind |-> kind, type |-> t, value |-> saturated_cast(t, src, v), valid |-> TRUE]

\* What a number of type t should hold when v is meant.
Meant(kind, t, v) ==
  IF kind = "clamped" THEN Nearest(t, v) ELSE IF InType(t, v) THEN v ELSE Undefined

\* The result without overflow, or Undefined where the operation has none.  Remainders
\* are those of the promoted operands, see ModOp.
Exact(name, t, x, u, y) ==
  CASE name = "Add" -> x + y
    [] name = "Sub" -> x - y
    [] name = "Mul" -> x * y
    [] name = "Div" -> IF y = 0 THEN Undefined ELSE Quotient(x, y)
    [] name = "Mod" -> IF y = 0 THEN Undefined
                       ELSE LET p == BigEnough(t, u) IN Remainder(Cast(p, x), Cast(p, y))
    [] name = "Lsh" -> IF x < 0 \/ y < 0 \/ (y >= Digits(t) /\ ~(t.signed /\ x = 0 /\ y = Digits(t)))
                       THEN Undefined ELSE x * 2^y
    [] name = "Rsh" -> IF y < 0 \/ y >= Bits(t) THEN Undefined ELSE x \div 2^y
    [] name \in Logic -> BitsOf(name, t, x, u, y)
    [] name = "Max" -> Max({x, y})
    [] name = "Min" -> Min({x, y})

\* Without the builtins an operand or a difference that does not fit the promoted
\* type makes the result invalid (the TODOs of CheckedAddOp and CheckedSubOp).
Supported(fast, name, t, x, u, y) ==
  LET fits(p) == InType(p, x) /\ InType(p, y)
  IN CASE name = "Add" -> fast \/ fits(FastPromotion(t, u))
       [] name = "Sub" -> fast \/ (fits(FastPromotion(t, u)) /\ InType(FastPromotion(t, u), x - y))
       [] name = "Mul" -> MulBuiltin(fast, t, u) \/ x = 0 \/ y = 0 \/ fits(FastPromotion(t, u))
       [] name = "Div" -> x = 0 \/ fits(BigEnough(t, u))
       [] OTHER -> TRUE
\* Clamped operations are not defined by the nearest value everywhere: division
\* by zero goes to the end that the sign of x points to, a remainder by zero is x,
\* a shift by more than the width is one by the width, and bits are only copied.
ClampedExact(name, t, x, u, y, v) ==
  CASE name = "Div" /\ y = 0 -> IF x = 0 THEN 0 ELSE IF x < 0 THEN Lowest(v) ELSE MaxOf(v)
    [] name = "Mod" /\ y = 0 -> x
    [] name = "Lsh" -> x * 2^Min({y, Bits(t)})
    [] name = "Rsh" -> x \div 2^Min({y, Bits(t)})
    [] name \in Logic -> Cast(v, BitsOf(name, t, x, u, y))
    [] OTHER -> Exact(name, t, x, u, y)

-----------------------------------------------------------------------------
MathInit ==
  /\ \E kind \in {"checked", "clamped"}, t \in Types : number = Make(kind, t, t, 0, TRUE)
  /\ ideal = 0

\* The constructor from a plain number of another type.
ConstructFrom(t, src, v) ==
  /\ number' = Make(number.kind, t, src, v, TRUE)
  /\ ideal' = Meant(number.kind, t, v)

\* The converting constructor, Cast<Dst>(), and number = other.
CastTo(t) ==
  /\ number' = Make(number.kind, t, number.type, number.value, number.valid)
  /\ ideal' = IF ideal = Undefined THEN Undefined ELSE Meant(number.kind, t, ideal)

\* number OP y and number OP= y: the second keeps the type.
CheckedMath(name, u, y, v, fast) ==
  LET t == number.type
      x == number.value
      r == Checked(fast, name, t, x, u, y, v)
  IN /\ number.kind = "checked"
     /\ number' = IF number.valid THEN Make("checked", v, v, r.value, r.ok)
                  ELSE Make("checked", v, v, 0, FALSE)
     /\ ideal' = IF ideal = Undefined \/ ~Supported(fast, name, t, ideal, u, y) THEN Undefined
                 ELSE LET e == Exact(name, t, ideal, u, y)
                      IN IF e = Undefined THEN Undefined ELSE Meant("checked", v, e)
ClampedMath(name, u, y, v, fast) ==
  LET t == number.type
      x == number.value
  IN /\ number.kind = "clamped"
     /\ name \in Shifts => ~u.signed
     /\ name \in {"Add", "Sub"} => v = ResultType(name, t, u) \/ RangeContains(v, u)
     /\ number' = Make("clamped", v, v, Clamped(fast, name, t, x, u, y, v), TRUE)
     /\ ideal' = IF name \notin Shifts /\ ~(RangeContains(v, t) /\ RangeContains(v, u)) THEN Undefined
                 ELSE Nearest(v, ClampedExact(name, t, x, u, y, v))
MathOp(name, u, y) ==
  \E v \in {ResultType(name, number.type, u), number.type},
     fast \in IF name \in {"Add", "Sub", "Mul"} THEN BOOLEAN ELSE {FALSE} :
    CheckedMath(name, u, y, v, fast) \/ ClampedMath(name, u, y, v, fast)

\* The other operand is a CheckedNumeric that is not valid.
MeetsInvalid(name, u) ==
  /\ number.kind = "checked"
  /\ LET v == ResultType(name, number.type, u) IN number' = Make("checked", v, v, 0, FALSE)
  /\ ideal' = Undefined

Unary(v, checked, ok, clamped, exact) ==
  /\ number' = IF number.kind = "checked" THEN Make("checked", v, v, checked, number.valid /\ ok)
               ELSE Make("clamped", v, v, clamped, TRUE)
  /\ ideal' = IF ideal = Undefined THEN Undefined ELSE Meant(number.kind, v, exact)
\* An unsigned CheckedNumeric is negated modulo its size.
Negated(t, x) == IF t.signed \/ number.kind = "clamped" THEN -x ELSE Cast(t, -x)
Negate ==
  LET t == number.type
      negation == NegateWrapper(t, number.value)
  IN Unary(t, negation, t.signed => negation # Lowest(t), SaturatedNeg(t, number.value),
           Negated(t, number.value))
Abs ==
  LET t == number.type
      x == number.value
      abs == IF IsNegative(t, x) THEN NegateWrapper(t, x) ELSE x
  IN Unary(t, abs, IsNegative(t, x) => abs # Lowest(t), SaturatedAbs(t, x), Magnitude(x))
UnsignedAbs ==
  LET u == MakeUnsigned(number.type)
      abs == SafeUnsignedAbs(number.type, number.value)
  IN Unary(u, abs, TRUE, abs, Magnitude(number.value))
\* The complement is unsigned, and converted back to the type of the number.
Invert ==
  LET t == number.type
      u == MakeUnsigned(t)
      inverse == MaxOf(u) - Cast(u, number.value)
  IN /\ number' = Make(number.kind, t, u, inverse, number.valid)
     /\ ideal' = IF ideal = Undefined THEN Undefined ELSE Meant(number.kind, t, inverse)

MathNext ==
  \/ \E t \in Types, src \in Types : \E v \in Samples(src) : ConstructFrom(t, src, v)
  \/ \E t \in Types : CastTo(t)
  \/ \E name \in Operations, u \in Types :
       \/ \E y \in Samples(u) : (name \in Shifts => y >= -1) /\ MathOp(name, u, y)
       \/ MeetsInvalid(name, u)
  \/ Negate \/ Abs \/ UnsignedAbs \/ Invert

MathSpec == MathInit /\ [][MathNext]_mathVars

-----------------------------------------------------------------------------
\* The two halves of NumbersAreExact.
CheckedIsExact ==
  number.kind = "checked" =>
    /\ number.valid <=> ideal # Undefined
    /\ number.valid =>
         /\ number.value = ideal
         /\ \A dst \in Types : IsValueInRange(dst, number.type, number.value) <=> InType(dst, ideal)

ClampedIsNearest ==
  number.kind = "clamped" =>
    /\ ideal # Undefined => number.value = ideal
    /\ \A dst \in Types : saturated_cast(dst, number.type, number.value) = Nearest(dst, number.value)

\* A CheckedNumeric is valid exactly as long as no step of the computation had a
\* result outside its type, and holds what mathematics says; for every type it
\* may be read as, IsValid<Dst>() says whether that fits.  A ClampedNumeric holds
\* the value of its type that is nearest to the result of the operation, when the
\* type has room for both operands, and is read as the nearest value of every
\* other type.
NumbersAreExact == CheckedIsExact /\ ClampedIsNearest
=============================================================================
