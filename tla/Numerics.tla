------------------------------- MODULE Numerics -------------------------------
(***************************************************************************)
(* base/numerics for the integers: the conversions of safe_conversions and *)
(* the arithmetic on promoted types that CheckedNumeric and ClampedNumeric *)
(* are built from.  An integer type is its sign and half the number of its *)
(* values; a wider type has the square of that, as twice the bits have.    *)
(***************************************************************************)
EXTENDS Integers

CONSTANTS
  Half,     \* half the number of values of the narrow types
  WideHalf  \* and of those of intmax_t and uintmax_t

ASSUME WidthsAssumption ==
  /\ Half \in Nat \ {0} /\ WideHalf \in Nat
  /\ WideHalf >= 2 * Half /\ WideHalf = 2 * Half * Half

Types == [half : {Half, WideHalf}, signed : BOOLEAN]
IsIntmax(t) == t.half = WideHalf

Modulus(t) == 2 * t.half
Lowest(t) == IF t.signed THEN -t.half ELSE 0
MaxOf(t) == IF t.signed THEN t.half - 1 ELSE 2 * t.half - 1
InType(t, v) == Lowest(t) <= v /\ v <= MaxOf(t)
MakeUnsigned(t) == [t EXCEPT !.signed = FALSE]

\* static_cast, and the reading of a bit pattern as the other sign.
Cast(t, v) == ((v - Lowest(t)) % Modulus(t)) + Lowest(t)
IsNegative(t, v) == t.signed /\ v < 0

-----------------------------------------------------------------------------
(* Promotions.  kMaxExponent orders types as their largest values do.      *)

RangeContains(dst, src) ==
  /\ ~dst.signed => ~src.signed
  /\ MaxOf(dst) >= MaxOf(src)

MaxExponentPromotion(l, r) == IF MaxOf(l) > MaxOf(r) THEN l ELSE r
LowestValuePromotion(l, r) ==
  IF IF l.signed THEN r.signed => MaxOf(l) > MaxOf(r)
                 ELSE ~r.signed /\ MaxOf(l) < MaxOf(r)
  THEN l ELSE r

TwiceWider(signed) == [half |-> WideHalf, signed |-> signed]
BigEnough(l, r) ==
  LET p == MaxExponentPromotion(l, r)
  IN IF IsIntmax(p) \/ (RangeContains(p, l) /\ RangeContains(p, r)) THEN p
     ELSE TwiceWider(l.signed \/ r.signed)
BigEnoughContained(l, r) ==
  RangeContains(BigEnough(l, r), l) /\ RangeContains(BigEnough(l, r), r)

\* kIsIntegerArithmeticSafe of the twice wider type is the width alone.
ArithmeticSafe(p, l, r) ==
  /\ IsIntmax(p) /\ ~IsIntmax(l) /\ ~IsIntmax(r)
  /\ (l.signed \/ r.signed) => p.signed
FastPromotion(l, r) ==
  IF IsIntmax(MaxExponentPromotion(l, r)) THEN BigEnough(l, r)
  ELSE TwiceWider(l.signed \/ r.signed)

\* The type of l + r: no type of the model is narrower than int.
CommonType(l, r) ==
  IF l.half # r.half THEN (IF l.half > r.half THEN l ELSE r)
  ELSE [half |-> l.half, signed |-> l.signed /\ r.signed]

-----------------------------------------------------------------------------
(* Range checks                                                            *)

\* DstRangeRelationToSrcRange: the specializations by sign.
InLowerBound(dst, src, v) ==
  src.signed => IF dst.signed THEN RangeContains(dst, src) \/ v >= Lowest(dst) ELSE v >= 0
InUpperBound(dst, src, v) ==
  LET both == CommonType(src, dst)
      fits(w) == Cast(both, w) <= Cast(both, MaxOf(dst))
  IN \/ RangeContains(dst, src)
     \/ src.signed = dst.signed /\ v <= MaxOf(dst)
     \/ src.signed # dst.signed /\ (fits(v) \/ (src.signed /\ fits(MaxOf(src))))
RangeCheck(dst, src, v) ==
  [underflow |-> ~InLowerBound(dst, src, v), overflow |-> ~InUpperBound(dst, src, v)]

\* IsLess, and with <= IsLessOrEqual; IsGreater and IsGreaterOrEqual are the same
\* with the sides swapped.
Ordered(lr, rr, related) ==
  \/ lr.underflow /\ ~lr.overflow
  \/ rr.overflow /\ ~rr.underflow
  \/ lr = rr /\ related
IsOrdered(Rel(_, _), l, x, r, y) ==
  LET sum == CommonType(l, r)
  IN Ordered(RangeCheck(r, l, x), RangeCheck(l, r, y), Rel(Cast(sum, x), Cast(sum, y)))
IsLess(l, x, r, y) == IsOrdered(<, l, x, r, y)
IsLessOrEqual(l, x, r, y) == IsOrdered(<=, l, x, r, y)
IsEqual(l, x, r, y) ==
  LET sum == CommonType(l, r)
  IN RangeCheck(r, l, x) = RangeCheck(l, r, y) /\ Cast(sum, x) = Cast(sum, y)
\* SafeCompare compares in the promoted type when that has both ranges.
SafeCompare(Test(_, _, _, _), l, x, r, y) ==
  LET big == BigEnough(l, r)
  IN IF BigEnoughContained(l, r) THEN Test(big, Cast(big, x), big, Cast(big, y))
     ELSE Test(l, x, r, y)

MaxInRange(dst, src) == IsLessOrEqual(src, MaxOf(src), dst, MaxOf(dst))
MinInRange(dst, src) == IsLessOrEqual(dst, Lowest(dst), src, Lowest(src))
CommonMax(dst, src) == IF MaxInRange(dst, src) THEN MaxOf(src) ELSE MaxOf(dst)
CommonMin(dst, src) == IF MinInRange(dst, src) THEN Lowest(src) ELSE Lowest(dst)
CommonMaxOrMin(dst, src, is_min) == IF is_min THEN CommonMin(dst, src) ELSE CommonMax(dst, src)

\* IsValueInRangeForNumericType, with the fast paths for signed sources.
IsValueInRange(dst, src, v) ==
  IF src.signed /\ ~RangeContains(dst, src)
  THEN IF dst.signed THEN v = Cast(dst, v)
       ELSE Cast(MakeUnsigned(src), v) <= Cast(MakeUnsigned(src), CommonMax(src, dst))
  ELSE RangeCheck(dst, src, v) = [underflow |-> FALSE, overflow |-> FALSE]

saturated_cast(dst, src, v) ==
  LET is_min == MaxInRange(dst, src) \/ (~MinInRange(dst, src) /\ IsNegative(src, v))
  IN IF IsValueInRange(dst, src, v) THEN Cast(dst, v) ELSE CommonMaxOrMin(dst, src, is_min)

-----------------------------------------------------------------------------
(* Checked arithmetic in one type                                          *)

Failed == [ok |-> FALSE, value |-> 0]
Succeeds(v) == [ok |-> TRUE, value |-> v]

SafeUnsignedAbs(t, v) ==
  LET u == MakeUnsigned(t) IN IF IsNegative(t, v) THEN Cast(u, -Cast(u, v)) ELSE Cast(u, v)
NegateWrapper(t, v) == Cast(t, -Cast(MakeUnsigned(t), v))

\* The sign bit of an unsigned representation.
HighBit(t, u) == u >= t.half

CheckedAddImpl(t, x, y) ==
  LET u == MakeUnsigned(t)
      ux == Cast(u, x)
      uy == Cast(u, y)
      sum == Cast(u, ux + uy)
  IN IF IF t.signed THEN HighBit(t, sum) # HighBit(t, ux) /\ HighBit(t, sum) # HighBit(t, uy)
                    ELSE sum < uy
     THEN Failed ELSE Succeeds(Cast(t, sum))

CheckedSubImpl(t, x, y) ==
  LET u == MakeUnsigned(t)
      ux == Cast(u, x)
      uy == Cast(u, y)
      difference == Cast(u, ux - uy)
  IN IF IF t.signed THEN HighBit(t, difference) # HighBit(t, ux) /\ HighBit(t, ux) # HighBit(t, uy)
                    ELSE x < y
     THEN Failed ELSE Succeeds(Cast(t, difference))

\* The largest magnitude of a product: a negative one has one more value.
MulLimitMutant(t, is_negative) == MaxOf(t)
MulLimit(t, is_negative) == MaxOf(t) + (IF is_negative THEN 1 ELSE 0)

CheckedMulImpl(t, x, y) ==
  LET u == MakeUnsigned(t)
      ux == SafeUnsignedAbs(t, x)
      uy == SafeUnsignedAbs(t, y)
      product == Cast(u, ux * uy)
      is_negative == t.signed /\ (x < 0) # (y < 0)
  IN IF /\ uy > (IF ~t.signed \/ is_negative THEN 1 ELSE 0)
        /\ ux > MulLimit(t, is_negative) \div uy
     THEN Failed ELSE Succeeds(Cast(t, IF is_negative THEN -product ELSE product))

=============================================================================
