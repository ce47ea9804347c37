-------------------------- MODULE Components_proofs --------------------------
(***************************************************************************)
(* The numerics and the deque that MCComponents checks side by side, for   *)
(* integers of every width and for deques of every size, and the numbers   *)
(* in strings that are built on the numerics.                              *)
(*                                                                         *)
(* Numerics: conversions and comparisons, and addition and subtraction in  *)
(* one type, are right whatever the widths: the proofs use no more than    *)
(* that the wide type has at least twice as many values as the narrow one. *)
(*                                                                         *)
(* CircularDeque: the ring of slots holds exactly the elements, and the    *)
(* deque implements the sequence of Deque.  The operations are followed    *)
(* first on the ring (Ring, Elems), then, for those in the middle, on the  *)
(* slots counted from the first element (Linear), where no index wraps.    *)
(* The loops of the code are folds: a fold is the recursive function that  *)
(* FoldSolution shows to exist, and induction over its turns is            *)
(* well-foundedness of the natural numbers.                                *)
(*                                                                         *)
(* StringNumber: the loop that parses digits keeps the number exactly, or  *)
(* the end of the type once it falls off; the recursion that writes them   *)
(* ends, and what it writes is read back; versions are folds of parses.    *)
(***************************************************************************)
EXTENDS Numerics, CircularDeque, StringNumber, FiniteSetTheorems, WellFoundedInduction, TLAPS

-----------------------------------------------------------------------------
(* Numerics                                                                *)

\* Reduction by a modulus, by hand: a number in range is its own remainder, and
\* one that is off by one modulus is put right by one.
LEMMA ModSmall ==
  ASSUME NEW a \in Int, NEW m \in Nat \ {0}, 0 <= a, a < m
  PROVE  a % m = a
  BY SMT
LEMMA ModOver ==
  ASSUME NEW a \in Int, NEW m \in Nat \ {0}, m <= a, a < 2 * m
  PROVE  a % m = a - m
  BY SMT
LEMMA ModUnder ==
  ASSUME NEW a \in Int, NEW m \in Nat \ {0}, -m <= a, a < 0
  PROVE  a % m = a + m
  BY SMT

\* What the proofs need to know of a type.
LEMMA TypeFacts ==
  ASSUME NEW t \in Types
  PROVE  /\ t.half \in Nat \ {0} /\ t.signed \in BOOLEAN
         /\ t = [half |-> t.half, signed |-> t.signed]
         /\ t.half = Half \/ t.half = WideHalf
         /\ Lowest(t) \in Int /\ MaxOf(t) \in Int /\ Modulus(t) \in Nat \ {0}
         /\ Modulus(t) = MaxOf(t) - Lowest(t) + 1
         /\ Lowest(t) <= 0 /\ 0 <= MaxOf(t)
  BY WidthsAssumption DEF Types, Lowest, MaxOf, Modulus

LEMMA UnsignedFacts ==
  ASSUME NEW t \in Types
  PROVE  /\ MakeUnsigned(t) \in Types
         /\ MakeUnsigned(t).half = t.half /\ ~MakeUnsigned(t).signed
  BY TypeFacts DEF Types, MakeUnsigned

\* Within one turn of the type static_cast adds or subtracts the size at most
\* once, and it always yields a value of the type.
LEMMA CastNear ==
  ASSUME NEW t \in Types, NEW v \in Int
  PROVE  /\ InType(t, v) => Cast(t, v) = v
         /\ MaxOf(t) < v /\ v <= MaxOf(t) + Modulus(t) => Cast(t, v) = v - Modulus(t)
         /\ Lowest(t) - Modulus(t) <= v /\ v < Lowest(t) => Cast(t, v) = v + Modulus(t)
         /\ Cast(t, v) \in Int /\ InType(t, Cast(t, v))
<1> DEFINE a == v - Lowest(t)
           m == Modulus(t)
<1>1. a \in Int /\ m \in Nat \ {0}
  BY TypeFacts
<1>2. a % m \in 0..(m - 1)
  BY <1>1
<1>3. ASSUME InType(t, v) PROVE Cast(t, v) = v
  <2>1. 0 <= a /\ a < m
    BY <1>3, TypeFacts DEF InType
  <2>2. a % m = a
    BY <1>1, <2>1, ModSmall
  <2> QED BY <2>2, TypeFacts DEF Cast
<1>4. ASSUME MaxOf(t) < v, v <= MaxOf(t) + Modulus(t) PROVE Cast(t, v) = v - Modulus(t)
  <2>1. m <= a /\ a < 2 * m
    BY <1>4, TypeFacts
  <2>2. a % m = a - m
    BY <1>1, <2>1, ModOver
  <2> QED BY <2>2, TypeFacts DEF Cast
<1>5. ASSUME Lowest(t) - Modulus(t) <= v, v < Lowest(t) PROVE Cast(t, v) = v + Modulus(t)
  <2>1. -m <= a /\ a < 0
    BY <1>5, TypeFacts
  <2>2. a % m = a + m
    BY <1>1, <2>1, ModUnder
  <2> QED BY <2>2, TypeFacts DEF Cast
<1>6. Cast(t, v) \in Int /\ InType(t, Cast(t, v))
  BY <1>2, TypeFacts DEF Cast, InType
<1> QED BY <1>3, <1>4, <1>5, <1>6

\* The bit pattern of a value: a negative one reads as its value plus the size,
\* and has the high bit set.
LEMMA Pattern ==
  ASSUME NEW t \in Types, NEW x \in Int, InType(t, x)
  PROVE  LET u == MakeUnsigned(t)
         IN /\ Cast(u, x) = IF x < 0 THEN x + 2 * t.half ELSE x
            /\ Cast(u, x) \in Int /\ 0 <= Cast(u, x) /\ Cast(u, x) < 2 * t.half
            /\ t.signed => (HighBit(t, Cast(u, x)) <=> x < 0)
<1> DEFINE u == MakeUnsigned(t)
<1>1. u \in Types /\ Lowest(u) = 0 /\ MaxOf(u) = 2 * t.half - 1 /\ Modulus(u) = 2 * t.half
  BY UnsignedFacts, TypeFacts DEF Lowest, MaxOf, Modulus
<1>2. x < 0 => Lowest(u) - Modulus(u) <= x /\ x < Lowest(u)
  BY <1>1, TypeFacts DEF InType, Lowest, MaxOf
<1>3. ~(x < 0) => InType(u, x)
  BY <1>1, TypeFacts DEF InType, Lowest, MaxOf
<1>4. Cast(u, x) = IF x < 0 THEN x + 2 * t.half ELSE x
  BY <1>1, <1>2, <1>3, CastNear
<1>5. t.signed => -t.half <= x /\ x < t.half
  BY TypeFacts DEF InType, Lowest, MaxOf
<1>6. ~t.signed => 0 <= x /\ x < 2 * t.half
  BY TypeFacts DEF InType, Lowest, MaxOf
<1> QED BY <1>4, <1>5, <1>6, TypeFacts DEF HighBit

\* CheckedAddImpl compares the sign bits of a sum that may have wrapped with
\* those of the operands, or, without signs, the sum with an operand: that tells
\* exactly whether the sum fits the type, and the wrapped sum is then the sum.
THEOREM AdditionIsExact ==
  ASSUME NEW t \in Types, NEW x \in Int, NEW y \in Int, InType(t, x), InType(t, y)
  PROVE  CheckedAddImpl(t, x, y) =
           IF InType(t, x + y) THEN Succeeds(x + y) ELSE Failed
<1> DEFINE u == MakeUnsigned(t)
           ux == Cast(u, x)
           uy == Cast(u, y)
           sum == Cast(u, ux + uy)
<1>1. u \in Types /\ Lowest(u) = 0 /\ MaxOf(u) = 2 * t.half - 1 /\ Modulus(u) = 2 * t.half
  BY UnsignedFacts, TypeFacts DEF Lowest, MaxOf, Modulus
<1>2. /\ ux = (IF x < 0 THEN x + 2 * t.half ELSE x) /\ ux \in Int
      /\ 0 <= ux /\ ux < 2 * t.half
      /\ uy = (IF y < 0 THEN y + 2 * t.half ELSE y) /\ uy \in Int
      /\ 0 <= uy /\ uy < 2 * t.half
  BY Pattern
<1>3. sum = IF ux + uy < 2 * t.half THEN ux + uy ELSE ux + uy - 2 * t.half
  <2>1. ux + uy < 2 * t.half => InType(u, ux + uy)
    BY <1>1, <1>2, TypeFacts DEF InType
  <2>2. ~(ux + uy < 2 * t.half) => MaxOf(u) < ux + uy /\ ux + uy <= MaxOf(u) + Modulus(u)
    BY <1>1, <1>2, TypeFacts
  <2> DEFINE z == ux + uy
  <2>3. z \in Int
    BY <1>2
  <2> HIDE DEF z
  <2>4. /\ InType(u, z) => Cast(u, z) = z
        /\ MaxOf(u) < z /\ z <= MaxOf(u) + Modulus(u) => Cast(u, z) = z - Modulus(u)
    BY <1>1, <2>3, CastNear
  <2> QED BY <2>1, <2>2, <2>3, <2>4, <1>1, <1>2, TypeFacts DEF z
<1>4. sum \in Int /\ 0 <= sum /\ sum < 2 * t.half
  BY <1>2, <1>3, TypeFacts
<1>5. CASE t.signed
  <2>1. -t.half <= x /\ x < t.half /\ -t.half <= y /\ y < t.half
    BY <1>5, TypeFacts DEF InType, Lowest, MaxOf
  <2>2. InType(t, x + y) <=> -t.half <= x + y /\ x + y < t.half
    BY <1>5, TypeFacts DEF InType, Lowest, MaxOf
  <2>3. (HighBit(t, sum) # HighBit(t, ux) /\ HighBit(t, sum) # HighBit(t, uy))
           <=> ~InType(t, x + y)
    BY <1>2, <1>3, <2>1, <2>2, TypeFacts DEF HighBit
  <2>4. ASSUME InType(t, x + y) PROVE Cast(t, sum) = x + y
    <3>1. sum = IF x + y < 0 THEN x + y + 2 * t.half ELSE x + y
      BY <1>2, <1>3, <2>1, <2>2, <2>4, TypeFacts
    <3>2. x + y < 0 => MaxOf(t) < sum /\ sum <= MaxOf(t) + Modulus(t)
      BY <1>5, <2>2, <2>4, <3>1, TypeFacts DEF MaxOf, Modulus
    <3>3. Modulus(t) = 2 * t.half
      BY DEF Modulus
    <3> QED BY <2>4, <3>1, <3>2, <3>3, <1>4, CastNear, TypeFacts
  <2> QED BY <1>5, <2>3, <2>4 DEF CheckedAddImpl
<1>6. CASE ~t.signed
  <2>1. 0 <= x /\ x < 2 * t.half /\ 0 <= y /\ y < 2 * t.half
    BY <1>6, TypeFacts DEF InType, Lowest, MaxOf
  <2>2. InType(t, x + y) <=> x + y < 2 * t.half
    BY <1>6, <2>1, TypeFacts DEF InType, Lowest, MaxOf
  <2>3. sum < uy <=> ~InType(t, x + y)
    BY <1>2, <1>3, <2>1, <2>2, TypeFacts
  <2>4. ASSUME InType(t, x + y) PROVE Cast(t, sum) = x + y
    BY <1>2, <1>3, <2>1, <2>2, <2>4, CastNear, TypeFacts
  <2> QED BY <1>6, <2>3, <2>4 DEF CheckedAddImpl
<1> QED BY <1>5, <1>6, TypeFacts

\* CheckedSubImpl: the same of a difference.
THEOREM SubtractionIsExact ==
  ASSUME NEW t \in Types, NEW x \in Int, NEW y \in Int, InType(t, x), InType(t, y)
  PROVE  CheckedSubImpl(t, x, y) =
           IF InType(t, x - y) THEN Succeeds(x - y) ELSE Failed
<1> DEFINE u == MakeUnsigned(t)
           ux == Cast(u, x)
           uy == Cast(u, y)
           difference == Cast(u, ux - uy)
<1>1. u \in Types /\ Lowest(u) = 0 /\ MaxOf(u) = 2 * t.half - 1 /\ Modulus(u) = 2 * t.half
  BY UnsignedFacts, TypeFacts DEF Lowest, MaxOf, Modulus
<1>2. /\ ux = (IF x < 0 THEN x + 2 * t.half ELSE x) /\ ux \in Int
      /\ 0 <= ux /\ ux < 2 * t.half
      /\ uy = (IF y < 0 THEN y + 2 * t.half ELSE y) /\ uy \in Int
      /\ 0 <= uy /\ uy < 2 * t.half
  BY Pattern
<1>3. difference = IF 0 <= ux - uy THEN ux - uy ELSE ux - uy + 2 * t.half
  <2> DEFINE z == ux - uy
  <2>1. 0 <= z => InType(u, z)
    BY <1>1, <1>2, TypeFacts DEF InType
  <2>2. ~(0 <= z) => Lowest(u) - Modulus(u) <= z /\ z < Lowest(u)
    BY <1>1, <1>2, TypeFacts
  <2>3. z \in Int
    BY <1>2
  <2> HIDE DEF z
  <2>4. /\ InType(u, z) => Cast(u, z) = z
        /\ Lowest(u) - Modulus(u) <= z /\ z < Lowest(u) => Cast(u, z) = z + Modulus(u)
    BY <1>1, <2>3, CastNear
  <2> QED BY <2>1, <2>2, <2>4, <1>1 DEF z
<1>4. difference \in Int /\ 0 <= difference /\ difference < 2 * t.half
  BY <1>2, <1>3, TypeFacts
<1>5. CASE t.signed
  <2>1. -t.half <= x /\ x < t.half /\ -t.half <= y /\ y < t.half
    BY <1>5, TypeFacts DEF InType, Lowest, MaxOf
  <2>2. InType(t, x - y) <=> -t.half <= x - y /\ x - y < t.half
    BY <1>5, TypeFacts DEF InType, Lowest, MaxOf
  <2>3. (HighBit(t, difference) # HighBit(t, ux) /\ HighBit(t, ux) # HighBit(t, uy))
           <=> ~InType(t, x - y)
    BY <1>2, <1>3, <2>1, <2>2, TypeFacts DEF HighBit
  <2>4. ASSUME InType(t, x - y) PROVE Cast(t, difference) = x - y
    <3>1. difference = IF x - y < 0 THEN x - y + 2 * t.half ELSE x - y
      BY <1>2, <1>3, <2>1, <2>2, <2>4, TypeFacts
    <3>2. x - y < 0 => MaxOf(t) < difference /\ difference <= MaxOf(t) + Modulus(t)
      BY <1>5, <2>2, <2>4, <3>1, TypeFacts DEF MaxOf, Modulus
    <3>3. Modulus(t) = 2 * t.half
      BY DEF Modulus
    <3> QED BY <2>4, <3>1, <3>2, <3>3, <1>4, CastNear, TypeFacts
  <2> QED BY <1>5, <2>3, <2>4 DEF CheckedSubImpl
<1>6. CASE ~t.signed
  <2>1. 0 <= x /\ x < 2 * t.half /\ 0 <= y /\ y < 2 * t.half
    BY <1>6, TypeFacts DEF InType, Lowest, MaxOf
  <2>2. InType(t, x - y) <=> y <= x
    BY <1>6, <2>1, TypeFacts DEF InType, Lowest, MaxOf
  <2>3. x < y <=> ~InType(t, x - y)
    BY <2>2
  <2>4. ASSUME InType(t, x - y) PROVE Cast(t, difference) = x - y
    BY <1>2, <1>3, <2>1, <2>2, <2>4, CastNear, TypeFacts
  <2> QED BY <1>6, <2>3, <2>4 DEF CheckedSubImpl
<1> QED BY <1>5, <1>6, TypeFacts

\* SafeUnsignedAbs is the magnitude, for the lowest value too, whose negation does
\* not exist in its own type.
THEOREM MagnitudeIsExact ==
  ASSUME NEW t \in Types, NEW x \in Int, InType(t, x)
  PROVE  SafeUnsignedAbs(t, x) = IF x < 0 THEN -x ELSE x
<1> DEFINE u == MakeUnsigned(t)
<1>1. u \in Types /\ Lowest(u) = 0 /\ MaxOf(u) = 2 * t.half - 1 /\ Modulus(u) = 2 * t.half
  BY UnsignedFacts, TypeFacts DEF Lowest, MaxOf, Modulus
<1>2. Cast(u, x) = IF x < 0 THEN x + 2 * t.half ELSE x
  BY Pattern
<1>3. x < 0 => t.signed /\ -t.half <= x
  BY TypeFacts DEF InType, Lowest, MaxOf
<1>4. ASSUME x < 0 PROVE Cast(u, -Cast(u, x)) = -x
  <2> DEFINE z == -(x + 2 * t.half)
  <2>1. z \in Int /\ Lowest(u) - Modulus(u) <= z /\ z < Lowest(u)
    BY <1>1, <1>3, <1>4, TypeFacts
  <2> HIDE DEF z
  <2>2. Cast(u, z) = z + Modulus(u)
    BY <1>1, <2>1, CastNear
  <2> QED BY <1>1, <1>2, <1>4, <2>2, TypeFacts DEF z
<1> QED BY <1>2, <1>3, <1>4 DEF SafeUnsignedAbs, IsNegative

\* The four ranges.
LEMMA RangeFacts ==
  ASSUME NEW t \in Types
  PROVE  /\ t.signed => Lowest(t) = -t.half /\ MaxOf(t) = t.half - 1
         /\ ~t.signed => Lowest(t) = 0 /\ MaxOf(t) = 2 * t.half - 1
         /\ Modulus(t) = 2 * t.half
  BY TypeFacts DEF Lowest, MaxOf, Modulus

LEMMA CommonTypeFacts ==
  ASSUME NEW l \in Types, NEW r \in Types
  PROVE  /\ CommonType(l, r) \in Types
         /\ l.half > r.half => CommonType(l, r) = l
         /\ r.half > l.half => CommonType(l, r) = r
         /\ l.half = r.half => CommonType(l, r).half = l.half
                               /\ (CommonType(l, r).signed <=> l.signed /\ r.signed)
  BY TypeFacts DEF CommonType, Types

\* DstRangeRelationToSrcRange finds the side on which a value leaves the other
\* type, by comparing in a type in which neither side wraps.
LEMMA RangeCheckIsExact ==
  ASSUME NEW dst \in Types, NEW src \in Types, NEW v \in Int, InType(src, v)
  PROVE  /\ RangeCheck(dst, src, v) =
              [underflow |-> v < Lowest(dst), overflow |-> v > MaxOf(dst)]
         /\ RangeCheck(dst, src, v).underflow <=> v < Lowest(dst)
         /\ RangeCheck(dst, src, v).overflow <=> v > MaxOf(dst)
<1> DEFINE both == CommonType(src, dst)
<1>1. /\ dst.half \in Nat \ {0} /\ src.half \in Nat \ {0}
      /\ dst.signed \in BOOLEAN /\ src.signed \in BOOLEAN
      /\ dst.half > src.half => dst.half >= 2 * src.half
      /\ src.half > dst.half => src.half >= 2 * dst.half
  BY TypeFacts, WidthsAssumption
<1>2. both \in Types
  BY CommonTypeFacts
<1>3. RangeContains(dst, src) <=> (~dst.signed => ~src.signed) /\ MaxOf(dst) >= MaxOf(src)
  BY DEF RangeContains
<1>4. /\ Lowest(src) <= v /\ v <= MaxOf(src)
      /\ Lowest(dst) \in Int /\ MaxOf(dst) \in Int /\ Lowest(src) \in Int /\ MaxOf(src) \in Int
  BY TypeFacts DEF InType
<1>5. RangeContains(dst, src) => Lowest(dst) <= Lowest(src)
  BY <1>1, <1>3, RangeFacts
<1>6. InLowerBound(dst, src, v) <=> Lowest(dst) <= v
  <2>1. CASE src.signed /\ ~dst.signed
    BY <2>1, <1>4, RangeFacts DEF InLowerBound
  <2>2. CASE src.signed /\ dst.signed
    BY <2>2, <1>4, <1>5 DEF InLowerBound
  <2>3. CASE ~src.signed
    BY <2>3, <1>1, <1>4, RangeFacts DEF InLowerBound
  <2> QED BY <2>1, <2>2, <2>3, <1>1
<1>7. InUpperBound(dst, src, v) <=> v <= MaxOf(dst)
  <2>1. CASE RangeContains(dst, src)
    BY <2>1, <1>3, <1>4 DEF InUpperBound
  <2>2. CASE ~RangeContains(dst, src) /\ src.signed = dst.signed
    BY <2>2, <1>4 DEF InUpperBound
  <2>3. CASE ~RangeContains(dst, src) /\ ~src.signed /\ dst.signed
    <3>1. src.half >= dst.half
      BY <2>3, <1>1, <1>3, RangeFacts
    <3>2. both = src
      <4>1. both.half = src.half /\ ~both.signed
        BY <2>3, <3>1, <1>1, CommonTypeFacts
      <4> QED BY <4>1, <2>3, <1>2, TypeFacts
    <3>3. InType(src, MaxOf(dst))
      BY <2>3, <3>1, <1>1, RangeFacts DEF InType
    <3>4. Cast(both, v) = v /\ Cast(both, MaxOf(dst)) = MaxOf(dst)
      BY <3>2, <3>3, <1>4, CastNear
    <3>5. InUpperBound(dst, src, v) <=> Cast(both, v) <= Cast(both, MaxOf(dst))
      BY <2>3 DEF InUpperBound
    <3> QED BY <3>4, <3>5, <1>4
  <2>4. CASE ~RangeContains(dst, src) /\ src.signed /\ ~dst.signed
    <3>1. InUpperBound(dst, src, v) <=>
            \/ Cast(both, MaxOf(src)) <= Cast(both, MaxOf(dst))
            \/ Cast(both, v) <= Cast(both, MaxOf(dst))
      BY <2>4 DEF InUpperBound
    <3>2. CASE dst.half >= src.half
      <4>1. both = dst
        <5>1. both.half = dst.half /\ ~both.signed
          BY <2>4, <3>2, <1>1, CommonTypeFacts
        <5> QED BY <5>1, <2>4, <1>2, TypeFacts
      <4>2. InType(dst, MaxOf(src)) /\ InType(dst, MaxOf(dst))
        BY <2>4, <3>2, <1>1, RangeFacts DEF InType
      <4>3. Cast(both, MaxOf(src)) = MaxOf(src) /\ Cast(both, MaxOf(dst)) = MaxOf(dst)
        BY <4>1, <4>2, <1>4, CastNear
      <4>4. MaxOf(src) <= MaxOf(dst)
        BY <4>2, <1>4 DEF InType
      <4> QED BY <3>1, <4>3, <4>4, <1>4
    <3>3. CASE src.half > dst.half
      <4>1. both = src
        BY <3>3, CommonTypeFacts
      <4>2. InType(src, MaxOf(dst)) /\ InType(src, MaxOf(src))
        BY <2>4, <3>3, <1>1, RangeFacts DEF InType
      <4>3. /\ Cast(both, MaxOf(src)) = MaxOf(src) /\ Cast(both, MaxOf(dst)) = MaxOf(dst)
            /\ Cast(both, v) = v
        BY <4>1, <4>2, <1>4, CastNear
      <4> QED BY <3>1, <4>3, <1>4
    <3> QED BY <3>2, <3>3, <1>1
  <2> QED BY <2>1, <2>2, <2>3, <2>4, <1>1
<1>8. /\ RangeCheck(dst, src, v).underflow <=> v < Lowest(dst)
      /\ RangeCheck(dst, src, v).overflow <=> v > MaxOf(dst)
  <2>1. RangeCheck(dst, src, v).underflow = ~InLowerBound(dst, src, v)
    BY DEF RangeCheck
  <2>2. RangeCheck(dst, src, v).overflow = ~InUpperBound(dst, src, v)
    BY DEF RangeCheck
  <2>3. /\ ~InLowerBound(dst, src, v) <=> v < Lowest(dst)
        /\ ~InUpperBound(dst, src, v) <=> v > MaxOf(dst)
    BY <1>4, <1>6, <1>7
  <2> QED BY <2>1, <2>2, <2>3, Zenon
<1>9. RangeCheck(dst, src, v) =
        [underflow |-> v < Lowest(dst), overflow |-> v > MaxOf(dst)]
  BY <1>4, <1>6, <1>7 DEF RangeCheck
<1> QED BY <1>8, <1>9

\* Two values that are in the range of each other's type are in the range of the
\* type of their sum.
LEMMA CommonRange ==
  ASSUME NEW l \in Types, NEW r \in Types, NEW v \in Int, InType(l, v), InType(r, v)
  PROVE  Cast(CommonType(l, r), v) = v
<1> DEFINE sum == CommonType(l, r)
<1>1. sum \in Types
  BY CommonTypeFacts
<1>2. InType(sum, v)
  <2>1. CASE l.half # r.half
    BY <2>1, CommonTypeFacts, TypeFacts
  <2>2. CASE l.half = r.half
    <3>1. sum.half = l.half /\ (sum.signed <=> l.signed /\ r.signed)
      BY <2>2, CommonTypeFacts
    <3>2. CASE l.signed /\ r.signed
      BY <3>1, <3>2, <1>1, RangeFacts, TypeFacts DEF InType
    <3>3. CASE ~l.signed
      BY <3>1, <3>3, <1>1, RangeFacts, TypeFacts DEF InType
    <3>4. CASE ~r.signed
      BY <2>2, <3>1, <3>4, <1>1, RangeFacts, TypeFacts DEF InType
    <3> QED BY <3>2, <3>3, <3>4, TypeFacts
  <2> QED BY <2>1, <2>2
<1> QED BY <1>1, <1>2, CastNear

\* When the two range checks agree, each value fits the type of the other.
LEMMA AgreeingChecks ==
  ASSUME NEW l \in Types, NEW x \in Int, InType(l, x),
         NEW r \in Types, NEW y \in Int, InType(r, y),
         RangeCheck(r, l, x) = RangeCheck(l, r, y)
  PROVE  InType(r, x) /\ InType(l, y)
<1>1. /\ RangeCheck(r, l, x).underflow <=> x < Lowest(r)
      /\ RangeCheck(r, l, x).overflow <=> x > MaxOf(r)
      /\ RangeCheck(l, r, y).underflow <=> y < Lowest(l)
      /\ RangeCheck(l, r, y).overflow <=> y > MaxOf(l)
  BY RangeCheckIsExact
<1>2. (x < Lowest(r) <=> y < Lowest(l)) /\ (x > MaxOf(r) <=> y > MaxOf(l))
  BY <1>1
<1> QED BY <1>2, TypeFacts DEF InType

\* IsLess, IsLessOrEqual and IsEqual compare integers of any two types by value,
\* although the comparison itself is made after a conversion that can wrap.
THEOREM ComparisonIsExact ==
  ASSUME NEW l \in Types, NEW x \in Int, InType(l, x),
         NEW r \in Types, NEW y \in Int, InType(r, y)
  PROVE  /\ IsLess(l, x, r, y) <=> x < y
         /\ IsLessOrEqual(l, x, r, y) <=> x <= y
         /\ IsEqual(l, x, r, y) <=> x = y
<1> DEFINE lr == RangeCheck(r, l, x)
           rr == RangeCheck(l, r, y)
           sum == CommonType(l, r)
<1>1. /\ lr = [underflow |-> x < Lowest(r), overflow |-> x > MaxOf(r)]
      /\ rr = [underflow |-> y < Lowest(l), overflow |-> y > MaxOf(l)]
  BY RangeCheckIsExact
<1>2. /\ lr.underflow <=> x < Lowest(r)
      /\ lr.overflow <=> x > MaxOf(r)
      /\ rr.underflow <=> y < Lowest(l)
      /\ rr.overflow <=> y > MaxOf(l)
  BY RangeCheckIsExact
<1>3. lr = rr => /\ InType(r, x) /\ InType(l, y)
                 /\ Cast(sum, x) = x /\ Cast(sum, y) = y
  BY AgreeingChecks, CommonRange
<1>4. (x < Lowest(r) <=> y < Lowest(l)) /\ (x > MaxOf(r) <=> y > MaxOf(l)) => lr = rr
  BY <1>1
<1>5. /\ Lowest(l) <= x /\ x <= MaxOf(l) /\ Lowest(r) <= y /\ y <= MaxOf(r)
      /\ Lowest(l) \in Int /\ MaxOf(l) \in Int /\ Lowest(r) \in Int /\ MaxOf(r) \in Int
      /\ Lowest(l) <= MaxOf(r) /\ Lowest(r) <= MaxOf(l)
  BY TypeFacts DEF InType
<1>6. IsLess(l, x, r, y) <=>
        \/ lr.underflow /\ ~lr.overflow
        \/ rr.overflow /\ ~rr.underflow
        \/ lr = rr /\ Cast(sum, x) < Cast(sum, y)
  BY DEF IsLess, IsOrdered, Ordered
<1>7. IsLessOrEqual(l, x, r, y) <=>
        \/ lr.underflow /\ ~lr.overflow
        \/ rr.overflow /\ ~rr.underflow
        \/ lr = rr /\ Cast(sum, x) <= Cast(sum, y)
  BY DEF IsLessOrEqual, IsOrdered, Ordered
<1>8. IsEqual(l, x, r, y) <=> lr = rr /\ Cast(sum, x) = Cast(sum, y)
  BY DEF IsEqual
<1> HIDE DEF lr, rr, sum
<1>9. CASE lr = rr
  <2>1. /\ Lowest(r) <= x /\ x <= MaxOf(r) /\ Lowest(l) <= y /\ y <= MaxOf(l)
    BY <1>3, <1>9 DEF InType
  <2> QED BY <1>2, <1>3, <1>5, <1>6, <1>7, <1>8, <1>9, <2>1
<1>10. CASE lr # rr
  BY <1>2, <1>4, <1>5, <1>6, <1>7, <1>8, <1>10
<1> QED BY <1>9, <1>10

\* The least of the largest and the largest of the least values of two types.
LEMMA CommonLimits ==
  ASSUME NEW dst \in Types, NEW src \in Types
  PROVE  /\ MaxInRange(dst, src) <=> MaxOf(src) <= MaxOf(dst)
         /\ MinInRange(dst, src) <=> Lowest(dst) <= Lowest(src)
         /\ CommonMax(dst, src) = IF MaxOf(src) <= MaxOf(dst) THEN MaxOf(src) ELSE MaxOf(dst)
         /\ CommonMin(dst, src) =
              IF Lowest(dst) <= Lowest(src) THEN Lowest(src) ELSE Lowest(dst)
<1>1. \A t \in Types : /\ MaxOf(t) \in Int /\ InType(t, MaxOf(t))
                        /\ Lowest(t) \in Int /\ InType(t, Lowest(t))
  BY TypeFacts DEF InType
<1>2. IsLessOrEqual(src, MaxOf(src), dst, MaxOf(dst)) <=> MaxOf(src) <= MaxOf(dst)
  BY <1>1, ComparisonIsExact
<1>3. IsLessOrEqual(dst, Lowest(dst), src, Lowest(src)) <=> Lowest(dst) <= Lowest(src)
  BY <1>1, ComparisonIsExact
<1> QED BY <1>2, <1>3 DEF MaxInRange, MinInRange, CommonMax, CommonMin

\* IsValueInRangeForNumericType, with its fast paths: a signed value is cast to
\* the narrower type and compared with itself, or read as unsigned and compared
\* with the smaller of two limits.
THEOREM RangeIsExact ==
  ASSUME NEW dst \in Types, NEW src \in Types, NEW v \in Int, InType(src, v)
  PROVE  IsValueInRange(dst, src, v) <=> InType(dst, v)
<1> DEFINE u == MakeUnsigned(src)
           c == RangeCheck(dst, src, v)
<1>1. CASE src.signed /\ ~RangeContains(dst, src) /\ dst.signed
  <2>1. IsValueInRange(dst, src, v) <=> v = Cast(dst, v)
    BY <1>1 DEF IsValueInRange
  <2>2. InType(dst, v) => Cast(dst, v) = v
    BY CastNear
  <2>3. InType(dst, Cast(dst, v))
    BY CastNear
  <2> QED BY <2>1, <2>2, <2>3
<1>2. CASE src.signed /\ ~RangeContains(dst, src) /\ ~dst.signed
  <2> DEFINE limit == CommonMax(src, dst)
  <2>1. IsValueInRange(dst, src, v) <=> Cast(u, v) <= Cast(u, limit)
    BY <1>2 DEF IsValueInRange
  <2>2. limit = IF MaxOf(dst) <= MaxOf(src) THEN MaxOf(dst) ELSE MaxOf(src)
    BY CommonLimits
  <2>3. limit \in Int /\ 0 <= limit /\ limit <= MaxOf(src) /\ InType(src, limit)
    BY <2>2, TypeFacts DEF InType
  <2>4. Cast(u, limit) = limit /\ Cast(u, v) = IF v < 0 THEN v + 2 * src.half ELSE v
    BY <2>3, Pattern
  <2>5. v < 0 => v + 2 * src.half > MaxOf(src)
    BY <1>2, RangeFacts, TypeFacts DEF InType
  <2>6. InType(dst, v) <=> 0 <= v /\ v <= MaxOf(dst)
    BY <1>2, RangeFacts DEF InType
  <2>7. v <= MaxOf(src) /\ MaxOf(src) \in Int /\ MaxOf(dst) \in Int /\ src.half \in Nat
    BY TypeFacts DEF InType
  <2> HIDE DEF limit
  <2> QED BY <2>1, <2>2, <2>3, <2>4, <2>5, <2>6, <2>7
<1>3. CASE ~(src.signed /\ ~RangeContains(dst, src))
  <2>1. IsValueInRange(dst, src, v) <=> c = [underflow |-> FALSE, overflow |-> FALSE]
    BY <1>3 DEF IsValueInRange
  <2>2. c = [underflow |-> v < Lowest(dst), overflow |-> v > MaxOf(dst)]
    BY RangeCheckIsExact
  <2>3. (c.underflow <=> v < Lowest(dst)) /\ (c.overflow <=> v > MaxOf(dst))
    BY RangeCheckIsExact
  <2> HIDE DEF c
  <2>4. c = [underflow |-> FALSE, overflow |-> FALSE] => ~c.underflow /\ ~c.overflow
    OBVIOUS
  <2>5. ASSUME ~(v < Lowest(dst)), ~(v > MaxOf(dst))
        PROVE  c = [underflow |-> FALSE, overflow |-> FALSE]
    <3>1. (v < Lowest(dst)) = FALSE /\ (v > MaxOf(dst)) = FALSE
      BY <2>5
    <3> QED BY <2>2, <3>1, Zenon
  <2> QED BY <2>1, <2>3, <2>4, <2>5, TypeFacts DEF InType
<1> QED BY <1>1, <1>2, <1>3

\* saturated_cast yields the value of the other type that is nearest.  The limit
\* is chosen before the value is looked at; for types of which neither contains
\* the other the choice depends on the sign of the value alone.
THEOREM SaturationIsNearest ==
  ASSUME NEW dst \in Types, NEW src \in Types, NEW v \in Int, InType(src, v)
  PROVE  saturated_cast(dst, src, v) =
           IF v < Lowest(dst) THEN Lowest(dst)
           ELSE IF v > MaxOf(dst) THEN MaxOf(dst) ELSE v
<1> DEFINE is_min == MaxInRange(dst, src) \/ (~MinInRange(dst, src) /\ IsNegative(src, v))
<1>1. /\ Lowest(dst) \in Int /\ MaxOf(dst) \in Int /\ Lowest(src) \in Int /\ MaxOf(src) \in Int
      /\ Lowest(src) <= v /\ v <= MaxOf(src)
      /\ Lowest(dst) <= 0 /\ 0 <= MaxOf(dst) /\ Lowest(src) <= 0 /\ 0 <= MaxOf(src)
  BY TypeFacts DEF InType
<1>2. CASE InType(dst, v)
  <2>1. saturated_cast(dst, src, v) = v
    BY <1>2, RangeIsExact, CastNear DEF saturated_cast
  <2> QED BY <2>1, <1>1, <1>2 DEF InType
<1>3. CASE v < Lowest(dst)
  <2>1. ~IsValueInRange(dst, src, v)
    BY <1>1, <1>3, RangeIsExact DEF InType
  <2>2. IsNegative(src, v)
    BY <1>1, <1>3, RangeFacts, TypeFacts DEF IsNegative
  <2>3. ~MinInRange(dst, src) /\ CommonMin(dst, src) = Lowest(dst)
    BY <1>1, <1>3, CommonLimits
  <2>4. saturated_cast(dst, src, v) = CommonMin(dst, src)
    BY <2>1, <2>2, <2>3 DEF saturated_cast, CommonMaxOrMin
  <2> QED BY <1>3, <2>3, <2>4
<1>4. CASE v > MaxOf(dst)
  <2>1. ~IsValueInRange(dst, src, v)
    BY <1>1, <1>4, RangeIsExact DEF InType
  <2>2. ~MaxInRange(dst, src) /\ CommonMax(dst, src) = MaxOf(dst)
    BY <1>1, <1>4, CommonLimits
  <2>3. ~IsNegative(src, v)
    BY <1>1, <1>4 DEF IsNegative
  <2>4. saturated_cast(dst, src, v) = CommonMax(dst, src)
    BY <2>1, <2>2, <2>3 DEF saturated_cast, CommonMaxOrMin
  <2> QED BY <1>1, <1>4, <2>2, <2>4
<1> QED BY <1>1, <1>2, <1>3, <1>4 DEF InType

-----------------------------------------------------------------------------
(* The ring of a circular_deque: n slots, elements from b up to e          *)

\* Slot i is between begin b and end e, around the ring.
Within(b, e, i) == IF b <= e THEN b <= i /\ i < e ELSE b <= i \/ i < e
\* A buffer of n slots, of which exactly those from b up to e hold an element.
Ring(buf, n, b, e) ==
  /\ n \in Nat /\ b \in Nat /\ e \in Nat
  /\ IF n = 0 THEN b = e ELSE b < n /\ e < n
  /\ buf \in [0 .. (n - 1) -> Values \cup {Raw}]
  /\ \A i \in 0 .. (n - 1) : buf[i] # Raw <=> Within(b, e, i)

\* The number of elements of the ring.
Count(n, b, e) == IF b <= e THEN e - b ELSE n - b + e
\* The slot k places after b.
Place(n, b, k) == IF b + k < n THEN b + k ELSE b + k - n
\* The elements, from the first one on.
Elems(buf, n, b, e) == [k \in 1 .. Count(n, b, e) |-> buf[Place(n, b, k - 1)]]

\* The elements of a ring are values, and fewer than its slots: one is always
\* free.
LEMMA Places ==
  ASSUME NEW buf, NEW n, NEW b, NEW e, Ring(buf, n, b, e)
  PROVE  /\ Count(n, b, e) \in Nat
         /\ n > 0 => Count(n, b, e) <= n - 1
         /\ n = 0 => Count(n, b, e) = 0
         /\ \A k \in Nat : k < Count(n, b, e) =>
              /\ Place(n, b, k) \in 0 .. (n - 1) /\ Within(b, e, Place(n, b, k))
              /\ buf[Place(n, b, k)] \in Values
         /\ Elems(buf, n, b, e) \in Seq(Values)
         /\ Len(Elems(buf, n, b, e)) = Count(n, b, e)
<1> DEFINE c == Count(n, b, e)
<1>1. c \in Nat /\ (n > 0 => c <= n - 1) /\ (n = 0 => c = 0)
  BY DEF Ring, Count
<1>2. ASSUME NEW k \in Nat, k < c
      PROVE  Place(n, b, k) \in 0 .. (n - 1) /\ Within(b, e, Place(n, b, k))
  BY <1>2 DEF Ring, Count, Place, Within
<1>3. ASSUME NEW k \in Nat, k < c PROVE buf[Place(n, b, k)] \in Values
  BY <1>2, <1>3 DEF Ring
<1>4. Elems(buf, n, b, e) \in Seq(Values) /\ Len(Elems(buf, n, b, e)) = c
  <2>1. \A k \in 1 .. c : k - 1 \in Nat /\ k - 1 < c
    BY <1>1
  <2>2. \A k \in 1 .. c : buf[Place(n, b, k - 1)] \in Values
    BY <1>3, <2>1
  <2> HIDE DEF c
  <2>3. Elems(buf, n, b, e) = [k \in 1 .. c |-> buf[Place(n, b, k - 1)]]
    BY DEF Elems, c
  <2> QED BY <1>1, <2>2, <2>3
<1> QED BY <1>1, <1>2, <1>3, <1>4

\* An element after the last one.
LEMMA RingPushBack ==
  ASSUME NEW buf, NEW n, NEW b, NEW e, Ring(buf, n, b, e), Count(n, b, e) + 1 < n,
         NEW x \in Values,
         NEW f, f = IF e = n - 1 THEN 0 ELSE e + 1,
         NEW new, new = [buf EXCEPT ![e] = x]
  PROVE  /\ buf[e] = Raw
         /\ Ring(new, n, b, f)
         /\ Elems(new, n, b, f) = Append(Elems(buf, n, b, e), x)
<1> DEFINE c == Count(n, b, e)
<1>t. /\ n \in Nat /\ b \in Nat /\ e \in Nat /\ b < n /\ e < n /\ c \in Nat
      /\ buf \in [0 .. (n - 1) -> Values \cup {Raw}] /\ x # Raw
  BY Places, DequeAssumption DEF Ring, Count
<1>1. e \in 0 .. (n - 1) /\ ~Within(b, e, e)
  BY <1>t DEF Within
<1>2. buf[e] = Raw
  BY <1>1 DEF Ring
<1>3. f \in Nat /\ f < n /\ f # b /\ Count(n, b, f) = c + 1
  BY <1>t DEF Count
<1>4. new \in [0 .. (n - 1) -> Values \cup {Raw}] /\ new[e] = x
      /\ \A i \in 0 .. (n - 1) : i # e => new[i] = buf[i]
  BY <1>t, <1>1
<1>5. \A i \in 0 .. (n - 1) : Within(b, f, i) <=> (Within(b, e, i) \/ i = e)
  BY <1>t, <1>3 DEF Within, Count
<1>6. Ring(new, n, b, f)
  BY <1>t, <1>3, <1>4, <1>5 DEF Ring
<1>7. Place(n, b, c) = e
  BY <1>t DEF Place, Count
<1>8. ASSUME NEW k \in Nat, k < c
      PROVE  Place(n, b, k) \in 0 .. (n - 1) /\ Place(n, b, k) # e
  BY <1>1, <1>8, Places
<1>9. Elems(new, n, b, f) = Append(Elems(buf, n, b, e), x)
  <2> DEFINE s == Elems(buf, n, b, e)
             r == Elems(new, n, b, f)
  <2>1. s \in Seq(Values) /\ Len(s) = c /\ r \in Seq(Values) /\ Len(r) = c + 1
    BY <1>3, <1>6, Places
  <2>2. ASSUME NEW k \in 1 .. c PROVE r[k] = s[k]
    <3>1. k - 1 \in Nat /\ k - 1 < c /\ k \in 1 .. c + 1
      BY <1>t
    <3>2. r[k] = new[Place(n, b, k - 1)] /\ s[k] = buf[Place(n, b, k - 1)]
      BY <1>3, <3>1 DEF Elems
    <3> QED BY <1>4, <1>8, <3>1, <3>2
  <2>3. r[c + 1] = x
    <3>1. c + 1 \in 1 .. c + 1 /\ (c + 1) - 1 = c
      BY <1>t
    <3> QED BY <1>3, <1>4, <1>7, <3>1 DEF Elems
  <2> HIDE DEF s, r, c
  <2>4. Append(s, x) \in Seq(Values) /\ Len(Append(s, x)) = c + 1 /\ Append(s, x)[c + 1] = x
        /\ \A k \in 1 .. c : Append(s, x)[k] = s[k]
    BY <2>1
  <2>5. \A k \in 1 .. c + 1 : r[k] = Append(s, x)[k]
    BY <1>t, <2>2, <2>3, <2>4
  <2>6. r = Append(s, x)
    BY <2>1, <2>4, <2>5
  <2> QED BY <2>6 DEF s, r
<1> QED BY <1>2, <1>6, <1>9

\* Two sequences are equal when their elements are.
LEMMA SameElements ==
  ASSUME NEW S, NEW r \in Seq(S), NEW s \in Seq(S), Len(r) = Len(s),
         \A k \in 1 .. Len(s) : r[k] = s[k]
  PROVE  r = s
OBVIOUS

\* An element before the first one.
LEMMA RingPushFront ==
  ASSUME NEW buf, NEW n, NEW b, NEW e, Ring(buf, n, b, e), Count(n, b, e) + 1 < n,
         NEW x \in Values,
         NEW f, f = IF b = 0 THEN n - 1 ELSE b - 1,
         NEW new, new = [buf EXCEPT ![f] = x]
  PROVE  /\ buf[f] = Raw
         /\ Ring(new, n, f, e)
         /\ Elems(new, n, f, e) = <<x>> \o Elems(buf, n, b, e)
<1> DEFINE c == Count(n, b, e)
<1>t. /\ n \in Nat /\ b \in Nat /\ e \in Nat /\ b < n /\ e < n /\ c \in Nat /\ x # Raw
      /\ buf \in [0 .. (n - 1) -> Values \cup {Raw}]
  BY Places, DequeAssumption DEF Ring, Count
<1>1. f \in 0 .. (n - 1) /\ ~Within(b, e, f)
  BY <1>t DEF Within, Count
<1>2. buf[f] = Raw
  BY <1>1 DEF Ring
<1>3. f \in Nat /\ f < n /\ Count(n, f, e) = c + 1
  BY <1>t DEF Count
<1>4. /\ new \in [0 .. (n - 1) -> Values \cup {Raw}] /\ new[f] = x
      /\ \A i \in 0 .. (n - 1) : i # f => new[i] = buf[i]
  BY <1>t, <1>1
<1>5. \A i \in 0 .. (n - 1) : Within(f, e, i) <=> (Within(b, e, i) \/ i = f)
  BY <1>t DEF Within, Count
<1>7. Place(n, f, 0) = f /\ \A k \in Nat : k < c => Place(n, f, k + 1) = Place(n, b, k)
  BY <1>t DEF Place, Count
<1>6. Ring(new, n, f, e)
  BY <1>t, <1>3, <1>4, <1>5 DEF Ring
<1>8. ASSUME NEW k \in Nat, k < c
      PROVE  Place(n, b, k) \in 0 .. (n - 1) /\ Place(n, b, k) # f
  BY <1>1, <1>8, Places
<1>9. Elems(new, n, f, e) = <<x>> \o Elems(buf, n, b, e)
  <2> DEFINE s == Elems(buf, n, b, e)
             r == Elems(new, n, f, e)
  <2>1. s \in Seq(Values) /\ Len(s) = c /\ r \in Seq(Values) /\ Len(r) = c + 1
    BY <1>3, <1>6, Places
  <2>2. ASSUME NEW k \in 1 .. c PROVE r[k + 1] = s[k]
    <3>1. k - 1 \in Nat /\ k - 1 < c /\ k + 1 \in 1 .. c + 1 /\ (k + 1) - 1 = (k - 1) + 1
      BY <1>t
    <3>2. r[k + 1] = new[Place(n, f, (k + 1) - 1)] /\ s[k] = buf[Place(n, b, k - 1)]
      BY <1>3, <3>1 DEF Elems
    <3>3. Place(n, f, (k + 1) - 1) = Place(n, b, k - 1)
      BY <1>7, <3>1
    <3> QED BY <1>4, <1>8, <3>1, <3>2, <3>3
  <2>3. r[1] = x
    <3>1. 1 \in 1 .. c + 1 /\ 1 - 1 = 0
      BY <1>t
    <3> QED BY <1>3, <1>4, <1>7, <3>1 DEF Elems
  <2> HIDE DEF s, r, c
  <2>4. /\ <<x>> \o s \in Seq(Values) /\ Len(<<x>> \o s) = c + 1 /\ (<<x>> \o s)[1] = x
        /\ \A k \in 2 .. c + 1 : (<<x>> \o s)[k] = s[k - 1]
    BY <2>1
  <2>5. \A k \in 1 .. c + 1 : r[k] = (<<x>> \o s)[k]
    <3> TAKE k \in 1 .. c + 1
    <3>1. k = 1 \/ (k - 1 \in 1 .. c /\ k \in 2 .. c + 1 /\ (k - 1) + 1 = k)
      BY <1>t
    <3> QED BY <2>2, <2>3, <2>4, <3>1
  <2>6. r = <<x>> \o s
    BY <2>1, <2>4, <2>5, SameElements
  <2> QED BY <2>6 DEF s, r
<1> QED BY <1>2, <1>6, <1>9

\* The first element and the last one are destroyed.
LEMMA RingPopFront ==
  ASSUME NEW buf, NEW n, NEW b, NEW e, Ring(buf, n, b, e), Count(n, b, e) > 0,
         NEW f, f = IF b + 1 = n THEN 0 ELSE b + 1,
         NEW new, new = [buf EXCEPT ![b] = Raw]
  PROVE  /\ buf[b] # Raw
         /\ Ring(new, n, f, e)
         /\ Elems(new, n, f, e) = Tail(Elems(buf, n, b, e))
<1> DEFINE c == Count(n, b, e)
<1>t. /\ n \in Nat /\ b \in Nat /\ e \in Nat /\ b < n /\ e < n /\ c \in Nat /\ c > 0
      /\ buf \in [0 .. (n - 1) -> Values \cup {Raw}]
  BY Places DEF Ring, Count
<1>1. b \in 0 .. (n - 1) /\ Within(b, e, b)
  BY <1>t DEF Within, Count
<1>2. buf[b] # Raw
  BY <1>1 DEF Ring
<1>3. f \in Nat /\ f < n /\ Count(n, f, e) = c - 1
  BY <1>t DEF Count
<1>4. /\ new \in [0 .. (n - 1) -> Values \cup {Raw}] /\ new[b] = Raw
      /\ \A i \in 0 .. (n - 1) : i # b => new[i] = buf[i]
  BY <1>t, <1>1
<1>5. \A i \in 0 .. (n - 1) : Within(f, e, i) <=> (Within(b, e, i) /\ i # b)
  BY <1>t DEF Within, Count
<1>7. \A k \in Nat : k < c - 1 => Place(n, f, k) = Place(n, b, k + 1) /\ Place(n, f, k) # b
  BY <1>t DEF Place, Count
<1>6. Ring(new, n, f, e)
  BY <1>t, <1>3, <1>4, <1>5 DEF Ring
<1>9. Elems(new, n, f, e) = Tail(Elems(buf, n, b, e))
  <2> DEFINE s == Elems(buf, n, b, e)
             r == Elems(new, n, f, e)
  <2>1. s \in Seq(Values) /\ Len(s) = c /\ r \in Seq(Values) /\ Len(r) = c - 1
    BY <1>3, <1>6, Places
  <2>2. ASSUME NEW k \in 1 .. c - 1 PROVE r[k] = s[k + 1]
    <3>1. k - 1 \in Nat /\ k - 1 < c - 1 /\ k + 1 \in 1 .. c /\ (k + 1) - 1 = (k - 1) + 1
      BY <1>t
    <3>2. r[k] = new[Place(n, f, k - 1)] /\ s[k + 1] = buf[Place(n, b, (k + 1) - 1)]
      BY <1>3, <3>1 DEF Elems
    <3>3. Place(n, f, k - 1) = Place(n, b, (k + 1) - 1) /\ Place(n, f, k - 1) # b
      BY <1>7, <3>1
    <3>4. Place(n, f, k - 1) \in 0 .. (n - 1)
      BY <1>3, <1>6, <3>1, Places
    <3> QED BY <1>4, <3>2, <3>3, <3>4
  <2> HIDE DEF s, r, c
  <2>4. /\ Tail(s) \in Seq(Values) /\ Len(Tail(s)) = c - 1
        /\ \A k \in 1 .. c - 1 : Tail(s)[k] = s[k + 1]
    BY <1>t, <2>1
  <2>6. r = Tail(s)
    BY <2>1, <2>2, <2>4, SameElements
  <2> QED BY <2>6 DEF s, r
<1> QED BY <1>2, <1>6, <1>9

\* The last element is destroyed.
LEMMA RingPopBack ==
  ASSUME NEW buf, NEW n, NEW b, NEW e, Ring(buf, n, b, e), Count(n, b, e) > 0,
         NEW f, f = IF e = 0 THEN n - 1 ELSE e - 1,
         NEW new, new = [buf EXCEPT ![f] = Raw]
  PROVE  /\ f \in 0 .. (n - 1) /\ buf[f] # Raw
         /\ Ring(new, n, b, f)
         /\ Elems(new, n, b, f) = Front(Elems(buf, n, b, e))
<1> DEFINE c == Count(n, b, e)
<1>t. /\ n \in Nat /\ b \in Nat /\ e \in Nat /\ b < n /\ e < n /\ c \in Nat /\ c > 0
      /\ buf \in [0 .. (n - 1) -> Values \cup {Raw}]
  BY Places DEF Ring, Count
<1>1. f \in 0 .. (n - 1) /\ Within(b, e, f)
  BY <1>t DEF Within, Count
<1>2. buf[f] # Raw
  BY <1>1 DEF Ring
<1>3. f \in Nat /\ f < n /\ Count(n, b, f) = c - 1
  BY <1>t DEF Count
<1>4. /\ new \in [0 .. (n - 1) -> Values \cup {Raw}] /\ new[f] = Raw
      /\ \A i \in 0 .. (n - 1) : i # f => new[i] = buf[i]
  BY <1>t, <1>1
<1>5. \A i \in 0 .. (n - 1) : Within(b, f, i) <=> (Within(b, e, i) /\ i # f)
  BY <1>t DEF Within, Count
<1>7. \A k \in Nat : k < c - 1 => Place(n, b, k) # f
  BY <1>t DEF Place, Count
<1>6. Ring(new, n, b, f)
  BY <1>t, <1>3, <1>4, <1>5 DEF Ring
<1>9. Elems(new, n, b, f) = Front(Elems(buf, n, b, e))
  <2> DEFINE s == Elems(buf, n, b, e)
             r == Elems(new, n, b, f)
  <2>1. s \in Seq(Values) /\ Len(s) = c /\ r \in Seq(Values) /\ Len(r) = c - 1
    BY <1>3, <1>6, Places
  <2>2. ASSUME NEW k \in 1 .. c - 1 PROVE r[k] = s[k]
    <3>1. k - 1 \in Nat /\ k - 1 < c - 1 /\ k - 1 < c /\ k \in 1 .. c
      BY <1>t
    <3>2. r[k] = new[Place(n, b, k - 1)] /\ s[k] = buf[Place(n, b, k - 1)]
      BY <1>3, <3>1 DEF Elems
    <3>3. Place(n, b, k - 1) # f /\ Place(n, b, k - 1) \in 0 .. (n - 1)
      BY <1>7, <3>1, Places
    <3> QED BY <1>4, <3>2, <3>3
  <2> HIDE DEF s, r, c
  <2>4. /\ Front(s) \in Seq(Values) /\ Len(Front(s)) = c - 1
        /\ \A k \in 1 .. c - 1 : Front(s)[k] = s[k]
    <3>1. /\ SubSeq(s, 1, c - 1) \in Seq(Values) /\ Len(SubSeq(s, 1, c - 1)) = c - 1
          /\ \A k \in 1 .. c - 1 : SubSeq(s, 1, c - 1)[k] = s[k]
      BY <1>t, <2>1
    <3> QED BY <2>1, <3>1 DEF Front
  <2>6. r = Front(s)
    BY <2>1, <2>2, <2>4, SameElements
  <2> QED BY <2>6 DEF s, r
<1> QED BY <1>1, <1>2, <1>6, <1>9

\* The elements are moved to the first of m + 1 slots.
LEMMA RingMove ==
  ASSUME NEW buf, NEW n, NEW b, NEW e, Ring(buf, n, b, e),
         NEW c, c = Count(n, b, e), NEW m \in Nat, c <= m
  PROVE  LET new == [i \in 0 .. m |-> IF i < c THEN buf[Place(n, b, i)] ELSE Raw]
         IN Ring(new, m + 1, 0, c) /\ Elems(new, m + 1, 0, c) = Elems(buf, n, b, e)
<1> DEFINE new == [i \in 0 .. m |-> IF i < c THEN buf[Place(n, b, i)] ELSE Raw]
<1>t. c \in Nat
  BY Places
<1>1. \A i \in 0 .. m : i < c => buf[Place(n, b, i)] \in Values /\ buf[Place(n, b, i)] # Raw
  BY Places, DequeAssumption
<1>2. new \in [0 .. m -> Values \cup {Raw}]
  BY <1>1
<1>3. \A i \in 0 .. m : new[i] # Raw <=> i < c
  BY <1>1
<1>4. \A i \in Nat : i < c => new[i] = buf[Place(n, b, i)]
  BY <1>t
<1> HIDE DEF new
<1>5. \A i \in 0 .. m : Within(0, c, i) <=> i < c
  BY <1>t DEF Within
<1>6. (m + 1) - 1 = m /\ m + 1 \in Nat /\ m + 1 # 0 /\ c < m + 1 /\ 0 < m + 1
  BY <1>t
<1>7. Ring(new, m + 1, 0, c)
  BY <1>t, <1>2, <1>3, <1>5, <1>6 DEF Ring
<1>8. Count(m + 1, 0, c) = c /\ \A k \in Nat : k < c => Place(m + 1, 0, k) = k
  BY <1>t DEF Count, Place
<1>9. Elems(new, m + 1, 0, c) = Elems(buf, n, b, e)
  <2>1. \A k \in 1 .. c : k - 1 \in Nat /\ k - 1 < c
    BY <1>t
  <2> QED BY <1>4, <1>8, <2>1 DEF Elems
<1> QED BY <1>7, <1>9 DEF new

-----------------------------------------------------------------------------
(* A deque whose slots are exact                                           *)

\* The buffers of every size.
Buffers == UNION {[0 .. (n - 1) -> Values \cup {Raw}] : n \in Nat}
\* The states of the deque's members.
DequeType == [buf : Buffers, begin : Nat, end : Nat, touched : BOOLEAN, moved : BOOLEAN, ub : BOOLEAN]
\* The deque, when no slot was misused and its members describe a ring.
Exact(d) == d \in DequeType /\ ~d.ub /\ \E n \in Nat : Ring(d.buf, n, d.begin, d.end)

\* d member by member.
Parts(d, buf, b, e) ==
  d \in DequeType /\ ~d.ub /\ d.buf = buf /\ d.begin = b /\ d.end = e

\* An exact deque, member by member.
LEMMA PartsOfExact ==
  ASSUME NEW d, Exact(d)
  PROVE  /\ Parts(d, d.buf, d.begin, d.end)
         /\ d.begin \in Nat /\ d.end \in Nat /\ d.buf \in Buffers
BY DEF Exact, Parts, DequeType

\* A buffer of n slots is a buffer.
LEMMA BufferOf ==
  ASSUME NEW buf, NEW n \in Nat, buf \in [0 .. (n - 1) -> Values \cup {Raw}]
  PROVE  buf \in Buffers
BY DEF Buffers

\* What an assignment to some members leaves.
LEMMA AssignBegin ==
  ASSUME NEW d, NEW buf, NEW b, NEW e, Parts(d, buf, b, e), NEW f \in Nat,
         NEW r, r = [d EXCEPT !.begin = f]
  PROVE  Parts(r, buf, f, e) /\ r.touched = d.touched
BY DEF Parts, DequeType

\* The same, for the end.
LEMMA AssignEnd ==
  ASSUME NEW d, NEW buf, NEW b, NEW e, Parts(d, buf, b, e), NEW f \in Nat,
         NEW r, r = [d EXCEPT !.end = f]
  PROVE  Parts(r, buf, b, f) /\ r.touched = d.touched
BY DEF Parts, DequeType

\* The same, for both at once, as Clear does.
LEMMA AssignEnds ==
  ASSUME NEW d, NEW buf, NEW b, NEW e, Parts(d, buf, b, e),
         NEW r, r = [d EXCEPT !.begin = 0, !.end = 0]
  PROVE  Parts(r, buf, 0, 0)
<1>1. r \in DequeType /\ r.buf = d.buf /\ r.ub = d.ub
  BY DEF Parts, DequeType
<1>2. r.begin = 0 /\ r.end = 0
  BY DEF Parts, DequeType
<1> QED BY <1>1, <1>2 DEF Parts

\* The same, for the generation.
LEMMA AssignTouched ==
  ASSUME NEW d, NEW buf, NEW b, NEW e, Parts(d, buf, b, e), NEW r, r = [d EXCEPT !.touched = TRUE]
  PROVE  Parts(r, buf, b, e) /\ r.touched = TRUE
BY DEF Parts, DequeType

\* The same, for the buffer.
LEMMA AssignBuffer ==
  ASSUME NEW d, NEW buf, NEW b, NEW e, Parts(d, buf, b, e), NEW new \in Buffers, NEW r
  PROVE  /\ r = [d EXCEPT !.buf = new, !.moved = TRUE] => Parts(r, new, b, e) /\ r.touched = d.touched
         /\ r = [d EXCEPT !.buf = new, !.ub = FALSE] => Parts(r, new, b, e) /\ r.touched = d.touched
<1>1. r = [d EXCEPT !.buf = new, !.moved = TRUE] => Parts(r, new, b, e) /\ r.touched = d.touched
  BY DEF Parts, DequeType
<1>2. r = [d EXCEPT !.buf = new, !.ub = FALSE] => Parts(r, new, b, e) /\ r.touched = d.touched
  BY DEF Parts, DequeType
<1> QED BY <1>1, <1>2

\* Constructing an element in a raw slot is no misuse, and fills that slot.
LEMMA Constructed ==
  ASSUME NEW d, NEW buf, NEW b, NEW e, Parts(d, buf, b, e), NEW i, NEW x, buf[i] = Raw,
         NEW new \in Buffers, new = [buf EXCEPT ![i] = x]
  PROVE  Parts(Construct(d, i, x), new, b, e) /\ Construct(d, i, x).touched = d.touched
<1>1. [d.buf EXCEPT ![i] = x] = new /\ d.buf[i] = Raw
  BY DEF Parts
<1>2. PICK r : r = [d EXCEPT !.buf = new, !.ub = d.ub \/ d.buf[i] # Raw]
  OBVIOUS
<1>3. Parts(r, new, b, e) /\ r.touched = d.touched
  BY <1>1, <1>2 DEF Parts, DequeType
<1>4. Construct(d, i, x) = r
  BY <1>1, <1>2 DEF Construct, Parts, DequeType
<1> QED BY <1>3, <1>4

\* The capacity of the buffer is its number of slots.
LEMMA CapIs ==
  ASSUME NEW d, NEW n, Ring(d.buf, n, d.begin, d.end)
  PROVE  Cap(d) = n
<1>1. n \in Nat /\ DOMAIN d.buf = 0 .. (n - 1)
  BY DEF Ring
<1>2. Cardinality(0 .. (n - 1)) = IF 0 > n - 1 THEN 0 ELSE (n - 1) - 0 + 1
  BY <1>1, FS_Interval
<1> QED BY <1>1, <1>2 DEF Cap

\* The members of an exact deque describe a ring of its own capacity.
LEMMA ExactRing ==
  ASSUME NEW d, Exact(d)
  PROVE  Ring(d.buf, Cap(d), d.begin, d.end)
BY CapIs DEF Exact

\* The size and the contents are those of the ring.
LEMMA ContentsAre ==
  ASSUME NEW d, NEW n, Ring(d.buf, n, d.begin, d.end)
  PROVE  /\ Cap(d) = n
         /\ Size(d) = Count(n, d.begin, d.end)
         /\ Contents(d) = Elems(d.buf, n, d.begin, d.end)
         /\ Contents(d) \in Seq(Values) /\ Len(Contents(d)) = Size(d) /\ Size(d) \in Nat
         /\ Size(d) <= Capacity(d) /\ Capacity(d) \in Nat
<1> DEFINE b == d.begin
           e == d.end
           c == Count(n, b, e)
<1>1. Cap(d) = n
  BY CapIs
<1>2. Size(d) = c
  BY <1>1 DEF Size, Count
<1>3. ASSUME NEW k \in 1 .. c PROVE At(d, k - 1) = d.buf[Place(n, b, k - 1)]
  <2>1. n \in Nat /\ b \in Nat /\ e \in Nat /\ c \in Nat /\ k - 1 \in Nat /\ k - 1 < c
    <3>1. c \in Nat
      BY Places
    <3>2. n \in Nat /\ b \in Nat /\ e \in Nat
      BY DEF Ring
    <3> HIDE DEF c
    <3> QED BY <1>3, <3>1, <3>2
  <2>2. CASE b <= e \/ k - 1 < n - b
    <3>1. b + (k - 1) < n
      BY <2>1, <2>2 DEF Ring, Count
    <3> QED BY <1>1, <2>1, <2>2, <3>1 DEF At, Place
  <2>3. CASE ~(b <= e) /\ ~(k - 1 < n - b)
    <3>1. ~(b + (k - 1) < n) /\ (k - 1) - (n - b) = b + (k - 1) - n
      BY <2>1, <2>3
    <3> QED BY <1>1, <2>1, <2>3, <3>1 DEF At, Place
  <2> QED BY <2>2, <2>3
<1>4. Contents(d) = Elems(d.buf, n, b, e)
  BY <1>2, <1>3 DEF Contents, Elems
<1>5. c \in Nat /\ n \in Nat /\ (n > 0 => c <= n - 1) /\ (n = 0 => c = 0)
  <2>1. n \in Nat
    BY DEF Ring
  <2> QED BY <2>1, Places
<1>6. c <= Capacity(d) /\ Capacity(d) \in Nat
  <2> HIDE DEF c
  <2> QED BY <1>1, <1>5 DEF Capacity
<1> QED BY <1>1, <1>2, <1>4, <1>6, Places

\* A deque whose members describe a ring is exact.
LEMMA PartsExact ==
  ASSUME NEW d, NEW buf, NEW n, NEW b, NEW e, Parts(d, buf, b, e), Ring(buf, n, b, e)
  PROVE  /\ Exact(d) /\ Cap(d) = n /\ Size(d) = Count(n, b, e)
         /\ Contents(d) = Elems(buf, n, b, e)
<1>1. d.buf = buf /\ d.begin = b /\ d.end = e
  BY DEF Parts
<1>2. n \in Nat
  BY DEF Ring
<1>3. Exact(d)
  BY <1>1, <1>2 DEF Exact, Parts
<1> QED BY <1>1, <1>3, ContentsAre

\* What the run checks of the slots.
LEMMA ExactSlots ==
  ASSUME NEW d, Exact(d)
  PROVE  /\ Slots(d, d.begin, d.end) = [k \in 1 .. Size(d) |-> Place(Cap(d), d.begin, k - 1)]
         /\ {i \in DOMAIN d.buf : d.buf[i] # Raw} = ToSet(Slots(d, d.begin, d.end))
<1> DEFINE n == Cap(d)
           b == d.begin
           e == d.end
           c == Size(d)
           s == Slots(d, b, e)
<1>1. Ring(d.buf, n, b, e)
  BY ExactRing
<1>2. c = Count(n, b, e) /\ c \in Nat
  BY <1>1, ContentsAre
<1>t. n \in Nat /\ b \in Nat /\ e \in Nat /\ (n = 0 => c = 0) /\ (n > 0 => b < n /\ e < n /\ c < n)
  BY <1>1, <1>2 DEF Ring, Count
<1>3. ASSUME NEW k \in 1 .. c PROVE (b + k - 1) % n = Place(n, b, k - 1)
  <2>1. n > 0 /\ b < n /\ k <= c /\ c < n
    BY <1>t, <1>2
  <2>2. CASE b + k - 1 < n
    <3>1. (b + k - 1) % n = b + k - 1
      BY <1>t, <1>2, <2>1, <2>2
    <3> QED BY <1>t, <1>2, <2>2, <3>1 DEF Place
  <2>3. CASE ~(b + k - 1 < n)
    <3> DEFINE a == b + k - 1
    <3>1. a \in Int /\ n <= a /\ a < 2 * n /\ n \in Nat \ {0}
      BY <1>t, <1>2, <2>1, <2>3
    <3>2. a % n = a - n
      <4> HIDE DEF a, n
      <4> QED BY <3>1
    <3> QED BY <1>t, <1>2, <2>3, <3>2 DEF Place
  <2> QED BY <2>2, <2>3
<1>4. s = [k \in 1 .. c |-> Place(n, b, k - 1)]
  BY <1>2, <1>3 DEF Slots, Count
<1>5. ASSUME NEW i \in 0 .. (n - 1) PROVE Within(b, e, i) <=> \E k \in 1 .. c : Place(n, b, k - 1) = i
  <2>1. ASSUME NEW k \in 1 .. c PROVE Within(b, e, Place(n, b, k - 1))
    <3>1. k - 1 \in Nat /\ k - 1 < c
      BY <1>2
    <3> QED BY <1>1, <1>2, <3>1, Places
  <2>2. ASSUME Within(b, e, i) PROVE \E k \in 1 .. c : Place(n, b, k - 1) = i
    <3> DEFINE k == IF b <= i THEN i - b + 1 ELSE n - b + i + 1
    <3>1. k \in 1 .. c /\ Place(n, b, k - 1) = i
      <4> HIDE DEF n, b, e, c
      <4> QED BY <1>t, <1>2, <1>5, <2>2 DEF Within, Place, Count
    <3> QED BY <3>1
  <2> QED BY <2>1, <2>2
<1>6. ToSet(s) = {i \in 0 .. (n - 1) : Within(b, e, i)}
  <2>1. ToSet(s) = {s[k] : k \in 1 .. c}
    BY <1>4 DEF ToSet
  <2>2. \A k \in 1 .. c : Place(n, b, k - 1) \in 0 .. (n - 1)
    <3> TAKE k \in 1 .. c
    <3>1. k - 1 \in Nat /\ k - 1 < c
      BY <1>2
    <3> QED BY <1>1, <1>2, <3>1, Places
  <2> HIDE DEF s, c, n
  <2> QED BY <1>4, <1>5, <2>1, <2>2
<1> QED BY <1>1, <1>4, <1>6 DEF Ring

\* A new buffer: what was in the old one is in the new one, in order.
LEMMA SetCapacityExact ==
  ASSUME NEW d, Exact(d), NEW m \in Nat, Size(d) <= m
  PROVE  LET r == SetCapacityTo(d, m)
         IN /\ Exact(r) /\ Contents(r) = Contents(d) /\ Size(r) = Size(d) /\ Cap(r) = m + 1
            /\ r.touched = d.touched
<1> DEFINE n == Cap(d)
           c == Size(d)
           new == [i \in 0 .. m |-> IF i < c THEN d.buf[Place(n, d.begin, i)] ELSE Raw]
           r == SetCapacityTo(d, m)
<1>1. Ring(d.buf, n, d.begin, d.end) /\ c = Count(n, d.begin, d.end) /\ c \in Nat
      /\ Contents(d) = Elems(d.buf, n, d.begin, d.end)
  BY ExactRing, ContentsAre
<1>2. Ring(new, m + 1, 0, c) /\ Elems(new, m + 1, 0, c) = Contents(d)
  <2> HIDE DEF c, n
  <2> QED BY <1>1, RingMove DEF c
<1>3. MoveBuffer(d) = [k \in 1 .. c |-> Place(n, d.begin, k - 1)]
  BY ExactSlots DEF MoveBuffer
<1>4. Len(MoveBuffer(d)) = c
  BY <1>1, <1>3
<1>5. ASSUME NEW i \in 0 .. m, i < c PROVE MoveBuffer(d)[i + 1] = Place(n, d.begin, i)
  <2>1. i + 1 \in 1 .. c /\ (i + 1) - 1 = i
    BY <1>1, <1>5
  <2> QED BY <1>3, <2>1
<1>6. Parts(r, new, 0, c) /\ r.touched = d.touched
  <2> DEFINE buf == [i \in 0 .. m |-> IF i < Len(MoveBuffer(d)) THEN d.buf[MoveBuffer(d)[i + 1]] ELSE Raw]
  <2>1. buf = new
    BY <1>4, <1>5
  <2>2. r = [d EXCEPT !.buf = buf, !.begin = 0, !.end = c, !.moved = TRUE]
    BY <1>4 DEF SetCapacityTo
  <2>3. new \in Buffers
    <3>1. m + 1 \in Nat /\ new \in [0 .. ((m + 1) - 1) -> Values \cup {Raw}]
      BY <1>2 DEF Ring
    <3> HIDE DEF new
    <3> QED BY <3>1, BufferOf
  <2> HIDE DEF buf, new, c, r
  <2>4. d \in DequeType /\ ~d.ub
    BY DEF Exact
  <2> QED BY <1>1, <2>1, <2>2, <2>3, <2>4 DEF Parts, DequeType
<1>7. Count(m + 1, 0, c) = c
  BY <1>1 DEF Count
<1> HIDE DEF new, c, r, n
<1>8. Exact(r) /\ Cap(r) = m + 1 /\ Size(r) = c /\ Contents(r) = Contents(d) /\ r.touched = d.touched
  <2>1. /\ Exact(r) /\ Cap(r) = m + 1 /\ Size(r) = Count(m + 1, 0, c)
        /\ Contents(r) = Elems(new, m + 1, 0, c)
    BY <1>2, <1>6, PartsExact
  <2> QED BY <1>2, <1>6, <1>7, <2>1
<1> QED BY <1>8 DEF r, c

\* What the capacity is changed to always has room, for any size.
LEMMA ExpandExact ==
  ASSUME NEW d, Exact(d), NEW n \in Nat
  PROVE  LET r == ExpandCapacityIfNecessary(d, n)
         IN /\ Exact(r) /\ Contents(r) = Contents(d) /\ Size(r) = Size(d)
            /\ r.touched = d.touched
            /\ n > 0 => Size(r) + n < Cap(r)
<1> DEFINE c == Size(d)
           m == Largest(Largest(c + n, InitialCapacity), Capacity(d) + Capacity(d) \div 4)
           r == ExpandCapacityIfNecessary(d, n)
<1>1. Ring(d.buf, Cap(d), d.begin, d.end) /\ c \in Nat
  BY ExactRing, ContentsAre
<1>2. Capacity(d) \in Nat /\ Cap(d) \in Nat /\ (Cap(d) > 0 => Capacity(d) = Cap(d) - 1) /\ (Cap(d) = 0 => Capacity(d) = 0)
  BY <1>1 DEF Ring, Capacity
<1>3. m \in Nat /\ c + n <= m
  BY <1>1, <1>2, DequeAssumption DEF Largest
<1>4. CASE Capacity(d) >= c + n
  <2>1. r = d
    BY <1>4 DEF ExpandCapacityIfNecessary
  <2>2. n > 0 => c + n < Cap(d)
    BY <1>1, <1>2, <1>4
  <2> QED BY <2>1, <2>2
<1>5. CASE ~(Capacity(d) >= c + n)
  <2>1. r = SetCapacityTo(d, m)
    BY <1>5 DEF ExpandCapacityIfNecessary
  <2>2. c <= m /\ c + n < m + 1
    BY <1>1, <1>3
  <2> HIDE DEF m, r, c
  <2>3. Exact(r) /\ Contents(r) = Contents(d) /\ Size(r) = c /\ Cap(r) = m + 1 /\ r.touched = d.touched
    BY <1>3, <2>1, <2>2, SetCapacityExact DEF c
  <2> QED BY <2>2, <2>3 DEF r, c
<1> QED BY <1>4, <1>5

\* So does what it is shrunk to.
LEMMA ShrinkExact ==
  ASSUME NEW d, Exact(d)
  PROVE  LET r == ShrinkCapacityIfNecessary(d)
         IN Exact(r) /\ Contents(r) = Contents(d) /\ r.touched = d.touched
<1> DEFINE c == Size(d)
           m == Largest(InitialCapacity, c + c \div 4)
<1>1. c \in Nat
  BY ExactRing, ContentsAre
<1>2. m \in Nat /\ c <= m
  BY <1>1, DequeAssumption DEF Largest
<1> QED BY <1>2, SetCapacityExact DEF ShrinkCapacityIfNecessary

\* reserve keeps the elements.
LEMMA ReserveExact ==
  ASSUME NEW d, Exact(d), NEW n \in Nat
  PROVE  Exact(Reserve(d, n)) /\ Contents(Reserve(d, n)) = Contents(d)
<1>1. Ring(d.buf, Cap(d), d.begin, d.end) /\ Size(d) \in Nat
  BY ExactRing, ContentsAre
<1>2. Size(d) <= Capacity(d) /\ Capacity(d) \in Nat
  BY <1>1, ContentsAre
<1>3. CASE n > Capacity(d)
  BY <1>1, <1>2, <1>3, SetCapacityExact DEF Reserve
<1>4. CASE ~(n > Capacity(d))
  BY <1>4 DEF Reserve
<1> QED BY <1>3, <1>4

-----------------------------------------------------------------------------
(* Operations at the ends                                                  *)

\* emplace_back adds one element at the end.
LEMMA EmplaceBackExact ==
  ASSUME NEW d, Exact(d), NEW x \in Values
  PROVE  LET r == EmplaceBack(d, x)
         IN Exact(r) /\ Contents(r) = Append(Contents(d), x) /\ r.touched = TRUE
<1> DEFINE r == EmplaceBack(d, x)
<1>1. PICK e : e = ExpandCapacityIfNecessary(d, 1)
  OBVIOUS
<1>2. Exact(e) /\ Contents(e) = Contents(d) /\ Size(e) + 1 < Cap(e)
  BY <1>1, ExpandExact
<1> DEFINE n == Cap(e)
           f == IF e.end = n - 1 THEN 0 ELSE e.end + 1
           new == [e.buf EXCEPT ![e.end] = x]
<1>3. /\ Ring(e.buf, n, e.begin, e.end) /\ Count(n, e.begin, e.end) + 1 < n
      /\ Contents(e) = Elems(e.buf, n, e.begin, e.end)
  BY <1>2, ExactRing, ContentsAre
<1>4. /\ e.buf[e.end] = Raw /\ Ring(new, n, e.begin, f)
      /\ Elems(new, n, e.begin, f) = Append(Contents(e), x)
  <2> HIDE DEF n
  <2> QED BY <1>3, RingPushBack
<1>5. e.buf[e.end] = Raw /\ new \in Buffers /\ f \in Nat
  BY <1>4, BufferOf DEF Ring
<1>6. PICK k : k = Construct(e, e.end, x)
  OBVIOUS
<1>7. Parts(k, new, e.begin, e.end)
  BY <1>2, <1>5, <1>6, PartsOfExact, Constructed
<1>8. PICK g : g = [k EXCEPT !.end = f]
  OBVIOUS
<1>9. r = [g EXCEPT !.touched = TRUE]
  <2>1. k.end = e.end
    BY <1>7 DEF Parts
  <2> QED BY <1>1, <1>6, <1>8, <2>1 DEF EmplaceBack, IncrementGeneration
<1> HIDE DEF n, f, new, r
<1>10. Parts(g, new, e.begin, f)
  BY <1>5, <1>7, <1>8, AssignEnd
<1>11. Parts(r, new, e.begin, f) /\ r.touched = TRUE
  BY <1>5, <1>9, <1>10, AssignTouched
<1>12. Exact(r) /\ Contents(r) = Elems(new, n, e.begin, f)
  BY <1>4, <1>11, PartsExact
<1> QED BY <1>2, <1>4, <1>11, <1>12 DEF r

\* emplace_front adds one element at the front.
LEMMA EmplaceFrontExact ==
  ASSUME NEW d, Exact(d), NEW x \in Values
  PROVE  LET r == EmplaceFront(d, x)
         IN Exact(r) /\ Contents(r) = <<x>> \o Contents(d) /\ r.touched = TRUE
<1> DEFINE r == EmplaceFront(d, x)
<1>1. PICK e : e = ExpandCapacityIfNecessary(d, 1)
  OBVIOUS
<1>2. Exact(e) /\ Contents(e) = Contents(d) /\ Size(e) + 1 < Cap(e)
  BY <1>1, ExpandExact
<1> DEFINE n == Cap(e)
           f == IF e.begin = 0 THEN n - 1 ELSE e.begin - 1
           new == [e.buf EXCEPT ![f] = x]
<1>3. /\ Ring(e.buf, n, e.begin, e.end) /\ Count(n, e.begin, e.end) + 1 < n
      /\ Contents(e) = Elems(e.buf, n, e.begin, e.end)
  BY <1>2, ExactRing, ContentsAre
<1>4. /\ e.buf[f] = Raw /\ Ring(new, n, f, e.end)
      /\ Elems(new, n, f, e.end) = <<x>> \o Contents(e)
  <2> HIDE DEF n
  <2> QED BY <1>3, RingPushFront
<1>5. e.buf[f] = Raw /\ new \in Buffers /\ f \in Nat
  BY <1>4, BufferOf DEF Ring
<1>6. PICK g : g = [e EXCEPT !.begin = f]
  OBVIOUS
<1>7. PICK h : h = [g EXCEPT !.touched = TRUE]
  OBVIOUS
<1>8. r = Construct(h, f, x)
  BY <1>1, <1>6, <1>7 DEF EmplaceFront, IncrementGeneration
<1> HIDE DEF n, f, r
<1>9. Parts(g, e.buf, f, e.end)
  BY <1>2, <1>5, <1>6, PartsOfExact, AssignBegin
<1>10. Parts(h, e.buf, f, e.end) /\ h.touched = TRUE
  BY <1>5, <1>7, <1>9, AssignTouched
<1>11. Parts(r, new, f, e.end) /\ r.touched = TRUE
  BY <1>5, <1>8, <1>10, Constructed
<1> HIDE DEF new
<1>12. Exact(r) /\ Contents(r) = Elems(new, n, f, e.end)
  BY <1>4, <1>11, PartsExact
<1> QED BY <1>2, <1>4, <1>11, <1>12 DEF r

\* Destroying one element.
LEMMA DestructOne ==
  ASSUME NEW d, NEW buf, NEW n \in Nat, NEW b, NEW e, NEW i \in 0 .. (n - 1),
         Parts(d, buf, b, e), DOMAIN buf = 0 .. (n - 1), buf[i] # Raw,
         NEW new \in Buffers, new = [buf EXCEPT ![i] = Raw]
  PROVE  Parts(DestructRange(d, i, i + 1), new, b, e)
<1>1. d.buf = buf /\ d.ub = FALSE
  BY DEF Parts, DequeType
<1>2. Cap(d) = n
  <2>1. Cardinality(0 .. (n - 1)) = n
    BY FS_Interval
  <2> QED BY <1>1, <2>1 DEF Cap
<1>3. i <= i + 1 /\ (i + 1) - i = 1 /\ i + 1 - 1 = i /\ i % n = i
  <2>1. i \in Nat /\ i < n
    OBVIOUS
  <2>2. i % n = i
    BY <2>1
  <2> QED BY <2>1, <2>2
<1>4. Slots(d, i, i + 1) = [k \in 1 .. 1 |-> (i + k - 1) % n]
  BY <1>2, <1>3 DEF Slots
<1>5. ToSet(Slots(d, i, i + 1)) = {i}
  <2>1. DOMAIN Slots(d, i, i + 1) = {1} /\ Slots(d, i, i + 1)[1] = i
    BY <1>3, <1>4
  <2> QED BY <2>1 DEF ToSet
<1>6. [j \in DOMAIN d.buf |-> IF j \in {i} THEN Raw ELSE d.buf[j]] = new
  BY <1>1
<1>7. (d.ub \/ \E j \in {i} : d.buf[j] = Raw) = FALSE
  BY <1>1
<1>8. PICK q : q = [d EXCEPT !.buf = new, !.ub = FALSE]
  OBVIOUS
<1>9. DestructRange(d, i, i + 1) = q
  BY <1>5, <1>6, <1>7, <1>8 DEF DestructRange
<1>10. 0 \in Nat
  OBVIOUS
<1> QED BY <1>8, <1>9, <1>10, AssignBuffer

\* The generation changes nothing but the generation.
LEMMA GenerationExact ==
  ASSUME NEW d, Exact(d)
  PROVE  /\ Exact(IncrementGeneration(d)) /\ Contents(IncrementGeneration(d)) = Contents(d)
         /\ IncrementGeneration(d).touched = TRUE
<1>1. Ring(d.buf, Cap(d), d.begin, d.end) /\ Contents(d) = Elems(d.buf, Cap(d), d.begin, d.end)
  BY ExactRing, ContentsAre
<1>2. Parts(IncrementGeneration(d), d.buf, d.begin, d.end) /\ IncrementGeneration(d).touched = TRUE
  BY PartsOfExact, AssignTouched DEF IncrementGeneration
<1> QED BY <1>1, <1>2, PartsExact

\* pop_front destroys the first element.
LEMMA PopFrontExact ==
  ASSUME NEW d, Exact(d), Size(d) > 0
  PROVE  LET r == PopFront(d)
         IN Exact(r) /\ Contents(r) = Tail(Contents(d)) /\ r.touched = TRUE
<1> DEFINE n == Cap(d)
           b == d.begin
           f == IF b + 1 = n THEN 0 ELSE b + 1
           new == [d.buf EXCEPT ![b] = Raw]
<1>1. /\ Ring(d.buf, n, b, d.end) /\ Count(n, b, d.end) > 0
      /\ Contents(d) = Elems(d.buf, n, b, d.end)
  BY ExactRing, ContentsAre
<1>2. /\ d.buf[b] # Raw /\ Ring(new, n, f, d.end)
      /\ Elems(new, n, f, d.end) = Tail(Contents(d))
  <2> HIDE DEF n, b
  <2> QED BY <1>1, RingPopFront
<1>3. n \in Nat /\ b \in 0 .. (n - 1) /\ DOMAIN d.buf = 0 .. (n - 1)
  <2>1. n # 0
    BY <1>1, Places
  <2> QED BY <1>1, <2>1 DEF Ring
<1>4. new \in Buffers /\ f \in Nat
  BY <1>2, BufferOf DEF Ring
<1>5. PICK q : q = DestructRange(d, b, b + 1)
  OBVIOUS
<1>6. Parts(q, new, b, d.end)
  <2> HIDE DEF b, n
  <2> QED BY <1>2, <1>3, <1>4, <1>5, PartsOfExact, DestructOne DEF b
<1>7. PICK e : e = [q EXCEPT !.begin = f]
  OBVIOUS
<1>8. PopFront(d) = IncrementGeneration(ShrinkCapacityIfNecessary(e))
  <2>1. q.begin = b
    BY <1>6 DEF Parts
  <2> QED BY <1>5, <1>7, <2>1 DEF PopFront
<1> HIDE DEF new, n, f, b
<1>9. Parts(e, new, f, d.end)
  BY <1>4, <1>6, <1>7, AssignBegin
<1>10. Exact(e) /\ Contents(e) = Elems(new, n, f, d.end)
  BY <1>2, <1>9, PartsExact
<1> QED BY <1>2, <1>8, <1>10, ShrinkExact, GenerationExact

\* pop_back destroys the last element.
LEMMA PopBackExact ==
  ASSUME NEW d, Exact(d), Size(d) > 0
  PROVE  LET r == PopBack(d)
         IN Exact(r) /\ Contents(r) = Front(Contents(d)) /\ r.touched = TRUE
<1> DEFINE n == Cap(d)
           f == IF d.end = 0 THEN n - 1 ELSE d.end - 1
           new == [d.buf EXCEPT ![f] = Raw]
<1>1. /\ Ring(d.buf, n, d.begin, d.end) /\ Count(n, d.begin, d.end) > 0
      /\ Contents(d) = Elems(d.buf, n, d.begin, d.end)
  BY ExactRing, ContentsAre
<1>2. /\ f \in 0 .. (n - 1) /\ d.buf[f] # Raw /\ Ring(new, n, d.begin, f)
      /\ Elems(new, n, d.begin, f) = Front(Contents(d))
  <2> HIDE DEF n
  <2> QED BY <1>1, RingPopBack
<1>3. n \in Nat /\ DOMAIN d.buf = 0 .. (n - 1)
  BY <1>1 DEF Ring
<1>4. new \in Buffers /\ f \in Nat
  BY <1>2, BufferOf DEF Ring
<1>5. PICK q : q = [d EXCEPT !.end = f]
  OBVIOUS
<1>6. PICK e : e = DestructRange(q, f, f + 1)
  OBVIOUS
<1>7. PopBack(d) = IncrementGeneration(ShrinkCapacityIfNecessary(e))
  BY <1>5, <1>6 DEF PopBack
<1> HIDE DEF n, f
<1>8. Parts(q, d.buf, d.begin, f)
  BY <1>4, <1>5, PartsOfExact, AssignEnd
<1>9. Parts(e, new, d.begin, f)
  BY <1>2, <1>3, <1>4, <1>6, <1>8, DestructOne
<1> HIDE DEF new
<1>10. Exact(e) /\ Contents(e) = Elems(new, n, d.begin, f)
  BY <1>2, <1>9, PartsExact
<1> QED BY <1>2, <1>7, <1>10, ShrinkExact, GenerationExact

\* An empty ring, wherever it begins.
LEMMA RingEmpty ==
  ASSUME NEW n \in Nat, NEW b \in Nat, n = 0 \/ b < n, NEW buf, buf = [i \in 0 .. (n - 1) |-> Raw]
  PROVE  Ring(buf, n, b, b) /\ Elems(buf, n, b, b) = <<>>
<1>1. \A i \in 0 .. (n - 1) : ~Within(b, b, i)
  BY DEF Within
<1>2. Ring(buf, n, b, b)
  BY <1>1 DEF Ring
<1>3. Count(n, b, b) = 0
  BY DEF Count
<1> QED BY <1>2, <1>3, Places

\* clear destroys every element.
LEMMA ClearExact ==
  ASSUME NEW d, Exact(d)
  PROVE  LET r == Clear(d)
         IN Exact(r) /\ Contents(r) = <<>> /\ r.touched = TRUE
<1> DEFINE s == ToSet(Slots(d, d.begin, d.end))
           n == Cap(d)
           new == [i \in DOMAIN d.buf |-> IF i \in s THEN Raw ELSE d.buf[i]]
<1>1. \A i \in s : d.buf[i] # Raw
  BY ExactSlots
<1>2. d.ub = FALSE
  BY DEF Exact, DequeType
<1>3. PICK q : q = [d EXCEPT !.buf = new, !.ub = FALSE]
  OBVIOUS
<1>4. DestructRange(d, d.begin, d.end) = q
  <2>1. (d.ub \/ \E i \in s : d.buf[i] = Raw) = FALSE
    BY <1>1, <1>2
  <2> QED BY <1>3, <2>1 DEF DestructRange
<1>5. new \in Buffers
  <2>1. n \in Nat /\ d.buf \in [0 .. (n - 1) -> Values \cup {Raw}]
    BY ExactRing DEF Ring
  <2>2. new \in [0 .. (n - 1) -> Values \cup {Raw}]
    BY <2>1
  <2> HIDE DEF new, n
  <2> QED BY <2>1, <2>2, BufferOf
<1> HIDE DEF new, s, n
<1>6. PICK h : h = [q EXCEPT !.begin = 0, !.end = 0]
  OBVIOUS
<1>7. PICK g : g = [h EXCEPT !.touched = TRUE]
  OBVIOUS
<1>8. PICK w : w = RawBuffer(0)
  OBVIOUS
<1>r. PICK r : r = [g EXCEPT !.buf = w, !.moved = TRUE]
  OBVIOUS
<1>9. Clear(d) = r
  BY <1>4, <1>6, <1>7, <1>8, <1>r DEF Clear, NewBuffer, ClearRetainCapacity, IncrementGeneration
<1>10. Ring(w, 0, 0, 0) /\ Elems(w, 0, 0, 0) = <<>>
  BY <1>8, RingEmpty DEF RawBuffer
<1>11. w \in Buffers /\ 0 \in Nat
  BY <1>10, BufferOf DEF Ring
<1>12. Parts(q, new, d.begin, d.end)
  BY <1>3, <1>5, <1>11, PartsOfExact, AssignBuffer
<1>13. Parts(h, new, 0, 0)
  BY <1>6, <1>11, <1>12, AssignEnds
<1>14. Parts(g, new, 0, 0) /\ g.touched = TRUE
  BY <1>7, <1>11, <1>13, AssignTouched
<1>15. Parts(Clear(d), w, 0, 0) /\ Clear(d).touched = TRUE
  BY ZenonT(20), <1>9, <1>11, <1>14, <1>r, AssignBuffer
<1> QED BY <1>10, <1>15, PartsExact

\* shrink_to_fit keeps the elements.
LEMMA ShrinkToFitExact ==
  ASSUME NEW d, Exact(d)
  PROVE  Exact(ShrinkToFit(d)) /\ Contents(ShrinkToFit(d)) = Contents(d)
<1>1. /\ Ring(d.buf, Cap(d), d.begin, d.end) /\ Size(d) \in Nat
      /\ Size(d) = Count(Cap(d), d.begin, d.end) /\ Len(Contents(d)) = Size(d) /\ Contents(d) \in Seq(Values)
  BY ExactRing, ContentsAre
<1>2. CASE Size(d) > 0
  BY <1>1, <1>2, SetCapacityExact DEF ShrinkToFit
<1>3. CASE Size(d) = 0 /\ Cap(d) > 0
  <2>1. d.begin = d.end /\ d.begin \in Nat
    BY <1>1, <1>3 DEF Ring, Count
  <2>2. PICK w : w = RawBuffer(0)
    OBVIOUS
  <2>r. PICK r : r = [d EXCEPT !.buf = w, !.moved = TRUE]
    OBVIOUS
  <2>3. ShrinkToFit(d) = r
    BY <1>3, <2>2, <2>r DEF ShrinkToFit, NewBuffer
  <2>4. Ring(w, 0, d.begin, d.end) /\ Elems(w, 0, d.begin, d.end) = <<>>
    BY <2>1, <2>2, RingEmpty DEF RawBuffer
  <2>5. w \in Buffers /\ 0 \in Nat
    BY <2>4, BufferOf DEF Ring
  <2>6. Parts(ShrinkToFit(d), w, d.begin, d.end)
    BY <2>3, <2>5, <2>r, PartsOfExact, AssignBuffer
  <2>7. Contents(d) = <<>>
    BY <1>1, <1>3
  <2> QED BY <2>4, <2>6, <2>7, PartsExact
<1>4. CASE Size(d) = 0 /\ ~(Cap(d) > 0)
  BY <1>4 DEF ShrinkToFit
<1> QED BY <1>1, <1>2, <1>3, <1>4

-----------------------------------------------------------------------------
(* Induction over the natural numbers, and what a fold computes            *)

\* A set with 0 that has the successor of each of its numbers has every number:
\* from the well-foundedness of the natural numbers.
LEMMA SetInduction ==
  ASSUME NEW T, 0 \in T, \A n \in Nat : n \in T => n + 1 \in T
  PROVE  \A n \in Nat : n \in T
<1> DEFINE U == {n \in Nat : n \notin T}
           R == {p \in Nat \X Nat : p[1] < p[2]}
<1>1. SUFFICES ASSUME U # {} PROVE FALSE
  OBVIOUS
<1>2. PICK x \in U : \A y \in U : ~(<<y, x>> \in R)
  <2>1. U \subseteq Nat
    OBVIOUS
  <2>2. IsWellFoundedOn(R, Nat)
    <3>1. IsWellFoundedOn(OpToRel(<, Nat), Nat)
      BY NatLessThanWellFounded
    <3>2. OpToRel(<, Nat) = R
      BY DEF OpToRel
    <3> QED BY <3>1, <3>2
  <2> HIDE DEF R, U
  <2> QED BY <1>1, <2>1, <2>2, WFMin
<1>3. x # 0 /\ x - 1 \in Nat /\ x - 1 < x
  OBVIOUS
<1>4. <<x - 1, x>> \in R
  BY <1>3
<1>5. x - 1 \notin U
  BY <1>2, <1>4
<1> QED BY <1>3, <1>5

\* The largest element of a set is Max of it.
LEMMA MaxIs ==
  ASSUME NEW s \in SUBSET Nat, NEW m \in s, \A y \in s : m >= y
  PROVE  Max(s) = m
<1>1. Max(s) \in s /\ \A y \in s : Max(s) >= y
  BY DEF Max
<1>2. Max(s) \in Nat /\ m \in Nat /\ Max(s) >= m /\ m >= Max(s)
  BY <1>1
<1> QED BY <1>2

\* f solves the recursion that takes the largest element of a set first, up to m.
Solves(f, m, base, F) ==
  \A s \in SUBSET (1 .. m) :
    IF s = {} THEN f[s] = base
    ELSE Max(s) \in s /\ f[s] = F[<<f[s \ {Max(s)}], Max(s)>>]

\* A recursion that takes the largest element of a set first has a solution.
LEMMA FoldSolution ==
  ASSUME NEW S, NEW n \in Nat, NEW base \in S, NEW F \in [S \X (1 .. n) -> S]
  PROVE  \E f \in [SUBSET (1 .. n) -> S] : Solves(f, n, base, F)
<1> DEFINE T == {m \in Nat : m <= n => \E f \in [SUBSET (1 .. m) -> S] : Solves(f, m, base, F)}
<1>1. 0 \in T
  <2> DEFINE none == [s \in SUBSET (1 .. 0) |-> base]
  <2>1. \A s \in SUBSET (1 .. 0) : s = {} /\ none[s] = base
    OBVIOUS
  <2>2. none \in [SUBSET (1 .. 0) -> S]
    OBVIOUS
  <2>3. Solves(none, 0, base, F)
    BY <2>1 DEF Solves
  <2> QED BY <2>2, <2>3
<1>2. ASSUME NEW m \in Nat, m \in T PROVE m + 1 \in T
  <2>0. m + 1 \in Nat /\ (m <= n => \E f \in [SUBSET (1 .. m) -> S] : Solves(f, m, base, F))
    <3>1. m + 1 \in Nat
      OBVIOUS
    <3> QED BY <1>2, <3>1, Zenon
  <2>1. SUFFICES ASSUME m + 1 <= n PROVE \E f \in [SUBSET (1 .. m + 1) -> S] : Solves(f, m + 1, base, F)
    BY <2>0, Zenon
  <2>2. PICK h \in [SUBSET (1 .. m) -> S] : Solves(h, m, base, F)
    <3>1. m <= n
      BY <2>1
    <3> QED BY <2>0, <3>1
  <2> DEFINE g == [s \in SUBSET (1 .. m + 1) |->
                     IF m + 1 \in s THEN F[<<h[s \ {m + 1}], m + 1>>] ELSE h[s]]
  <2>3. \A s \in SUBSET (1 .. m + 1) : s \ {m + 1} \in SUBSET (1 .. m)
    OBVIOUS
  <2>4. \A s \in SUBSET (1 .. m + 1) : m + 1 \notin s => s \in SUBSET (1 .. m)
    OBVIOUS
  <2>5. g \in [SUBSET (1 .. m + 1) -> S]
    <3>1. m + 1 \in 1 .. n
      BY <2>1
    <3> QED BY <2>3, <2>4, <3>1
  <2>6. \A s \in SUBSET (1 .. m) : s \in SUBSET (1 .. m + 1) /\ m + 1 \notin s /\ g[s] = h[s]
    OBVIOUS
  <2>7. ASSUME NEW s \in SUBSET (1 .. m + 1)
        PROVE  IF s = {} THEN g[s] = base
               ELSE Max(s) \in s /\ g[s] = F[<<g[s \ {Max(s)}], Max(s)>>]
    <3>1. CASE m + 1 \in s
      <4>1. Max(s) = m + 1
        <5>1. s \in SUBSET Nat /\ \A y \in s : m + 1 >= y
          OBVIOUS
        <5> QED BY <3>1, <5>1, MaxIs
      <4>2. g[s \ {m + 1}] = h[s \ {m + 1}]
        BY <2>3, <2>6
      <4> QED BY <3>1, <4>1, <4>2
    <3>2. CASE m + 1 \notin s
      <4>1. s \in SUBSET (1 .. m) /\ s \ {Max(s)} \in SUBSET (1 .. m)
        BY <2>4, <3>2
      <4>2. g[s] = h[s] /\ g[s \ {Max(s)}] = h[s \ {Max(s)}]
        BY <2>6, <4>1
      <4> QED BY <2>2, <4>1, <4>2 DEF Solves
    <3> QED BY <3>1, <3>2
  <2> HIDE DEF g
  <2>8. Solves(g, m + 1, base, F)
    BY <2>7 DEF Solves
  <2> QED BY <2>5, <2>8
<1>3. n \in T
  <2> HIDE DEF T
  <2> QED BY <1>1, <1>2, SetInduction
<1>4. n <= n
  OBVIOUS
<1>5. n <= n => \E f \in [SUBSET (1 .. n) -> S] : Solves(f, n, base, F)
  BY <1>3, Zenon
<1> QED BY <1>4, <1>5

-----------------------------------------------------------------------------
(* The buffer laid out from a slot b on: offset o is slot Place(n, b, o)   *)

\* What a slot holds.
Slot == Values \cup {Raw}
\* The buffer of d has n slots, and v is what they hold, by their offset from b.
Linear(d, n, b, v) ==
  /\ n \in Nat \ {0} /\ b \in Nat /\ b < n
  /\ d \in DequeType /\ ~d.ub /\ d.buf \in [0 .. (n - 1) -> Slot]
  /\ v \in [0 .. (n - 1) -> Slot]
  /\ \A o \in 0 .. (n - 1) : d.buf[Place(n, b, o)] = v[o]
\* The members other than the buffer did not change.
SameMembers(r, d) == r.begin = d.begin /\ r.end = d.end /\ r.touched = d.touched

\* An offset has a slot, and the slot that offset.
LEMMA PlaceIn ==
  ASSUME NEW n \in Nat \ {0}, NEW b \in Nat, b < n, NEW o \in 0 .. (n - 1)
  PROVE  /\ Place(n, b, o) \in 0 .. (n - 1)
         /\ (IF b <= Place(n, b, o) THEN Place(n, b, o) - b ELSE n - b + Place(n, b, o)) = o
  BY DEF Place

\* Two offsets have two slots.
LEMMA PlaceSame ==
  ASSUME NEW n \in Nat \ {0}, NEW b \in Nat, b < n, NEW o \in 0 .. (n - 1), NEW p \in 0 .. (n - 1)
  PROVE  Place(n, b, o) = Place(n, b, p) <=> o = p
  BY DEF Place

\* Every slot has an offset.
LEMMA PlaceOnto ==
  ASSUME NEW n \in Nat \ {0}, NEW b \in Nat, b < n, NEW i \in 0 .. (n - 1)
  PROVE  \E o \in 0 .. (n - 1) : Place(n, b, o) = i
<1>1. CASE b <= i
  <2>1. i - b \in 0 .. (n - 1) /\ Place(n, b, i - b) = i
    BY <1>1 DEF Place
  <2> QED BY <2>1
<1>2. CASE ~(b <= i)
  <2>1. n - b + i \in 0 .. (n - 1) /\ Place(n, b, n - b + i) = i
    BY <1>2 DEF Place
  <2> QED BY <2>1
<1> QED BY <1>1, <1>2

\* The index computed modulo the size of the buffer is that of an offset, when
\* it is off by whole turns.
LEMMA PlaceMod ==
  ASSUME NEW n \in Nat \ {0}, NEW b \in Nat, b < n, NEW q \in 0 .. (n - 1), NEW t \in Nat,
         t = b + q \/ t = b + q - n \/ t = b + q + n
  PROVE  t % n = Place(n, b, q)
<1>1. PICK x \in 0 .. (n - 1) : x = Place(n, b, q)
  BY PlaceIn
<1>2. t = x \/ t = x + n \/ t = x + 2 * n
  BY <1>1 DEF Place
<1>3. CASE t = x
  BY <1>1, <1>3
<1>4. CASE t = x + n
  <2>1. n <= t /\ t < 2 * n
    BY <1>4
  <2>2. t % n = t - n
    BY <2>1
  <2> QED BY <1>1, <1>4, <2>2
<1>5. CASE t = x + 2 * n
  <2>1. 2 * n <= t /\ t < 3 * n
    BY <1>5
  <2>2. t % n = t - 2 * n
    BY <2>1
  <2> QED BY <1>1, <1>5, <2>2
<1> QED BY <1>2, <1>3, <1>4, <1>5

\* The buffer of an exact deque, laid out from its first element.
LEMMA LinearOf ==
  ASSUME NEW d, Exact(d), NEW n, n = Cap(d), n > 0, NEW c, c = Size(d)
  PROVE  \E v : /\ Linear(d, n, d.begin, v)
                /\ c \in 0 .. (n - 1) /\ d.end = Place(n, d.begin, c)
                /\ \A o \in 0 .. (n - 1) : v[o] # Raw <=> o < c
                /\ Contents(d) \in Seq(Values) /\ Len(Contents(d)) = c
                /\ \A k \in 1 .. c : Contents(d)[k] = v[k - 1]
<1> DEFINE b == d.begin
           v == [o \in 0 .. (n - 1) |-> d.buf[Place(n, b, o)]]
<1>1. Ring(d.buf, n, b, d.end) /\ d \in DequeType /\ ~d.ub
  BY ExactRing DEF Exact
<1>2. /\ n \in Nat \ {0} /\ b \in Nat /\ b < n /\ d.end \in Nat /\ d.end < n
      /\ d.buf \in [0 .. (n - 1) -> Slot]
  BY <1>1 DEF Ring, Slot
<1>3. \A o \in 0 .. (n - 1) : Place(n, b, o) \in 0 .. (n - 1)
  BY <1>2, PlaceIn
<1>4. v \in [0 .. (n - 1) -> Slot]
  BY <1>2, <1>3
<1>5. Linear(d, n, b, v)
  BY <1>1, <1>2, <1>4 DEF Linear
<1>6. /\ c = Count(n, b, d.end) /\ Contents(d) = Elems(d.buf, n, b, d.end)
      /\ Contents(d) \in Seq(Values) /\ Len(Contents(d)) = c
  BY <1>1, ContentsAre
<1>7. c \in 0 .. (n - 1) /\ d.end = Place(n, b, c)
  <2> HIDE DEF b
  <2> QED BY <1>2, <1>6 DEF Count, Place
<1>8. ASSUME NEW o \in 0 .. (n - 1) PROVE v[o] # Raw <=> o < c
  <2>1. v[o] # Raw <=> Within(b, d.end, Place(n, b, o))
    BY <1>1, <1>3 DEF Ring
  <2>2. Within(b, d.end, Place(n, b, o)) <=> o < c
    <3> HIDE DEF b, v
    <3>1. b \in Nat /\ d.end \in Nat /\ n \in Nat /\ o \in Nat /\ b < n /\ d.end < n /\ o < n /\ c \in Int
          /\ c = IF b <= d.end THEN d.end - b ELSE n - b + d.end
      BY <1>2, <1>6 DEF Count
    <3>2. CASE b + o < n
      <4>1. Place(n, b, o) = b + o
        BY <3>2 DEF Place
      <4> QED BY ONLY <3>1, <3>2, <4>1 DEF Within
    <3>3. CASE ~(b + o < n)
      <4>1. Place(n, b, o) = b + o - n
        BY <3>3 DEF Place
      <4> QED BY ONLY <3>1, <3>3, <4>1 DEF Within
    <3> QED BY <3>2, <3>3
  <2> QED BY <2>1, <2>2
<1>9. ASSUME NEW k \in 1 .. c PROVE Contents(d)[k] = v[k - 1]
  <2>1. k - 1 \in 0 .. (n - 1)
    BY <1>2, <1>7
  <2>2. Contents(d)[k] = d.buf[Place(n, b, k - 1)]
    BY <1>6 DEF Elems
  <2> QED BY <2>1, <2>2
<1> HIDE DEF v
<1> QED BY <1>5, <1>6, <1>7, <1>8, <1>9

\* The converse.
LEMMA LinearExact ==
  ASSUME NEW d, NEW n, NEW v, Linear(d, n, d.begin, v), NEW c \in 0 .. (n - 1),
         d.end = Place(n, d.begin, c), \A o \in 0 .. (n - 1) : v[o] # Raw <=> o < c
  PROVE  /\ Exact(d) /\ Cap(d) = n /\ Size(d) = c
         /\ Contents(d) \in Seq(Values) /\ Len(Contents(d)) = c
         /\ \A k \in 1 .. c : Contents(d)[k] = v[k - 1]
<1> DEFINE b == d.begin
<1>1. /\ n \in Nat \ {0} /\ b \in Nat /\ b < n /\ d.buf \in [0 .. (n - 1) -> Slot]
      /\ d \in DequeType /\ ~d.ub /\ \A o \in 0 .. (n - 1) : d.buf[Place(n, b, o)] = v[o]
  BY DEF Linear
<1>2. d.end \in Nat /\ d.end < n
  <2>1. Place(n, b, c) \in 0 .. (n - 1)
    <3> HIDE DEF b
    <3> QED BY <1>1, PlaceIn
  <2> QED BY <1>1, <2>1
<1>3. ASSUME NEW i \in 0 .. (n - 1) PROVE d.buf[i] # Raw <=> Within(b, d.end, i)
  <2>1. PICK o \in 0 .. (n - 1) : Place(n, b, o) = i
    <3> HIDE DEF b
    <3> QED BY <1>1, PlaceOnto
  <2>2. d.buf[i] # Raw <=> o < c
    BY <1>1, <2>1
  <2>3. Within(b, d.end, i) <=> o < c
    <3> HIDE DEF b
    <3> QED BY SMTT(20), <1>1, <1>2, <2>1 DEF Within, Place, b
  <2> QED BY <2>2, <2>3
<1>4. Ring(d.buf, n, b, d.end)
  BY <1>1, <1>2, <1>3 DEF Ring, Slot
<1>5. Exact(d)
  BY <1>1, <1>4 DEF Exact
<1>6. /\ Cap(d) = n /\ Size(d) = Count(n, b, d.end) /\ Contents(d) = Elems(d.buf, n, b, d.end)
      /\ Contents(d) \in Seq(Values) /\ Len(Contents(d)) = Size(d)
  BY <1>4, ContentsAre
<1>7. Count(n, b, d.end) = c
  <2> HIDE DEF b
  <2> QED BY <1>1, <1>2 DEF Place, Count, b
<1>8. ASSUME NEW k \in 1 .. c PROVE Contents(d)[k] = v[k - 1]
  <2>1. k - 1 \in 0 .. (n - 1)
    BY <1>1
  <2>2. Contents(d)[k] = d.buf[Place(n, b, k - 1)]
    BY <1>6, <1>7 DEF Elems
  <2> QED BY <1>1, <2>1, <2>2
<1> QED BY <1>5, <1>6, <1>7, <1>8

-----------------------------------------------------------------------------
(* Steps on the slots, by offset                                           *)

\* w is v with x at q.
Assigned(w, v, n, q, x) ==
  w \in [0 .. (n - 1) -> Slot] /\ w[q] = x /\ \A o \in 0 .. (n - 1) : o # q => w[o] = v[o]

\* An assignment to one slot is one to its offset.
LEMMA LinearAssign ==
  ASSUME NEW d, NEW n, NEW b, NEW v, Linear(d, n, b, v), NEW q \in 0 .. (n - 1), NEW x \in Slot,
         NEW r, r \in DequeType, ~r.ub, NEW i, i = Place(n, b, q), Assigned(r.buf, d.buf, n, i, x),
         NEW w, Assigned(w, v, n, q, x)
  PROVE  Linear(r, n, b, w)
<1>1. /\ n \in Nat \ {0} /\ b \in Nat /\ b < n /\ d.buf \in [0 .. (n - 1) -> Slot]
      /\ v \in [0 .. (n - 1) -> Slot] /\ \A o \in 0 .. (n - 1) : d.buf[Place(n, b, o)] = v[o]
  BY DEF Linear
<1>2. /\ Place(n, b, q) \in 0 .. (n - 1)
      /\ \A o \in 0 .. (n - 1) : Place(n, b, o) \in 0 .. (n - 1)
                                /\ (Place(n, b, o) = Place(n, b, q) <=> o = q)
  <2>1. Place(n, b, q) \in 0 .. (n - 1)
    BY <1>1, PlaceIn
  <2>2. ASSUME NEW o \in 0 .. (n - 1)
        PROVE  Place(n, b, o) \in 0 .. (n - 1) /\ (Place(n, b, o) = Place(n, b, q) <=> o = q)
    <3>1. Place(n, b, o) \in 0 .. (n - 1)
      BY <1>1, PlaceIn
    <3>2. Place(n, b, o) = Place(n, b, q) <=> o = q
      BY <1>1 DEF Place
    <3> QED BY <3>1, <3>2
  <2> QED BY <2>1, <2>2
<1>3. r.buf \in [0 .. (n - 1) -> Slot] /\ w \in [0 .. (n - 1) -> Slot]
  BY DEF Assigned
<1>4. ASSUME NEW o \in 0 .. (n - 1) PROVE r.buf[Place(n, b, o)] = w[o]
  BY <1>1, <1>2 DEF Assigned
<1> QED BY <1>1, <1>3, <1>4 DEF Linear

\* Only the buffer matters.
LEMMA LinearSame ==
  ASSUME NEW d, NEW n, NEW b, NEW v, Linear(d, n, b, v), NEW r \in DequeType, ~r.ub, r.buf = d.buf
  PROVE  Linear(r, n, b, v)
BY DEF Linear

\* Constructing an element, by offset.
LEMMA LinearConstruct ==
  ASSUME NEW d, NEW n, NEW b, NEW v, Linear(d, n, b, v), NEW q \in 0 .. (n - 1), v[q] = Raw,
         NEW x \in Values, NEW i, i = Place(n, b, q), NEW r, r = Construct(d, i, x),
         NEW w, Assigned(w, v, n, q, x)
  PROVE  Linear(r, n, b, w) /\ SameMembers(r, d)
<1>1. d \in DequeType /\ ~d.ub /\ d.buf[i] = Raw /\ x \in Slot
      /\ n \in Nat /\ d.buf \in [0 .. (n - 1) -> Slot]
  BY DEF Linear, Slot
<1>2. PICK new : new = [d.buf EXCEPT ![i] = x]
  OBVIOUS
<1>3. new \in Buffers /\ Assigned(new, d.buf, n, i, x)
  <2>1. i \in 0 .. (n - 1)
    BY PlaceIn DEF Linear
  <2>2. Assigned(new, d.buf, n, i, x)
    BY <1>1, <1>2, <2>1 DEF Assigned
  <2> QED BY <1>1, <2>2, BufferOf DEF Slot, Assigned
<1>4. r = [d EXCEPT !.buf = new, !.ub = FALSE]
  <2>1. (d.ub \/ d.buf[i] # Raw) = FALSE
    BY <1>1
  <2>2. r = [d EXCEPT !.buf = new, !.ub = d.ub \/ d.buf[i] # Raw]
    BY <1>1, <1>2 DEF Construct, DequeType
  <2> QED BY <2>1, <2>2
<1>5. r \in DequeType /\ ~r.ub /\ r.buf = new /\ SameMembers(r, d)
  BY <1>1, <1>3, <1>4 DEF DequeType, SameMembers
<1> QED BY <1>1, <1>3, <1>5, LinearAssign

\* Moving an element to a raw slot, by offset.
LEMMA LinearMove ==
  ASSUME NEW d, NEW n, NEW b, NEW v, Linear(d, n, b, v),
         NEW p \in 0 .. (n - 1), NEW q \in 0 .. (n - 1), v[p] # Raw, v[q] = Raw,
         NEW i, i = Place(n, b, p), NEW j, j = Place(n, b, q), NEW r, r = MoveSlot(d, i, j),
         NEW w, Assigned(w, v, n, q, v[p]), NEW new, Assigned(new, w, n, p, Raw)
  PROVE  Linear(r, n, b, new) /\ SameMembers(r, d)
<1>1. d.buf[i] = v[p] /\ v[p] \in Values /\ p # q /\ Raw \in Slot
  BY DEF Linear, Slot
<1>2. PICK e : e = Construct(d, j, v[p])
  OBVIOUS
<1>4. Linear(e, n, b, w) /\ SameMembers(e, d)
  BY <1>1, <1>2, LinearConstruct
<1>5. /\ e \in DequeType /\ ~e.ub /\ e.buf[i] = v[p] /\ i \in 0 .. (n - 1)
      /\ n \in Nat \ {0} /\ e.buf \in [0 .. (n - 1) -> Slot] /\ v \in [0 .. (n - 1) -> Slot]
  <2>1. w[p] = v[p]
    BY <1>1 DEF Assigned
  <2>2. i \in 0 .. (n - 1)
    BY PlaceIn DEF Linear
  <2> QED BY <1>4, <2>1, <2>2 DEF Linear
<1>6. PICK buf : buf = [e.buf EXCEPT ![i] = Raw]
  OBVIOUS
<1>7. buf \in Buffers /\ Assigned(buf, e.buf, n, i, Raw)
  <2>1. Assigned(buf, e.buf, n, i, Raw)
    BY <1>1, <1>5, <1>6 DEF Assigned
  <2> QED BY <1>5, <2>1, BufferOf DEF Slot, Assigned
<1>8. r = [e EXCEPT !.buf = buf, !.ub = FALSE]
  <2>1. (e.ub \/ d.buf[i] = Raw) = FALSE
    BY <1>1, <1>5
  <2>2. d.buf[i] = v[p]
    BY <1>1
  <2>3. r = [e EXCEPT !.buf[i] = Raw, !.ub = e.ub \/ d.buf[i] = Raw]
    BY <1>2, <2>2 DEF MoveSlot
  <2>4. r = [e EXCEPT !.buf = buf, !.ub = e.ub \/ d.buf[i] = Raw]
    BY <1>5, <1>6, <2>3 DEF DequeType
  <2> QED BY <2>1, <2>4
<1>9. r \in DequeType /\ ~r.ub /\ r.buf = buf /\ SameMembers(r, e)
  BY <1>5, <1>7, <1>8 DEF DequeType, SameMembers
<1>10. Linear(r, n, b, new)
  BY <1>1, <1>4, <1>7, <1>9, LinearAssign
<1>12. SameMembers(r, d)
  BY <1>4, <1>9 DEF SameMembers
<1> QED BY <1>10, <1>12

\* The slots between two offsets.
Along(s, n, b, p, m) == Len(s) = m /\ \A k \in 1 .. m : s[k] = Place(n, b, p + k - 1)
\* s is the set of the slots from offset p up to q.
SlotSet(n, b, p, q, s) == \A x : x \in s <=> \E o \in p .. (q - 1) : x = Place(n, b, o)
\* The slots between two places of the ring are those between their offsets.
LEMMA SlotsBetween ==
  ASSUME NEW d, NEW n, NEW b, NEW v, Linear(d, n, b, v),
         NEW p \in 0 .. (n - 1), NEW q \in 0 .. (n - 1), p <= q,
         NEW i, i = Place(n, b, p), NEW j, j = Place(n, b, q), NEW h, h = q - p
  PROVE  /\ Along(Slots(d, i, j), n, b, p, h)
         /\ SlotSet(n, b, p, q, ToSet(Slots(d, i, j)))
<1>1. n \in Nat \ {0} /\ b \in Nat /\ b < n /\ DOMAIN d.buf = 0 .. (n - 1)
  BY DEF Linear
<1>2. Cap(d) = n
  <2>1. Cardinality(0 .. (n - 1)) = n
    BY <1>1, FS_Interval
  <2> QED BY <1>1, <2>1 DEF Cap
<1>3. i \in 0 .. (n - 1) /\ j \in 0 .. (n - 1)
  BY <1>1, PlaceIn
<1>4. (IF i <= j THEN j - i ELSE n - i + j) = q - p
  BY <1>1 DEF Place
<1>5. ASSUME NEW k \in 1 .. (q - p) PROVE (i + k - 1) % n = Place(n, b, p + k - 1)
  <2>1. PICK m \in 0 .. (n - 1) : m = p + k - 1
    BY <1>1
  <2>2. PICK t \in Nat : t = i + k - 1
    BY <1>1, <1>3
  <2>3. t = b + m \/ t = b + m - n
    BY <1>1, <2>1, <2>2 DEF Place
  <2>4. t % n = Place(n, b, m)
    BY <1>1, <2>3, PlaceMod
  <2> QED BY <2>1, <2>2, <2>4
<1>6. Slots(d, i, j) = [k \in 1 .. (q - p) |-> Place(n, b, p + k - 1)]
  BY <1>2, <1>4, <1>5 DEF Slots
<1>7. Len(Slots(d, i, j)) = q - p
  BY <1>1, <1>6
<1>8. ToSet(Slots(d, i, j)) = {Place(n, b, o) : o \in p .. (q - 1)}
  <2>1. ToSet(Slots(d, i, j)) = {Place(n, b, p + k - 1) : k \in 1 .. (q - p)}
    <3>1. ToSet(Slots(d, i, j)) = {Slots(d, i, j)[k] : k \in 1 .. (q - p)}
      BY <1>6 DEF ToSet
    <3> QED BY ZenonT(20), <1>6, <3>1
  <2>2. \A k \in 1 .. (q - p) : p + k - 1 \in p .. (q - 1)
    BY <1>1
  <2>3. \A o \in p .. (q - 1) : o - p + 1 \in 1 .. (q - p) /\ p + (o - p + 1) - 1 = o
    BY <1>1
  <2> QED BY <2>1, <2>2, <2>3
<1>9. \A k \in 1 .. (q - p) : Slots(d, i, j)[k] = Place(n, b, p + k - 1)
  BY <1>6
<1>10. SlotSet(n, b, p, q, ToSet(Slots(d, i, j)))
  BY <1>8 DEF SlotSet
<1> QED BY <1>7, <1>9, <1>10 DEF Along

\* Destroying a range of elements, by offset.
LEMMA LinearDestruct ==
  ASSUME NEW d, NEW n, NEW b, NEW v, Linear(d, n, b, v),
         NEW p \in 0 .. (n - 1), NEW q \in 0 .. (n - 1), p <= q, \A o \in p .. (q - 1) : v[o] # Raw,
         NEW i, i = Place(n, b, p), NEW j, j = Place(n, b, q), NEW r, r = DestructRange(d, i, j),
         NEW w, w = [o \in 0 .. (n - 1) |-> IF p <= o /\ o < q THEN Raw ELSE v[o]]
  PROVE  Linear(r, n, b, w) /\ SameMembers(r, d)
<1>1. /\ n \in Nat \ {0} /\ b \in Nat /\ b < n /\ d.buf \in [0 .. (n - 1) -> Slot]
      /\ v \in [0 .. (n - 1) -> Slot] /\ \A o \in 0 .. (n - 1) : d.buf[Place(n, b, o)] = v[o]
      /\ d \in DequeType /\ ~d.ub /\ Raw \in Slot
  BY DEF Linear, Slot
<1>2. PICK s : s = {Place(n, b, o) : o \in p .. (q - 1)}
  OBVIOUS
<1>3. ToSet(Slots(d, i, j)) = s
  <2>1. SlotSet(n, b, p, q, ToSet(Slots(d, i, j)))
    BY SlotsBetween
  <2> QED BY <1>2, <2>1 DEF SlotSet
<1>4. \A o \in p .. (q - 1) : o \in 0 .. (n - 1)
  BY <1>1
<1>5. \A x \in s : d.buf[x] # Raw
  BY <1>1, <1>2, <1>4
<1>6. PICK new : new = [x \in DOMAIN d.buf |-> IF x \in s THEN Raw ELSE d.buf[x]]
  OBVIOUS
<1>7. new \in [0 .. (n - 1) -> Slot]
  BY <1>1, <1>6
<1>8. new \in Buffers
  BY <1>1, <1>7, BufferOf DEF Slot
<1>9. r = [d EXCEPT !.buf = new, !.ub = FALSE]
  <2>1. (d.ub \/ \E x \in s : d.buf[x] = Raw) = FALSE
    BY <1>1, <1>5
  <2> QED BY <1>3, <1>6, <2>1 DEF DestructRange
<1>10. r \in DequeType /\ ~r.ub /\ r.buf = new /\ SameMembers(r, d)
  BY <1>1, <1>8, <1>9 DEF DequeType, SameMembers
<1>11. ASSUME NEW o \in 0 .. (n - 1) PROVE new[Place(n, b, o)] = w[o]
  <2>1. Place(n, b, o) \in s <=> (p <= o /\ o < q)
    <3>1. \A m \in 0 .. (n - 1) : Place(n, b, o) = Place(n, b, m) <=> o = m
      BY <1>1, PlaceSame
    <3>2. o \in p .. (q - 1) <=> (p <= o /\ o < q)
      BY <1>1
    <3> QED BY <1>2, <1>4, <3>1, <3>2
  <2>2. Place(n, b, o) \in 0 .. (n - 1)
    BY <1>1, PlaceIn
  <2> QED BY <1>1, <1>6, <2>1, <2>2
<1>12. w \in [0 .. (n - 1) -> Slot]
  BY <1>1
<1>13. Linear(r, n, b, w)
  BY <1>1, <1>7, <1>10, <1>11, <1>12 DEF Linear
<1> QED BY <1>10, <1>13

\* The same buffer, laid out from another of its slots.
LEMMA LinearFrom ==
  ASSUME NEW d, NEW n, NEW b, NEW v, Linear(d, n, b, v), NEW q \in 0 .. (n - 1), NEW f, f = Place(n, b, q),
         NEW w, w = [o \in 0 .. (n - 1) |-> v[IF o + q < n THEN o + q ELSE o + q - n]]
  PROVE  f \in Nat /\ Linear(d, n, f, w)
<1>1. /\ n \in Nat \ {0} /\ b \in Nat /\ b < n /\ d.buf \in [0 .. (n - 1) -> Slot]
      /\ v \in [0 .. (n - 1) -> Slot] /\ \A o \in 0 .. (n - 1) : d.buf[Place(n, b, o)] = v[o]
      /\ d \in DequeType /\ ~d.ub
  BY DEF Linear
<1>2. f \in Nat /\ f < n
  BY SMTT(30), <1>1, PlaceIn
<1>3. ASSUME NEW o \in 0 .. (n - 1)
      PROVE  /\ (IF o + q < n THEN o + q ELSE o + q - n) \in 0 .. (n - 1)
             /\ Place(n, f, o) = Place(n, b, IF o + q < n THEN o + q ELSE o + q - n)
  BY <1>1, <1>2 DEF Place
<1>4. w \in [0 .. (n - 1) -> Slot]
  BY <1>1, <1>3
<1>5. ASSUME NEW o \in 0 .. (n - 1) PROVE d.buf[Place(n, f, o)] = w[o]
  BY <1>1, <1>3
<1> QED BY <1>1, <1>2, <1>4, <1>5 DEF Linear

-----------------------------------------------------------------------------
(* The loops, as sequences of states                                       *)

\* The sets 1 .. k that the folds below recurse over.
LEMMA UpTo ==
  ASSUME NEW m \in Nat
  PROVE  /\ {} \in SUBSET (1 .. m) /\ {} = 1 .. 0 /\ 0 \in 0 .. m /\ m \in 0 .. m
         /\ \A k \in 1 .. m : /\ 1 .. k \in SUBSET (1 .. m) /\ 1 .. k # {}
                             /\ (1 .. k) \ {k} = 1 .. (k - 1) /\ Max(1 .. k) = k
<1>1. ASSUME NEW k \in 1 .. m PROVE Max(1 .. k) = k
  <2>1. 1 .. k \in SUBSET Nat /\ k \in 1 .. k /\ \A y \in 1 .. k : k >= y
    OBVIOUS
  <2> QED BY <2>1, MaxIs
<1>2. ASSUME NEW k \in 1 .. m PROVE 1 .. k \in SUBSET (1 .. m) /\ 1 .. k # {} /\ (1 .. k) \ {k} = 1 .. (k - 1)
  OBVIOUS
<1> QED BY <1>1, <1>2

\* The deques whose buffer has n slots, in whatever state.
Room(n) == {x \in DequeType : x.buf \in [0 .. (n - 1) -> Slot]}

\* A step of a loop keeps the number of slots: construction.
LEMMA ConstructRoom ==
  ASSUME NEW n \in Nat, NEW d \in Room(n), NEW x \in Slot, NEW i
  PROVE  Construct(d, i, x) \in Room(n)
<1>1. PICK new : new = [d.buf EXCEPT ![i] = x]
  OBVIOUS
<1>2. d \in DequeType /\ new \in [0 .. (n - 1) -> Slot] /\ (d.ub \/ d.buf[i] # Raw) \in BOOLEAN
  BY <1>1 DEF Room
<1>3. new \in Buffers
  BY <1>2, BufferOf DEF Slot
<1>4. PICK u \in BOOLEAN : u = (d.ub \/ d.buf[i] # Raw)
  BY <1>2
<1>5. PICK r : r = [d EXCEPT !.buf = new, !.ub = u]
  OBVIOUS
<1>6. r \in DequeType /\ r.buf = new
  BY <1>2, <1>3, <1>5 DEF DequeType
<1>7. Construct(d, i, x) = r
  BY <1>1, <1>2, <1>4, <1>5 DEF Construct, DequeType
<1> QED BY <1>2, <1>6, <1>7 DEF Room

\* Assignment.
LEMMA AssignRoom ==
  ASSUME NEW n \in Nat, NEW d \in Room(n), NEW x \in Slot, NEW i
  PROVE  [d EXCEPT !.buf[i] = x] \in Room(n)
<1>1. PICK new : new = [d.buf EXCEPT ![i] = x]
  OBVIOUS
<1>2. d \in DequeType /\ new \in [0 .. (n - 1) -> Slot]
  BY <1>1 DEF Room
<1>3. new \in Buffers
  BY <1>2, BufferOf DEF Slot
<1>4. PICK r : r = [d EXCEPT !.buf = new]
  OBVIOUS
<1>5. r \in DequeType /\ r.buf = new
  BY <1>2, <1>3, <1>4 DEF DequeType
<1>6. [d EXCEPT !.buf[i] = x] = r
  BY <1>1, <1>2, <1>4 DEF DequeType
<1> QED BY <1>2, <1>5, <1>6 DEF Room

\* Moving an element.
LEMMA MoveRoom ==
  ASSUME NEW n \in Nat, NEW d \in Room(n), NEW i \in 0 .. (n - 1), NEW j
  PROVE  MoveSlot(d, i, j) \in Room(n)
<1>1. PICK e : e = Construct(d, j, d.buf[i])
  OBVIOUS
<1>2. e \in DequeType /\ e.buf \in [0 .. (n - 1) -> Slot]
  <2>1. d.buf[i] \in Slot
    BY DEF Room
  <2> QED BY <1>1, <2>1, ConstructRoom DEF Room
<1>3. PICK new : new = [e.buf EXCEPT ![i] = Raw]
  OBVIOUS
<1>4. new \in [0 .. (n - 1) -> Slot] /\ new \in Buffers
  <2>1. new \in [0 .. (n - 1) -> Slot]
    BY <1>2, <1>3 DEF Slot
  <2> QED BY <2>1, BufferOf DEF Slot
<1>5. PICK u \in BOOLEAN : u = (e.ub \/ d.buf[i] = Raw)
  BY <1>2 DEF DequeType
<1>6. PICK r : r = [e EXCEPT !.buf = new, !.ub = u]
  OBVIOUS
<1>7. r \in DequeType /\ r.buf = new
  BY <1>2, <1>4, <1>5, <1>6 DEF DequeType
<1>8. MoveSlot(d, i, j) = r
  BY <1>1, <1>2, <1>3, <1>5, <1>6 DEF MoveSlot, DequeType
<1> QED BY <1>4, <1>7, <1>8 DEF Room

\* g is the deque after each turn of the loop of EmplaceEach, from d to r.
EmplaceEachRun(g, d, m, xs, r) ==
  /\ g[0] = d /\ g[m] = r
  /\ \A k \in 1 .. m : g[k] = EmplaceBack(g[k - 1], xs[k])
\* The loop of EmplaceEach, turn by turn.
LEMMA EmplaceEachFold ==
  ASSUME NEW d, Exact(d), NEW m \in Nat, NEW xs \in [1 .. m -> Values], NEW r, r = EmplaceEach(d, xs)
  PROVE  \E g : EmplaceEachRun(g, d, m, xs, r)
<1> DEFINE S == {x \in DequeType : Exact(x)}
           seq == xs
           F == [p \in S \X (1 .. m) |-> EmplaceBack(p[1], xs[p[2]])]
<1>0. DOMAIN seq = 1 .. m
  OBVIOUS
<1>s. \A k \in 1 .. m : seq[k] = xs[k]
  OBVIOUS
<1>1. d \in S /\ \A x \in S, k \in 1 .. m : EmplaceBack(x, xs[k]) \in S
  BY EmplaceBackExact DEF Exact
<1>2. F \in [S \X (1 .. m) -> S] /\ \A x \in S, k \in 1 .. m : F[<<x, k>>] = EmplaceBack(x, xs[k])
  BY <1>1
<1>3. PICK f \in [SUBSET (1 .. m) -> S] : Solves(f, m, d, F)
  <2> HIDE DEF S, F, seq
  <2> QED BY <1>0, <1>1, <1>2, FoldSolution
<1>4. f = [s \in SUBSET DOMAIN seq |->
             IF s = {} THEN d ELSE EmplaceBack(f[s \ {Max(s)}], seq[Max(s)])]
  <2>1. ASSUME NEW s \in SUBSET (1 .. m), s # {}
        PROVE  f[s] = EmplaceBack(f[s \ {Max(s)}], seq[Max(s)])
    <3>1. Max(s) \in 1 .. m /\ f[s \ {Max(s)}] \in S /\ f[s] = F[<<f[s \ {Max(s)}], Max(s)>>]
      BY <1>3, <2>1 DEF Solves
    <3>2. f[s] = EmplaceBack(f[s \ {Max(s)}], xs[Max(s)])
      <4> HIDE DEF S, F, seq
      <4> QED BY <1>2, <3>1
    <3>3. seq[Max(s)] = xs[Max(s)]
      <4> HIDE DEF S, F, seq
      <4> QED BY <1>s, <3>1
    <3> QED BY <3>2, <3>3
  <2>2. f[{}] = d
    BY <1>3 DEF Solves
  <2> HIDE DEF S, F, seq
  <2> QED BY <1>0, <1>3, <2>1, <2>2
<1>5. PICK h : /\ EmplaceEach(d, xs) = h[1 .. m]
               /\ h = [s \in SUBSET (1 .. m) |->
                        IF s = {} THEN d ELSE EmplaceBack(h[s \ {Max(s)}], seq[Max(s)])]
  <2>1. PICK h : h = CHOOSE z : z = [s \in SUBSET DOMAIN seq |->
             IF s = {} THEN d ELSE EmplaceBack(z[s \ {Max(s)}], seq[Max(s)])]
    OBVIOUS
  <2>2. h = [s \in SUBSET DOMAIN seq |->
             IF s = {} THEN d ELSE EmplaceBack(h[s \ {Max(s)}], seq[Max(s)])]
    <3> HIDE DEF seq
    <3> QED BY <1>4, <2>1
  <2>3. EmplaceEach(d, xs) = h[DOMAIN seq]
    BY <2>1 DEF EmplaceEach, FoldLeft, MapThenFoldSet
  <2> HIDE DEF seq
  <2> QED BY <1>0, <2>2, <2>3
<1> HIDE DEF seq, F, S
<1>6. h[{}] = d /\ {} = 1 .. 0
  <2>1. {} \in SUBSET (1 .. m) /\ {} = 1 .. 0
    BY UpTo
  <2> QED BY <1>5, <2>1
<1>7. ASSUME NEW k \in 1 .. m PROVE h[1 .. k] = EmplaceBack(h[1 .. (k - 1)], xs[k])
  <2>1. 1 .. k \in SUBSET (1 .. m) /\ 1 .. k # {} /\ (1 .. k) \ {k} = 1 .. (k - 1)
    BY UpTo
  <2>2. Max(1 .. k) = k
    BY UpTo
  <2>3. seq[k] = xs[k]
    BY <1>s
  <2>4. h[1 .. k] = EmplaceBack(h[1 .. (k - 1)], seq[k])
    BY <1>5, <2>1, <2>2
  <2> QED BY <2>3, <2>4
<1> DEFINE g == [k \in 0 .. m |-> h[1 .. k]]
<1>8. g[0] = d /\ g[m] = EmplaceEach(d, xs)
  <2>1. 0 \in 0 .. m /\ m \in 0 .. m
    BY UpTo
  <2> QED BY <1>5, <1>6, <2>1
<1>9. ASSUME NEW k \in 1 .. m PROVE g[k] = EmplaceBack(g[k - 1], xs[k])
  <2>1. k \in 0 .. m /\ k - 1 \in 0 .. m
    OBVIOUS
  <2> QED BY <1>7, <2>1
<1> HIDE DEF g
<1>10. EmplaceEachRun(g, d, m, xs, r)
  BY <1>8, <1>9 DEF EmplaceEachRun
<1> QED BY <1>10

\* The same, for EmplaceEachFront.
EmplaceEachFrontRun(g, d, m, xs, r) ==
  /\ g[0] = d /\ g[m] = r
  /\ \A k \in 1 .. m : g[k] = EmplaceFront(g[k - 1], xs[k])
\* The loop of EmplaceEachFront, turn by turn.
LEMMA EmplaceEachFrontFold ==
  ASSUME NEW d, Exact(d), NEW m \in Nat, NEW xs \in [1 .. m -> Values], NEW r, r = EmplaceEachFront(d, xs)
  PROVE  \E g : EmplaceEachFrontRun(g, d, m, xs, r)
<1> DEFINE S == {x \in DequeType : Exact(x)}
           seq == xs
           F == [p \in S \X (1 .. m) |-> EmplaceFront(p[1], xs[p[2]])]
<1>0. DOMAIN seq = 1 .. m
  OBVIOUS
<1>s. \A k \in 1 .. m : seq[k] = xs[k]
  OBVIOUS
<1>1. d \in S /\ \A x \in S, k \in 1 .. m : EmplaceFront(x, xs[k]) \in S
  BY EmplaceFrontExact DEF Exact
<1>2. F \in [S \X (1 .. m) -> S] /\ \A x \in S, k \in 1 .. m : F[<<x, k>>] = EmplaceFront(x, xs[k])
  BY <1>1
<1>3. PICK f \in [SUBSET (1 .. m) -> S] : Solves(f, m, d, F)
  <2> HIDE DEF S, F, seq
  <2> QED BY <1>0, <1>1, <1>2, FoldSolution
<1>4. f = [s \in SUBSET DOMAIN seq |->
             IF s = {} THEN d ELSE EmplaceFront(f[s \ {Max(s)}], seq[Max(s)])]
  <2>1. ASSUME NEW s \in SUBSET (1 .. m), s # {}
        PROVE  f[s] = EmplaceFront(f[s \ {Max(s)}], seq[Max(s)])
    <3>1. Max(s) \in 1 .. m /\ f[s \ {Max(s)}] \in S /\ f[s] = F[<<f[s \ {Max(s)}], Max(s)>>]
      BY <1>3, <2>1 DEF Solves
    <3>2. f[s] = EmplaceFront(f[s \ {Max(s)}], xs[Max(s)])
      <4> HIDE DEF S, F, seq
      <4> QED BY <1>2, <3>1
    <3>3. seq[Max(s)] = xs[Max(s)]
      <4> HIDE DEF S, F, seq
      <4> QED BY <1>s, <3>1
    <3> QED BY <3>2, <3>3
  <2>2. f[{}] = d
    BY <1>3 DEF Solves
  <2> HIDE DEF S, F, seq
  <2> QED BY <1>0, <1>3, <2>1, <2>2
<1>5. PICK h : /\ EmplaceEachFront(d, xs) = h[1 .. m]
               /\ h = [s \in SUBSET (1 .. m) |->
                        IF s = {} THEN d ELSE EmplaceFront(h[s \ {Max(s)}], seq[Max(s)])]
  <2>1. PICK h : h = CHOOSE z : z = [s \in SUBSET DOMAIN seq |->
             IF s = {} THEN d ELSE EmplaceFront(z[s \ {Max(s)}], seq[Max(s)])]
    OBVIOUS
  <2>2. h = [s \in SUBSET DOMAIN seq |->
             IF s = {} THEN d ELSE EmplaceFront(h[s \ {Max(s)}], seq[Max(s)])]
    <3> HIDE DEF seq
    <3> QED BY <1>4, <2>1
  <2>3. EmplaceEachFront(d, xs) = h[DOMAIN seq]
    BY <2>1 DEF EmplaceEachFront, FoldLeft, MapThenFoldSet
  <2> HIDE DEF seq
  <2> QED BY <1>0, <2>2, <2>3
<1> HIDE DEF seq, F, S
<1>6. h[{}] = d /\ {} = 1 .. 0
  <2>1. {} \in SUBSET (1 .. m) /\ {} = 1 .. 0
    BY UpTo
  <2> QED BY <1>5, <2>1
<1>7. ASSUME NEW k \in 1 .. m PROVE h[1 .. k] = EmplaceFront(h[1 .. (k - 1)], xs[k])
  <2>1. 1 .. k \in SUBSET (1 .. m) /\ 1 .. k # {} /\ (1 .. k) \ {k} = 1 .. (k - 1)
    BY UpTo
  <2>2. Max(1 .. k) = k
    BY UpTo
  <2>3. seq[k] = xs[k]
    BY <1>s
  <2>4. h[1 .. k] = EmplaceFront(h[1 .. (k - 1)], seq[k])
    BY <1>5, <2>1, <2>2
  <2> QED BY <2>3, <2>4
<1> DEFINE g == [k \in 0 .. m |-> h[1 .. k]]
<1>8. g[0] = d /\ g[m] = EmplaceEachFront(d, xs)
  <2>1. 0 \in 0 .. m /\ m \in 0 .. m
    BY UpTo
  <2> QED BY <1>5, <1>6, <2>1
<1>9. ASSUME NEW k \in 1 .. m PROVE g[k] = EmplaceFront(g[k - 1], xs[k])
  <2>1. k \in 0 .. m /\ k - 1 \in 0 .. m
    OBVIOUS
  <2> QED BY <1>7, <2>1
<1> HIDE DEF g
<1>10. EmplaceEachFrontRun(g, d, m, xs, r)
  BY <1>8, <1>9 DEF EmplaceEachFrontRun
<1> QED BY <1>10

\* The same, for ConstructAll.
ConstructAllRun(g, d, i, m, xs, r) ==
  /\ g[0] = d /\ g[m] = r
  /\ \A k \in 1 .. m : g[k] = Construct(g[k - 1], (i + k - 1) % Cap(d), xs[k])
\* The loop of ConstructAll, turn by turn.
LEMMA ConstructAllFold ==
  ASSUME NEW n \in Nat, NEW d \in Room(n), NEW i, NEW m \in Nat, NEW xs \in [1 .. m -> Values], NEW r, r = ConstructAll(d, i, xs)
  PROVE  \E g : ConstructAllRun(g, d, i, m, xs, r)
<1> DEFINE S == Room(n)
           seq == [k \in 1 .. Len(xs) |-> k]
           F == [p \in S \X (1 .. m) |-> Construct(p[1], (i + p[2] - 1) % Cap(d), xs[p[2]])]
<1>0. DOMAIN seq = 1 .. m
  <2>1. Len(xs) = m
    OBVIOUS
  <2> QED BY <2>1
<1>s. \A k \in 1 .. m : seq[k] = k
  BY <1>0
<1>1. d \in S /\ \A x \in S, k \in 1 .. m : Construct(x, (i + k - 1) % Cap(d), xs[k]) \in S
  BY ConstructRoom DEF Slot
<1>2. F \in [S \X (1 .. m) -> S] /\ \A x \in S, k \in 1 .. m : F[<<x, k>>] = Construct(x, (i + k - 1) % Cap(d), xs[k])
  BY <1>1
<1>3. PICK f \in [SUBSET (1 .. m) -> S] : Solves(f, m, d, F)
  <2> HIDE DEF S, F, seq
  <2> QED BY <1>0, <1>1, <1>2, FoldSolution
<1>4. f = [s \in SUBSET DOMAIN seq |->
             IF s = {} THEN d ELSE Construct(f[s \ {Max(s)}], (i + seq[Max(s)] - 1) % Cap(d), xs[seq[Max(s)]])]
  <2>1. ASSUME NEW s \in SUBSET (1 .. m), s # {}
        PROVE  f[s] = Construct(f[s \ {Max(s)}], (i + seq[Max(s)] - 1) % Cap(d), xs[seq[Max(s)]])
    <3>1. Max(s) \in 1 .. m /\ f[s \ {Max(s)}] \in S /\ f[s] = F[<<f[s \ {Max(s)}], Max(s)>>]
      BY <1>3, <2>1 DEF Solves
    <3>2. f[s] = Construct(f[s \ {Max(s)}], (i + Max(s) - 1) % Cap(d), xs[Max(s)])
      <4> HIDE DEF S, F, seq
      <4> QED BY <1>2, <3>1
    <3>3. seq[Max(s)] = Max(s)
      <4> HIDE DEF S, F, seq
      <4> QED BY <1>s, <3>1
    <3> QED BY <3>2, <3>3
  <2>2. f[{}] = d
    BY <1>3 DEF Solves
  <2> HIDE DEF S, F, seq
  <2> QED BY <1>0, <1>3, <2>1, <2>2
<1>5. PICK h : /\ ConstructAll(d, i, xs) = h[1 .. m]
               /\ h = [s \in SUBSET (1 .. m) |->
                        IF s = {} THEN d ELSE Construct(h[s \ {Max(s)}], (i + seq[Max(s)] - 1) % Cap(d), xs[seq[Max(s)]])]
  <2>1. PICK h : h = CHOOSE z : z = [s \in SUBSET DOMAIN seq |->
             IF s = {} THEN d ELSE Construct(z[s \ {Max(s)}], (i + seq[Max(s)] - 1) % Cap(d), xs[seq[Max(s)]])]
    OBVIOUS
  <2>2. h = [s \in SUBSET DOMAIN seq |->
             IF s = {} THEN d ELSE Construct(h[s \ {Max(s)}], (i + seq[Max(s)] - 1) % Cap(d), xs[seq[Max(s)]])]
    <3> HIDE DEF seq
    <3> QED BY <1>4, <2>1
  <2>3. ConstructAll(d, i, xs) = h[DOMAIN seq]
    BY <2>1 DEF ConstructAll, FoldLeft, MapThenFoldSet
  <2> HIDE DEF seq
  <2> QED BY <1>0, <2>2, <2>3
<1> HIDE DEF seq, F, S
<1>6. h[{}] = d /\ {} = 1 .. 0
  <2>1. {} \in SUBSET (1 .. m) /\ {} = 1 .. 0
    BY UpTo
  <2> QED BY <1>5, <2>1
<1>7. ASSUME NEW k \in 1 .. m PROVE h[1 .. k] = Construct(h[1 .. (k - 1)], (i + k - 1) % Cap(d), xs[k])
  <2>1. 1 .. k \in SUBSET (1 .. m) /\ 1 .. k # {} /\ (1 .. k) \ {k} = 1 .. (k - 1)
    BY UpTo
  <2>2. Max(1 .. k) = k
    BY UpTo
  <2>3. seq[k] = k
    BY <1>s
  <2>4. h[1 .. k] = Construct(h[1 .. (k - 1)], (i + seq[k] - 1) % Cap(d), xs[seq[k]])
    BY <1>5, <2>1, <2>2
  <2> QED BY <2>3, <2>4
<1> DEFINE g == [k \in 0 .. m |-> h[1 .. k]]
<1>8. g[0] = d /\ g[m] = ConstructAll(d, i, xs)
  <2>1. 0 \in 0 .. m /\ m \in 0 .. m
    BY UpTo
  <2> QED BY <1>5, <1>6, <2>1
<1>9. ASSUME NEW k \in 1 .. m PROVE g[k] = Construct(g[k - 1], (i + k - 1) % Cap(d), xs[k])
  <2>1. k \in 0 .. m /\ k - 1 \in 0 .. m
    OBVIOUS
  <2> QED BY <1>7, <2>1
<1> HIDE DEF g
<1>10. ConstructAllRun(g, d, i, m, xs, r)
  BY <1>8, <1>9 DEF ConstructAllRun
<1> QED BY <1>10

\* The same, for MoveEach.
MoveEachRun(g, d, m, src, dest, r) ==
  /\ g[0] = d /\ g[m] = r
  /\ \A k \in 1 .. m : g[k] = MoveSlot(g[k - 1], src[k], dest[k])
\* The loop of MoveEach, turn by turn.
LEMMA MoveEachFold ==
  ASSUME NEW n \in Nat, NEW d \in Room(n), NEW m \in Nat,
         NEW src \in [1 .. m -> 0 .. (n - 1)], NEW dest, NEW r, r = MoveEach(d, src, dest)
  PROVE  \E g : MoveEachRun(g, d, m, src, dest, r)
<1> DEFINE S == Room(n)
           seq == [k \in 1 .. Len(src) |-> k]
           F == [p \in S \X (1 .. m) |-> MoveSlot(p[1], src[p[2]], dest[p[2]])]
<1>0. DOMAIN seq = 1 .. m
  <2>1. Len(src) = m
    OBVIOUS
  <2> QED BY <2>1
<1>s. \A k \in 1 .. m : seq[k] = k
  BY <1>0
<1>1. d \in S /\ \A x \in S, k \in 1 .. m : MoveSlot(x, src[k], dest[k]) \in S
  BY MoveRoom
<1>2. F \in [S \X (1 .. m) -> S] /\ \A x \in S, k \in 1 .. m : F[<<x, k>>] = MoveSlot(x, src[k], dest[k])
  BY <1>1
<1>3. PICK f \in [SUBSET (1 .. m) -> S] : Solves(f, m, d, F)
  <2> HIDE DEF S, F, seq
  <2> QED BY <1>0, <1>1, <1>2, FoldSolution
<1>4. f = [s \in SUBSET DOMAIN seq |->
             IF s = {} THEN d ELSE MoveSlot(f[s \ {Max(s)}], src[seq[Max(s)]], dest[seq[Max(s)]])]
  <2>1. ASSUME NEW s \in SUBSET (1 .. m), s # {}
        PROVE  f[s] = MoveSlot(f[s \ {Max(s)}], src[seq[Max(s)]], dest[seq[Max(s)]])
    <3>1. Max(s) \in 1 .. m /\ f[s \ {Max(s)}] \in S /\ f[s] = F[<<f[s \ {Max(s)}], Max(s)>>]
      BY <1>3, <2>1 DEF Solves
    <3>2. f[s] = MoveSlot(f[s \ {Max(s)}], src[Max(s)], dest[Max(s)])
      <4> HIDE DEF S, F, seq
      <4> QED BY <1>2, <3>1
    <3>3. seq[Max(s)] = Max(s)
      <4> HIDE DEF S, F, seq
      <4> QED BY <1>s, <3>1
    <3> QED BY <3>2, <3>3
  <2>2. f[{}] = d
    BY <1>3 DEF Solves
  <2> HIDE DEF S, F, seq
  <2> QED BY <1>0, <1>3, <2>1, <2>2
<1>5. PICK h : /\ MoveEach(d, src, dest) = h[1 .. m]
               /\ h = [s \in SUBSET (1 .. m) |->
                        IF s = {} THEN d ELSE MoveSlot(h[s \ {Max(s)}], src[seq[Max(s)]], dest[seq[Max(s)]])]
  <2>1. PICK h : h = CHOOSE z : z = [s \in SUBSET DOMAIN seq |->
             IF s = {} THEN d ELSE MoveSlot(z[s \ {Max(s)}], src[seq[Max(s)]], dest[seq[Max(s)]])]
    OBVIOUS
  <2>2. h = [s \in SUBSET DOMAIN seq |->
             IF s = {} THEN d ELSE MoveSlot(h[s \ {Max(s)}], src[seq[Max(s)]], dest[seq[Max(s)]])]
    <3> HIDE DEF seq
    <3> QED BY <1>4, <2>1
  <2>3. MoveEach(d, src, dest) = h[DOMAIN seq]
    BY <2>1 DEF MoveEach, FoldLeft, MapThenFoldSet
  <2> HIDE DEF seq
  <2> QED BY <1>0, <2>2, <2>3
<1> HIDE DEF seq, F, S
<1>6. h[{}] = d /\ {} = 1 .. 0
  <2>1. {} \in SUBSET (1 .. m) /\ {} = 1 .. 0
    BY UpTo
  <2> QED BY <1>5, <2>1
<1>7. ASSUME NEW k \in 1 .. m PROVE h[1 .. k] = MoveSlot(h[1 .. (k - 1)], src[k], dest[k])
  <2>1. 1 .. k \in SUBSET (1 .. m) /\ 1 .. k # {} /\ (1 .. k) \ {k} = 1 .. (k - 1)
    BY UpTo
  <2>2. Max(1 .. k) = k
    BY UpTo
  <2>3. seq[k] = k
    BY <1>s
  <2>4. h[1 .. k] = MoveSlot(h[1 .. (k - 1)], src[seq[k]], dest[seq[k]])
    BY <1>5, <2>1, <2>2
  <2> QED BY <2>3, <2>4
<1> DEFINE g == [k \in 0 .. m |-> h[1 .. k]]
<1>8. g[0] = d /\ g[m] = MoveEach(d, src, dest)
  <2>1. 0 \in 0 .. m /\ m \in 0 .. m
    BY UpTo
  <2> QED BY <1>5, <1>6, <2>1
<1>9. ASSUME NEW k \in 1 .. m PROVE g[k] = MoveSlot(g[k - 1], src[k], dest[k])
  <2>1. k \in 0 .. m /\ k - 1 \in 0 .. m
    OBVIOUS
  <2> QED BY <1>7, <2>1
<1> HIDE DEF g
<1>10. MoveEachRun(g, d, m, src, dest, r)
  BY <1>8, <1>9 DEF MoveEachRun
<1> QED BY <1>10

\* The same, for AssignEach.
AssignEachRun(g, d, m, slots, xs, r) ==
  /\ g[0] = d /\ g[m] = r
  /\ \A k \in 1 .. m : g[k] = [g[k - 1] EXCEPT !.buf[slots[k]] = xs[k]]
\* The loop of AssignEach, turn by turn.
LEMMA AssignEachFold ==
  ASSUME NEW n \in Nat, NEW d \in Room(n), NEW m \in Nat,
         NEW slots, NEW xs \in [1 .. m -> Values], NEW r, r = AssignEach(d, slots, xs)
  PROVE  \E g : AssignEachRun(g, d, m, slots, xs, r)
<1> DEFINE S == Room(n)
           seq == [k \in 1 .. Len(xs) |-> k]
           F == [p \in S \X (1 .. m) |-> [p[1] EXCEPT !.buf[slots[p[2]]] = xs[p[2]]]]
<1>0. DOMAIN seq = 1 .. m
  <2>1. Len(xs) = m
    OBVIOUS
  <2> QED BY <2>1
<1>s. \A k \in 1 .. m : seq[k] = k
  BY <1>0
<1>1. d \in S /\ \A x \in S, k \in 1 .. m : [x EXCEPT !.buf[slots[k]] = xs[k]] \in S
  BY AssignRoom DEF Slot
<1>2. F \in [S \X (1 .. m) -> S] /\ \A x \in S, k \in 1 .. m : F[<<x, k>>] = [x EXCEPT !.buf[slots[k]] = xs[k]]
  BY <1>1
<1>3. PICK f \in [SUBSET (1 .. m) -> S] : Solves(f, m, d, F)
  <2> HIDE DEF S, F, seq
  <2> QED BY <1>0, <1>1, <1>2, FoldSolution
<1>4. f = [s \in SUBSET DOMAIN seq |->
             IF s = {} THEN d ELSE [f[s \ {Max(s)}] EXCEPT !.buf[slots[seq[Max(s)]]] = xs[seq[Max(s)]]]]
  <2>1. ASSUME NEW s \in SUBSET (1 .. m), s # {}
        PROVE  f[s] = [f[s \ {Max(s)}] EXCEPT !.buf[slots[seq[Max(s)]]] = xs[seq[Max(s)]]]
    <3>1. Max(s) \in 1 .. m /\ f[s \ {Max(s)}] \in S /\ f[s] = F[<<f[s \ {Max(s)}], Max(s)>>]
      BY <1>3, <2>1 DEF Solves
    <3>2. f[s] = [f[s \ {Max(s)}] EXCEPT !.buf[slots[Max(s)]] = xs[Max(s)]]
      <4> HIDE DEF S, F, seq
      <4> QED BY <1>2, <3>1
    <3>3. seq[Max(s)] = Max(s)
      <4> HIDE DEF S, F, seq
      <4> QED BY <1>s, <3>1
    <3> QED BY <3>2, <3>3
  <2>2. f[{}] = d
    BY <1>3 DEF Solves
  <2> HIDE DEF S, F, seq
  <2> QED BY <1>0, <1>3, <2>1, <2>2
<1>5. PICK h : /\ AssignEach(d, slots, xs) = h[1 .. m]
               /\ h = [s \in SUBSET (1 .. m) |->
                        IF s = {} THEN d ELSE [h[s \ {Max(s)}] EXCEPT !.buf[slots[seq[Max(s)]]] = xs[seq[Max(s)]]]]
  <2>1. PICK h : h = CHOOSE z : z = [s \in SUBSET DOMAIN seq |->
             IF s = {} THEN d ELSE [z[s \ {Max(s)}] EXCEPT !.buf[slots[seq[Max(s)]]] = xs[seq[Max(s)]]]]
    OBVIOUS
  <2>2. h = [s \in SUBSET DOMAIN seq |->
             IF s = {} THEN d ELSE [h[s \ {Max(s)}] EXCEPT !.buf[slots[seq[Max(s)]]] = xs[seq[Max(s)]]]]
    <3> HIDE DEF seq
    <3> QED BY <1>4, <2>1
  <2>3. AssignEach(d, slots, xs) = h[DOMAIN seq]
    BY <2>1 DEF AssignEach, FoldLeft, MapThenFoldSet
  <2> HIDE DEF seq
  <2> QED BY <1>0, <2>2, <2>3
<1> HIDE DEF seq, F, S
<1>6. h[{}] = d /\ {} = 1 .. 0
  <2>1. {} \in SUBSET (1 .. m) /\ {} = 1 .. 0
    BY UpTo
  <2> QED BY <1>5, <2>1
<1>7. ASSUME NEW k \in 1 .. m PROVE h[1 .. k] = [h[1 .. (k - 1)] EXCEPT !.buf[slots[k]] = xs[k]]
  <2>1. 1 .. k \in SUBSET (1 .. m) /\ 1 .. k # {} /\ (1 .. k) \ {k} = 1 .. (k - 1)
    BY UpTo
  <2>2. Max(1 .. k) = k
    BY UpTo
  <2>3. seq[k] = k
    BY <1>s
  <2>4. h[1 .. k] = [h[1 .. (k - 1)] EXCEPT !.buf[slots[seq[k]]] = xs[seq[k]]]
    BY <1>5, <2>1, <2>2
  <2> QED BY <2>3, <2>4
<1> DEFINE g == [k \in 0 .. m |-> h[1 .. k]]
<1>8. g[0] = d /\ g[m] = AssignEach(d, slots, xs)
  <2>1. 0 \in 0 .. m /\ m \in 0 .. m
    BY UpTo
  <2> QED BY <1>5, <1>6, <2>1
<1>9. ASSUME NEW k \in 1 .. m PROVE g[k] = [g[k - 1] EXCEPT !.buf[slots[k]] = xs[k]]
  <2>1. k \in 0 .. m /\ k - 1 \in 0 .. m
    OBVIOUS
  <2> QED BY <1>7, <2>1
<1> HIDE DEF g
<1>10. AssignEachRun(g, d, m, slots, xs, r)
  BY <1>8, <1>9 DEF AssignEachRun
<1> QED BY <1>10

\* The same, for the values that Without keeps.
WithoutRun(g, m, xs, y, r) ==
  /\ g[0] = <<>> /\ g[m] = r
  /\ \A k \in 1 .. m : g[k] = (IF xs[k] = y THEN g[k - 1] ELSE Append(g[k - 1], xs[k]))
\* The choice of what Without keeps, value by value.
LEMMA WithoutFold ==
  ASSUME NEW m \in Nat, NEW xs \in [1 .. m -> Values], NEW y, NEW r, r = Without(xs, y)
  PROVE  \E g : WithoutRun(g, m, xs, y, r)
<1> DEFINE S == Seq(Values)
           seq == xs
           F == [p \in S \X (1 .. m) |-> (IF xs[p[2]] = y THEN p[1] ELSE Append(p[1], xs[p[2]]))]
<1>0. DOMAIN seq = 1 .. m
  OBVIOUS
<1>s. \A k \in 1 .. m : seq[k] = xs[k]
  OBVIOUS
<1>1. <<>> \in S /\ \A x \in S, k \in 1 .. m : (IF xs[k] = y THEN x ELSE Append(x, xs[k])) \in S
  OBVIOUS
<1>2. F \in [S \X (1 .. m) -> S] /\ \A x \in S, k \in 1 .. m : F[<<x, k>>] = (IF xs[k] = y THEN x ELSE Append(x, xs[k]))
  BY <1>1
<1>3. PICK f \in [SUBSET (1 .. m) -> S] : Solves(f, m, <<>>, F)
  <2> HIDE DEF S, F, seq
  <2> QED BY <1>0, <1>1, <1>2, FoldSolution
<1>4. f = [s \in SUBSET DOMAIN seq |->
             IF s = {} THEN <<>> ELSE (IF seq[Max(s)] = y THEN f[s \ {Max(s)}] ELSE Append(f[s \ {Max(s)}], seq[Max(s)]))]
  <2>1. ASSUME NEW s \in SUBSET (1 .. m), s # {}
        PROVE  f[s] = (IF seq[Max(s)] = y THEN f[s \ {Max(s)}] ELSE Append(f[s \ {Max(s)}], seq[Max(s)]))
    <3>1. Max(s) \in 1 .. m /\ f[s \ {Max(s)}] \in S /\ f[s] = F[<<f[s \ {Max(s)}], Max(s)>>]
      BY <1>3, <2>1 DEF Solves
    <3>2. f[s] = (IF xs[Max(s)] = y THEN f[s \ {Max(s)}] ELSE Append(f[s \ {Max(s)}], xs[Max(s)]))
      <4> HIDE DEF S, F, seq
      <4> QED BY <1>2, <3>1
    <3>3. seq[Max(s)] = xs[Max(s)]
      <4> HIDE DEF S, F, seq
      <4> QED BY <1>s, <3>1
    <3> QED BY <3>2, <3>3
  <2>2. f[{}] = <<>>
    BY <1>3 DEF Solves
  <2> HIDE DEF S, F, seq
  <2> QED BY <1>0, <1>3, <2>1, <2>2
<1>5. PICK h : /\ Without(xs, y) = h[1 .. m]
               /\ h = [s \in SUBSET (1 .. m) |->
                        IF s = {} THEN <<>> ELSE (IF seq[Max(s)] = y THEN h[s \ {Max(s)}] ELSE Append(h[s \ {Max(s)}], seq[Max(s)]))]
  <2>1. PICK h : h = CHOOSE z : z = [s \in SUBSET DOMAIN seq |->
             IF s = {} THEN <<>> ELSE (IF seq[Max(s)] = y THEN z[s \ {Max(s)}] ELSE Append(z[s \ {Max(s)}], seq[Max(s)]))]
    OBVIOUS
  <2>2. h = [s \in SUBSET DOMAIN seq |->
             IF s = {} THEN <<>> ELSE (IF seq[Max(s)] = y THEN h[s \ {Max(s)}] ELSE Append(h[s \ {Max(s)}], seq[Max(s)]))]
    <3> HIDE DEF seq
    <3> QED BY <1>4, <2>1
  <2>3. Without(xs, y) = h[DOMAIN seq]
    BY <2>1 DEF Without, FoldLeft, MapThenFoldSet
  <2> HIDE DEF seq
  <2> QED BY <1>0, <2>2, <2>3
<1> HIDE DEF seq, F, S
<1>6. h[{}] = <<>> /\ {} = 1 .. 0
  <2>1. {} \in SUBSET (1 .. m) /\ {} = 1 .. 0
    BY UpTo
  <2> QED BY <1>5, <2>1
<1>7. ASSUME NEW k \in 1 .. m PROVE h[1 .. k] = (IF xs[k] = y THEN h[1 .. (k - 1)] ELSE Append(h[1 .. (k - 1)], xs[k]))
  <2>1. 1 .. k \in SUBSET (1 .. m) /\ 1 .. k # {} /\ (1 .. k) \ {k} = 1 .. (k - 1)
    BY UpTo
  <2>2. Max(1 .. k) = k
    BY UpTo
  <2>3. seq[k] = xs[k]
    BY <1>s
  <2>4. h[1 .. k] = (IF seq[k] = y THEN h[1 .. (k - 1)] ELSE Append(h[1 .. (k - 1)], seq[k]))
    BY <1>5, <2>1, <2>2
  <2> QED BY <2>3, <2>4
<1> DEFINE g == [k \in 0 .. m |-> h[1 .. k]]
<1>8. g[0] = <<>> /\ g[m] = Without(xs, y)
  <2>1. 0 \in 0 .. m /\ m \in 0 .. m
    BY UpTo
  <2> QED BY <1>5, <1>6, <2>1
<1>9. ASSUME NEW k \in 1 .. m PROVE g[k] = (IF xs[k] = y THEN g[k - 1] ELSE Append(g[k - 1], xs[k]))
  <2>1. k \in 0 .. m /\ k - 1 \in 0 .. m
    OBVIOUS
  <2> QED BY <1>7, <2>1
<1> HIDE DEF g
<1>10. WithoutRun(g, m, xs, y, r)
  BY <1>8, <1>9 DEF WithoutRun
<1> QED BY <1>10

-----------------------------------------------------------------------------
(* What the loops leave in the slots                                       *)

\* Induction over the turns of a loop.
LEMMA BoundedInduction ==
  ASSUME NEW m \in Nat, NEW T, 0 \in T, \A k \in 1 .. m : k - 1 \in T => k \in T
  PROVE  m \in T
<1> DEFINE U == {k \in Nat : k <= m => k \in T}
<1>1. 0 \in U
  OBVIOUS
<1>2. ASSUME NEW k \in Nat, k \in U PROVE k + 1 \in U
  <2>1. CASE k + 1 <= m
    <3>1. k + 1 \in 1 .. m /\ (k + 1) - 1 = k /\ k <= m
      BY <2>1
    <3>2. k + 1 \in T
      BY <1>2, <3>1
    <3> QED BY <3>2
  <2>2. CASE ~(k + 1 <= m)
    BY <2>2
  <2> QED BY <2>1, <2>2
<1>3. m \in U
  <2> HIDE DEF U
  <2> QED BY <1>1, <1>2, SetInduction
<1> QED BY <1>3

\* What a buffer that is laid out is.
LEMMA LinearRoom ==
  ASSUME NEW d, NEW n, NEW b, NEW v, Linear(d, n, b, v)
  PROVE  n \in Nat \ {0} /\ d \in Room(n) /\ Cap(d) = n /\ b \in Nat /\ b < n /\ v \in [0 .. (n - 1) -> Slot]
<1>1. n \in Nat \ {0} /\ DOMAIN d.buf = 0 .. (n - 1)
  BY DEF Linear
<1>2. Cardinality(0 .. (n - 1)) = n
  BY <1>1, FS_Interval
<1>3. Cap(d) = n
  BY <1>1, <1>2 DEF Cap
<1> QED BY <1>3 DEF Linear, Room

\* k elements of xs, from offset p on.
Filled(n, v, p, xs, k) ==
  [o \in 0 .. (n - 1) |-> IF p <= o /\ o < p + k THEN xs[o - p + 1] ELSE v[o]]

\* ConstructAll fills the raw slots from offset p on.
LEMMA ConstructAllLinear ==
  ASSUME NEW d, NEW n, NEW b, NEW v, Linear(d, n, b, v),
         NEW m \in Nat, NEW xs \in [1 .. m -> Values], NEW p \in 0 .. (n - 1), p + m <= n,
         \A o \in 0 .. (n - 1) : p <= o /\ o < p + m => v[o] = Raw,
         NEW i, i = Place(n, b, p), NEW r, r = ConstructAll(d, i, xs)
  PROVE  Linear(r, n, b, Filled(n, v, p, xs, m)) /\ SameMembers(r, d)
<1>1. n \in Nat \ {0} /\ d \in Room(n) /\ Cap(d) = n /\ b \in Nat /\ b < n /\ v \in [0 .. (n - 1) -> Slot]
  BY LinearRoom
<1>2. PICK g : /\ g[0] = d /\ g[m] = r
               /\ \A k \in 1 .. m : g[k] = Construct(g[k - 1], (i + k - 1) % n, xs[k])
  <2>1. PICK g : ConstructAllRun(g, d, i, m, xs, r)
    BY <1>1, ConstructAllFold
  <2> QED BY <1>1, <2>1 DEF ConstructAllRun
<1> DEFINE T == {k \in 0 .. m : Linear(g[k], n, b, Filled(n, v, p, xs, k)) /\ SameMembers(g[k], d)}
<1>3. 0 \in T
  <2>1. Filled(n, v, p, xs, 0) = v
    BY <1>1 DEF Filled
  <2>2. SameMembers(d, d) /\ 0 \in 0 .. m
    BY DEF SameMembers
  <2> QED BY <1>2, <2>1, <2>2
<1>4. ASSUME NEW k \in 1 .. m, k - 1 \in T PROVE k \in T
  <2>1. Linear(g[k - 1], n, b, Filled(n, v, p, xs, k - 1)) /\ SameMembers(g[k - 1], d)
    BY <1>4
  <2>2. PICK q \in 0 .. (n - 1) : q = p + k - 1
    BY <1>1
  <2>3. (i + k - 1) % n = Place(n, b, q)
    <3>0. i \in 0 .. (n - 1)
      BY <1>1, PlaceIn
    <3>1. PICK t \in Nat : t = i + k - 1
      BY <1>1, <3>0
    <3>2. t = b + q \/ t = b + q - n
      BY <1>1, <2>2, <3>1 DEF Place
    <3>3. t % n = Place(n, b, q)
      BY <1>1, <3>2, PlaceMod
    <3> QED BY <3>1, <3>3
  <2>4. Filled(n, v, p, xs, k - 1)[q] = Raw
    BY <1>1, <2>2 DEF Filled
  <2>5. Assigned(Filled(n, v, p, xs, k), Filled(n, v, p, xs, k - 1), n, q, xs[k])
    <3>1. Filled(n, v, p, xs, k) \in [0 .. (n - 1) -> Slot]
      <4>1. \A o \in 0 .. (n - 1) : p <= o /\ o < p + k => o - p + 1 \in 1 .. m
        BY <1>1
      <4> QED BY <1>1, <4>1 DEF Filled, Slot
    <3>2. Filled(n, v, p, xs, k)[q] = xs[k]
      BY <1>1, <2>2 DEF Filled
    <3>3. \A o \in 0 .. (n - 1) : o # q => Filled(n, v, p, xs, k)[o] = Filled(n, v, p, xs, k - 1)[o]
      BY <1>1, <2>2 DEF Filled
    <3> QED BY <3>1, <3>2, <3>3 DEF Assigned
  <2>6. Linear(g[k], n, b, Filled(n, v, p, xs, k)) /\ SameMembers(g[k], g[k - 1])
    <3>1. g[k] = Construct(g[k - 1], Place(n, b, q), xs[k]) /\ xs[k] \in Values
      BY <1>2, <2>3
    <3> QED BY <2>1, <2>4, <2>5, <3>1, LinearConstruct
  <2>7. SameMembers(g[k], d)
    BY <2>1, <2>6 DEF SameMembers
  <2>8. k \in 0 .. m
    OBVIOUS
  <2> QED BY <2>6, <2>7, <2>8
<1>5. m \in T
  <2> HIDE DEF T
  <2> QED BY <1>3, <1>4, BoundedInduction
<1> QED BY <1>2, <1>5

\* c elements, with a hole of m slots at offset p.
Opened(n, v, c, m, p) ==
  [o \in 0 .. (n - 1) |-> IF o < p THEN v[o] ELSE IF p + m <= o /\ o < c + m THEN v[o - m] ELSE Raw]

\* MoveEach, from the last element on, opens the hole: no slot is overwritten
\* before it is read.
LEMMA MoveUpLinear ==
  ASSUME NEW d, NEW n, NEW b, NEW v, Linear(d, n, b, v),
         NEW c \in Nat, NEW m \in Nat \ {0}, c + m < n, \A o \in 0 .. (n - 1) : v[o] # Raw <=> o < c,
         NEW p \in 0 .. c, NEW s, s = c - p,
         NEW src, src = [k \in 1 .. s |-> Place(n, b, c - k)],
         NEW dest, dest = [k \in 1 .. s |-> Place(n, b, c + m - k)],
         NEW r, r = MoveEach(d, src, dest)
  PROVE  Linear(r, n, b, Opened(n, v, c, m, p)) /\ SameMembers(r, d)
<1>1. n \in Nat \ {0} /\ d \in Room(n) /\ b \in Nat /\ b < n /\ v \in [0 .. (n - 1) -> Slot] /\ s \in Nat
  BY LinearRoom
<1>2. src \in [1 .. s -> 0 .. (n - 1)]
  <2>1. ASSUME NEW k \in 1 .. s PROVE Place(n, b, c - k) \in 0 .. (n - 1)
    <3>1. c - k \in 0 .. (n - 1)
      BY <1>1
    <3> QED BY <1>1, <3>1, PlaceIn
  <2> QED BY <2>1
<1>3. PICK g : /\ g[0] = d /\ g[s] = r
               /\ \A k \in 1 .. s : g[k] = MoveSlot(g[k - 1], src[k], dest[k])
  <2>1. PICK g : MoveEachRun(g, d, s, src, dest, r)
    BY <1>1, <1>2, MoveEachFold
  <2> QED BY <2>1 DEF MoveEachRun
<1> DEFINE T == {k \in 0 .. s : Linear(g[k], n, b, Opened(n, v, c, m, c - k)) /\ SameMembers(g[k], d)}
<1>4. 0 \in T
  <2>1. Opened(n, v, c, m, c - 0) = v
    <3>1. \A o \in 0 .. (n - 1) : Opened(n, v, c, m, c - 0)[o] = v[o]
      BY <1>1 DEF Opened
    <3> QED BY <1>1, <3>1 DEF Opened
  <2>2. SameMembers(d, d) /\ 0 \in 0 .. s
    BY <1>1 DEF SameMembers
  <2> QED BY <1>3, <2>1, <2>2
<1>5. ASSUME NEW k \in 1 .. s, k - 1 \in T PROVE k \in T
  <2>1. PICK h \in 1 .. c : h = c - (k - 1)
    BY <1>1
  <2>2. Linear(g[k - 1], n, b, Opened(n, v, c, m, h)) /\ SameMembers(g[k - 1], d)
    BY <1>5, <2>1
  <2>3. PICK x \in 0 .. (n - 1), y \in 0 .. (n - 1) : x = h - 1 /\ y = h - 1 + m
    <3>1. h - 1 \in 0 .. (n - 1) /\ h - 1 + m \in 0 .. (n - 1)
      BY <1>1, <2>1
    <3> QED BY <3>1
  <2>4. PICK u : u = Opened(n, v, c, m, h)
    OBVIOUS
  <2>5. PICK z : z = Opened(n, v, c, m, x)
    OBVIOUS
  <2>6. u \in [0 .. (n - 1) -> Slot] /\ z \in [0 .. (n - 1) -> Slot]
    <3>1. \A o \in 0 .. (n - 1) : o < c + m /\ m <= o => o - m \in 0 .. (n - 1)
      BY <1>1
    <3>2. ASSUME NEW e \in 0 .. c PROVE Opened(n, v, c, m, e) \in [0 .. (n - 1) -> Slot]
      <4>1. \A o \in 0 .. (n - 1) : e + m <= o /\ o < c + m => o - m \in 0 .. (n - 1)
        BY <1>1
      <4> QED BY <1>1, <4>1 DEF Opened, Slot
    <3>3. h \in 0 .. c /\ x \in 0 .. c
      BY <1>1, <2>3
    <3> QED BY <2>4, <2>5, <3>2, <3>3
  <2>7. u[x] = v[x] /\ u[x] # Raw /\ u[y] = Raw /\ u[x] \in Slot
    BY <1>1, <2>3, <2>4 DEF Opened
  <2>8. PICK w : w = [u EXCEPT ![y] = u[x]]
    OBVIOUS
  <2>9. Assigned(w, u, n, y, u[x])
    BY <1>1, <2>6, <2>7, <2>8 DEF Assigned
  <2>10. Assigned(z, w, n, x, Raw)
    <3>1. z[x] = Raw
      BY <1>1, <2>3, <2>5 DEF Opened
    <3>2. ASSUME NEW o \in 0 .. (n - 1), o # x PROVE z[o] = w[o]
      <4>1. CASE o = y
        <5>1. z[y] = v[x]
          <6>1. x + m <= y /\ y < c + m /\ ~(y < x) /\ y - m = x
            BY <1>1, <2>3
          <6> QED BY <2>3, <2>5, <6>1 DEF Opened
        <5> QED BY <2>6, <2>7, <2>8, <4>1, <5>1
      <4>2. CASE o # y
        <5>1. z[o] = u[o]
          BY <1>1, <2>3, <2>4, <2>5, <3>2, <4>2 DEF Opened
        <5> QED BY <2>6, <2>8, <4>2, <5>1
      <4> QED BY <4>1, <4>2
    <3> QED BY <2>6, <3>1, <3>2 DEF Assigned
  <2>11. g[k] = MoveSlot(g[k - 1], Place(n, b, x), Place(n, b, y))
    <3>1. c - k = x /\ c + m - k = y
      BY <1>1, <2>1, <2>3
    <3> QED BY <1>3, <3>1
  <2>12. Linear(g[k], n, b, z) /\ SameMembers(g[k], g[k - 1])
    BY <2>2, <2>4, <2>7, <2>9, <2>10, <2>11, LinearMove
  <2>13. SameMembers(g[k], d) /\ k \in 0 .. s /\ x = c - k
    <3>1. x = c - k
      BY <1>1, <2>1, <2>3
    <3> QED BY <2>2, <2>12, <3>1 DEF SameMembers
  <2> QED BY <2>5, <2>12, <2>13
<1>6. s \in T
  <2> HIDE DEF T
  <2> QED BY <1>1, <1>4, <1>5, BoundedInduction
<1>7. c - s = p
  BY <1>1
<1> QED BY <1>3, <1>6, <1>7

-----------------------------------------------------------------------------
(* The loops that move elements down, assign and choose                    *)
\* The first k elements after a gap from offset p up to q are moved down to it.
Closed(n, v, p, q, k) ==
  [o \in 0 .. (n - 1) |-> IF p <= o /\ o < p + k THEN v[o + (q - p)]
                          ELSE IF p + k <= o /\ o < q + k THEN Raw ELSE v[o]]

\* The slots of the elements from offset q on, and those from offset p on.
MovesDown(n, b, p, q, s, src, dest) ==
  /\ src = [k \in 1 .. s |-> Place(n, b, q + k - 1)]
  /\ dest = [k \in 1 .. s |-> Place(n, b, p + k - 1)]
\* v holds elements up to offset p, and from offset q up to c.
Gapped(n, v, p, q, c) == \A o \in 0 .. (n - 1) : v[o] # Raw <=> (o < p \/ (q <= o /\ o < c))
\* MoveEach, from the first element on, closes the gap.
LEMMA MoveDownLinear ==
  ASSUME NEW d, NEW n, NEW b, NEW v, Linear(d, n, b, v), NEW c \in 0 .. (n - 1),
         NEW p \in 0 .. c, NEW q \in 0 .. c, p < q, Gapped(n, v, p, q, c),
         NEW s, s = c - q, NEW src, NEW dest, MovesDown(n, b, p, q, s, src, dest),
         NEW r, r = MoveEach(d, src, dest), NEW h, h = Closed(n, v, p, q, s)
  PROVE  Linear(r, n, b, h) /\ SameMembers(r, d)
<1>0. /\ \A o \in 0 .. (n - 1) : v[o] # Raw <=> (o < p \/ (q <= o /\ o < c))
      /\ src = [k \in 1 .. s |-> Place(n, b, q + k - 1)]
      /\ dest = [k \in 1 .. s |-> Place(n, b, p + k - 1)]
  BY DEF Gapped, MovesDown
<1>1. n \in Nat \ {0} /\ d \in Room(n) /\ b \in Nat /\ b < n /\ v \in [0 .. (n - 1) -> Slot] /\ s \in Nat
  <2>1. n \in Nat \ {0} /\ d \in Room(n) /\ b \in Nat /\ b < n /\ v \in [0 .. (n - 1) -> Slot]
    BY LinearRoom
  <2> QED BY <2>1
<1>2. src \in [1 .. s -> 0 .. (n - 1)]
  <2>1. ASSUME NEW k \in 1 .. s PROVE Place(n, b, q + k - 1) \in 0 .. (n - 1)
    <3>1. q + k - 1 \in 0 .. (n - 1)
      BY <1>0, <1>1
    <3> QED BY <1>0, <1>1, <3>1, PlaceIn
  <2> QED BY <1>0, <2>1
<1>3. PICK g : /\ g[0] = d /\ g[s] = r
               /\ \A k \in 1 .. s : g[k] = MoveSlot(g[k - 1], src[k], dest[k])
  <2>1. PICK g : MoveEachRun(g, d, s, src, dest, r)
    BY <1>0, <1>1, <1>2, MoveEachFold
  <2> QED BY <2>1 DEF MoveEachRun
<1>a. ASSUME NEW k \in 0 .. s PROVE Closed(n, v, p, q, k) \in [0 .. (n - 1) -> Slot]
  <2>1. \A o \in 0 .. (n - 1) : p <= o /\ o < p + k => o + (q - p) \in 0 .. (n - 1)
    BY <1>0, <1>1
  <2> QED BY <1>0, <1>1, <2>1 DEF Closed, Slot
<1> DEFINE T == {k \in 0 .. s : Linear(g[k], n, b, Closed(n, v, p, q, k)) /\ SameMembers(g[k], d)}
<1>4. 0 \in T
  <2>1. Closed(n, v, p, q, 0) = v
    <3>1. \A o \in 0 .. (n - 1) : Closed(n, v, p, q, 0)[o] = v[o]
      BY <1>0, <1>1 DEF Closed
    <3> QED BY <1>0, <1>1, <3>1 DEF Closed
  <2>2. SameMembers(d, d) /\ 0 \in 0 .. s
    BY <1>0, <1>1 DEF SameMembers
  <2> QED BY <1>3, <2>1, <2>2
<1>5. ASSUME NEW k \in 1 .. s, k - 1 \in T PROVE k \in T
  <2>0. PICK j \in 0 .. s : j = k - 1
    BY <1>0, <1>1
  <2>2. Linear(g[j], n, b, Closed(n, v, p, q, j)) /\ SameMembers(g[j], d)
    BY <1>5, <2>0
  <2>3. PICK x \in 0 .. (n - 1), y \in 0 .. (n - 1) : x = q + k - 1 /\ y = p + k - 1
    <3>1. q + k - 1 \in 0 .. (n - 1) /\ p + k - 1 \in 0 .. (n - 1)
      BY <1>0, <1>1
    <3> QED BY <3>1
  <2>4. PICK u : u = Closed(n, v, p, q, j)
    OBVIOUS
  <2>5. PICK z : z = Closed(n, v, p, q, k)
    OBVIOUS
  <2>6. u \in [0 .. (n - 1) -> Slot] /\ z \in [0 .. (n - 1) -> Slot]
    <3>1. k \in 0 .. s
      BY <1>0, <1>1
    <3> QED BY <1>a, <2>4, <2>5, <3>1
  <2>7. u[x] = v[x] /\ u[x] # Raw /\ u[y] = Raw /\ u[x] \in Slot
    <3>1. u[x] = v[x]
      BY <1>0, <1>1, <2>0, <2>3, <2>4 DEF Closed
    <3>2. v[x] # Raw /\ v[x] \in Slot
      BY <1>0, <1>1, <2>3
    <3>3. u[y] = Raw
      BY <1>0, <1>1, <2>0, <2>3, <2>4 DEF Closed
    <3> QED BY <3>1, <3>2, <3>3
  <2>8. PICK w : w = [u EXCEPT ![y] = u[x]]
    OBVIOUS
  <2>9. Assigned(w, u, n, y, u[x])
    BY <1>0, <1>1, <2>6, <2>7, <2>8 DEF Assigned
  <2>10. Assigned(z, w, n, x, Raw)
    <3>1. z[x] = Raw
      BY <1>0, <1>1, <2>3, <2>5 DEF Closed
    <3>2. ASSUME NEW o \in 0 .. (n - 1), o # x PROVE z[o] = w[o]
      <4>1. CASE o = y
        <5>1. z[y] = v[x]
          <6>1. p <= y /\ y < p + k /\ y + (q - p) = x
            BY <1>0, <1>1, <2>3
          <6> QED BY <2>3, <2>5, <6>1 DEF Closed
        <5> QED BY <2>6, <2>7, <2>8, <4>1, <5>1
      <4>2. CASE o # y
        <5>1. z[o] = u[o]
          BY <1>0, <1>1, <2>0, <2>3, <2>4, <2>5, <3>2, <4>2 DEF Closed
        <5> QED BY <2>6, <2>8, <4>2, <5>1
      <4> QED BY <4>1, <4>2
    <3> QED BY <2>6, <3>1, <3>2 DEF Assigned
  <2>11. g[k] = MoveSlot(g[j], Place(n, b, x), Place(n, b, y))
    BY <1>0, <1>3, <2>0, <2>3
  <2>12. Linear(g[k], n, b, z) /\ SameMembers(g[k], g[j])
    BY <2>2, <2>4, <2>7, <2>9, <2>10, <2>11, LinearMove
  <2>13. SameMembers(g[k], d) /\ k \in 0 .. s
    BY <2>2, <2>12 DEF SameMembers
  <2> QED BY <2>5, <2>12, <2>13
<1>6. s \in T
  <2> HIDE DEF T
  <2> QED BY <1>0, <1>1, <1>4, <1>5, BoundedInduction
<1> QED BY <1>3, <1>6

\* AssignEach overwrites the first elements.
LEMMA AssignEachLinear ==
  ASSUME NEW d, NEW n, NEW b, NEW v, Linear(d, n, b, v), NEW c \in 0 .. (n - 1),
         NEW m \in 0 .. c, NEW xs \in [1 .. m -> Values],
         NEW slots, \A k \in 1 .. c : slots[k] = Place(n, b, k - 1),
         NEW r, r = AssignEach(d, slots, xs)
  PROVE  Linear(r, n, b, Filled(n, v, 0, xs, m)) /\ SameMembers(r, d)
<1>1. n \in Nat \ {0} /\ d \in Room(n) /\ b \in Nat /\ b < n /\ v \in [0 .. (n - 1) -> Slot] /\ m \in Nat
  <2>1. n \in Nat \ {0} /\ d \in Room(n) /\ b \in Nat /\ b < n /\ v \in [0 .. (n - 1) -> Slot]
    BY LinearRoom
  <2> QED BY <2>1
<1>2. PICK g : /\ g[0] = d /\ g[m] = r
               /\ \A k \in 1 .. m : g[k] = [g[k - 1] EXCEPT !.buf[slots[k]] = xs[k]]
  <2>1. PICK g : AssignEachRun(g, d, m, slots, xs, r)
    BY <1>1, AssignEachFold
  <2> QED BY <2>1 DEF AssignEachRun
<1> DEFINE T == {k \in 0 .. m : Linear(g[k], n, b, Filled(n, v, 0, xs, k)) /\ SameMembers(g[k], d)}
<1>3. 0 \in T
  <2>1. Filled(n, v, 0, xs, 0) = v
    BY <1>1 DEF Filled
  <2>2. SameMembers(d, d) /\ 0 \in 0 .. m
    BY DEF SameMembers
  <2> QED BY <1>2, <2>1, <2>2
<1>4. ASSUME NEW k \in 1 .. m, k - 1 \in T PROVE k \in T
  <2>0. PICK e : e = g[k - 1]
    OBVIOUS
  <2>1. Linear(e, n, b, Filled(n, v, 0, xs, k - 1)) /\ SameMembers(e, d)
    BY <1>4, <2>0
  <2>2. PICK q \in 0 .. (n - 1) : q = k - 1
    BY <1>1
  <2>3. PICK i \in 0 .. (n - 1) : i = Place(n, b, q) /\ slots[k] = i
    <3>1. slots[k] = Place(n, b, q)
      BY <1>1, <2>2
    <3> QED BY <1>1, <3>1, PlaceIn
  <2>4. Assigned(Filled(n, v, 0, xs, k), Filled(n, v, 0, xs, k - 1), n, q, xs[k])
    <3>1. Filled(n, v, 0, xs, k) \in [0 .. (n - 1) -> Slot]
      <4>1. \A o \in 0 .. (n - 1) : 0 <= o /\ o < 0 + k => o - 0 + 1 \in 1 .. m
        BY <1>1
      <4> QED BY <1>1, <4>1 DEF Filled, Slot
    <3>2. Filled(n, v, 0, xs, k)[q] = xs[k]
      BY <1>1, <2>2 DEF Filled
    <3>3. \A o \in 0 .. (n - 1) : o # q => Filled(n, v, 0, xs, k)[o] = Filled(n, v, 0, xs, k - 1)[o]
      BY <1>1, <2>2 DEF Filled
    <3> QED BY <3>1, <3>2, <3>3 DEF Assigned
  <2>5. PICK new : new = [e.buf EXCEPT ![i] = xs[k]]
    OBVIOUS
  <2>6. e \in DequeType /\ ~e.ub /\ e.buf \in [0 .. (n - 1) -> Slot] /\ xs[k] \in Slot
    BY <2>1 DEF Linear, Slot
  <2>7. Assigned(new, e.buf, n, i, xs[k])
    BY <2>5, <2>6 DEF Assigned
  <2>8. new \in Buffers
    BY <1>1, <2>7, BufferOf DEF Assigned, Slot
  <2>9. PICK x : x = [e EXCEPT !.buf = new]
    OBVIOUS
  <2>10. x \in DequeType /\ ~x.ub /\ x.buf = new /\ SameMembers(x, e)
    BY <2>6, <2>8, <2>9 DEF DequeType, SameMembers
  <2>11. g[k] = x
    <3>1. g[k] = [e EXCEPT !.buf[i] = xs[k]]
      BY <1>2, <2>0, <2>3
    <3> QED BY <2>5, <2>6, <2>9, <3>1 DEF DequeType
  <2>12. Linear(x, n, b, Filled(n, v, 0, xs, k))
    BY <2>1, <2>3, <2>4, <2>6, <2>7, <2>10, LinearAssign
  <2>13. SameMembers(x, d) /\ k \in 0 .. m
    BY <1>1, <2>1, <2>10 DEF SameMembers
  <2> QED BY <2>11, <2>12, <2>13
<1>5. m \in T
  <2> HIDE DEF T
  <2> QED BY <1>1, <1>3, <1>4, BoundedInduction
<1> QED BY <1>2, <1>5

\* Without keeps some of the values.
LEMMA WithoutIs ==
  ASSUME NEW xs \in Seq(Values), NEW y
  PROVE  Without(xs, y) \in Seq(Values) /\ Len(Without(xs, y)) <= Len(xs)
<1> DEFINE m == Len(xs)
<1>1. m \in Nat /\ xs \in [1 .. m -> Values]
  OBVIOUS
<1>2. PICK g : /\ g[0] = <<>> /\ g[m] = Without(xs, y)
               /\ \A k \in 1 .. m : g[k] = IF xs[k] = y THEN g[k - 1] ELSE Append(g[k - 1], xs[k])
  <2>1. PICK r : r = Without(xs, y)
    OBVIOUS
  <2> HIDE DEF m
  <2>2. PICK g : WithoutRun(g, m, xs, y, r)
    BY <1>1, <2>1, WithoutFold
  <2> QED BY <2>1, <2>2 DEF WithoutRun
<1> HIDE DEF m
<1> DEFINE T == {k \in 0 .. m : g[k] \in Seq(Values) /\ Len(g[k]) <= k}
<1>3. 0 \in T
  <2>1. <<>> \in Seq(Values) /\ Len(<<>>) <= 0 /\ 0 \in 0 .. m
    BY <1>1
  <2> QED BY <1>2, <2>1
<1>4. ASSUME NEW k \in 1 .. m, k - 1 \in T PROVE k \in T
  <2>1. g[k - 1] \in Seq(Values) /\ Len(g[k - 1]) <= k - 1 /\ xs[k] \in Values
    BY <1>1, <1>4
  <2>2. PICK s \in Seq(Values) : s = g[k - 1] /\ Len(s) <= k - 1
    BY <2>1
  <2>3. g[k] = s \/ g[k] = Append(s, xs[k])
    BY <1>2, <2>2
  <2>4. Append(s, xs[k]) \in Seq(Values) /\ Len(Append(s, xs[k])) = Len(s) + 1
    BY <2>1
  <2>5. k \in 0 .. m /\ Len(s) <= k /\ Len(s) + 1 <= k
    <3>1. Len(s) \in Nat /\ Len(s) <= k - 1
      BY <2>2
    <3> QED BY <1>1, <3>1
  <2>6. CASE g[k] = s
    BY <2>5, <2>6
  <2>7. CASE g[k] = Append(s, xs[k])
    <3>1. g[k] \in Seq(Values) /\ Len(g[k]) <= k
      BY <2>4, <2>5, <2>7
    <3> QED BY <2>5, <3>1
  <2> QED BY <2>3, <2>6, <2>7
<1>5. m \in T
  <2> HIDE DEF T
  <2> QED BY <1>1, <1>3, <1>4, BoundedInduction
<1> QED BY <1>2, <1>5 DEF m

-----------------------------------------------------------------------------
(* What the loops and the assignments leave in the deque                   *)

\* The contents of an exact deque.
LEMMA ExactContents ==
  ASSUME NEW d, Exact(d)
  PROVE  Contents(d) \in Seq(Values) /\ Len(Contents(d)) = Size(d) /\ Size(d) \in Nat
BY ExactRing, ContentsAre

\* t is s, and the first k elements of xs after it.
Appended(t, s, xs, k) ==
  /\ t \in Seq(Values) /\ Len(t) = Len(s) + k
  /\ \A i \in 1 .. Len(s) : t[i] = s[i]
  /\ \A i \in 1 .. k : t[Len(s) + i] = xs[i]

\* One more element.
LEMMA AppendedStep ==
  ASSUME NEW t, NEW s \in Seq(Values), NEW xs, NEW k \in Nat \ {0}, NEW j, j = k - 1,
         Appended(t, s, xs, j), NEW x \in Values, x = xs[k], NEW u, u = Append(t, x)
  PROVE  Appended(u, s, xs, k)
<1> DEFINE n == Len(s)
<1>1. n \in Nat /\ j \in Nat /\ t \in Seq(Values) /\ Len(t) = n + j
  BY DEF Appended
<1>2. u \in Seq(Values) /\ Len(u) = n + k /\ u[n + k] = x /\ \A i \in 1 .. (n + j) : u[i] = t[i]
  <2> HIDE DEF n
  <2>1. u \in Seq(Values) /\ Len(u) = Len(t) + 1 /\ u[Len(t) + 1] = x /\ \A i \in 1 .. Len(t) : u[i] = t[i]
    BY <1>1
  <2>2. Len(t) + 1 = n + k
    BY <1>1
  <2> QED BY <1>1, <2>1, <2>2
<1>3. \A i \in 1 .. n : u[i] = s[i]
  <2>1. \A i \in 1 .. n : i \in 1 .. (n + j) /\ t[i] = s[i]
    BY <1>1 DEF Appended
  <2> QED BY <1>2, <2>1
<1>4. ASSUME NEW i \in 1 .. k PROVE u[n + i] = xs[i]
  <2>1. CASE i = k
    BY <1>2, <2>1
  <2>2. CASE i # k
    <3>1. i \in 1 .. j /\ n + i \in 1 .. (n + j)
      BY <1>1, <2>2
    <3>2. t[n + i] = xs[i]
      BY <3>1 DEF Appended
    <3> QED BY <1>2, <3>1, <3>2
  <2> QED BY <2>1, <2>2
<1> QED BY <1>2, <1>3, <1>4 DEF Appended

\* All of them.
LEMMA AppendedAll ==
  ASSUME NEW t, NEW s \in Seq(Values), NEW xs \in Seq(Values), Appended(t, s, xs, Len(xs))
  PROVE  t = s \o xs
<1>1. PICK u \in Seq(Values) : u = s \o xs
  <2>1. s \o xs \in Seq(Values)
    OBVIOUS
  <2> QED BY <2>1
<1>2. /\ Len(u) = Len(s) + Len(xs) /\ \A i \in 1 .. Len(s) : u[i] = s[i]
      /\ \A i \in 1 .. Len(xs) : u[Len(s) + i] = xs[i]
  BY <1>1
<1>3. t \in Seq(Values) /\ Len(t) = Len(u)
  BY <1>2 DEF Appended
<1>4. ASSUME NEW i \in 1 .. Len(u) PROVE t[i] = u[i]
  <2>1. CASE i <= Len(s)
    <3>1. i \in 1 .. Len(s)
      BY <2>1
    <3> QED BY <1>2, <3>1 DEF Appended
  <2>2. CASE ~(i <= Len(s))
    <3>1. PICK k \in 1 .. Len(xs) : i = Len(s) + k
      <4>1. i - Len(s) \in 1 .. Len(xs) /\ i = Len(s) + (i - Len(s))
        BY <1>2, <2>2
      <4> QED BY <4>1
    <3> QED BY <1>2, <3>1 DEF Appended
  <2> QED BY <2>1, <2>2
<1> QED BY <1>1, <1>3, <1>4, SameElements

\* EmplaceEach adds the elements at the end, in order.
LEMMA EmplaceEachExact ==
  ASSUME NEW d, Exact(d), NEW xs \in Seq(Values), NEW r, r = EmplaceEach(d, xs)
  PROVE  Exact(r) /\ Contents(r) = Contents(d) \o xs
<1>1. PICK m \in Nat : m = Len(xs)
  OBVIOUS
<1>2. xs \in [1 .. m -> Values]
  BY <1>1
<1>3. PICK g : EmplaceEachRun(g, d, m, xs, r)
  BY <1>2, EmplaceEachFold
<1>4. PICK s \in Seq(Values) : s = Contents(d)
  BY ExactContents
<1> DEFINE T == {k \in 0 .. m : Exact(g[k]) /\ Appended(Contents(g[k]), s, xs, k)}
<1>5. 0 \in T
  <2>1. Appended(s, s, xs, 0)
    BY DEF Appended
  <2>2. g[0] = d /\ 0 \in 0 .. m
    BY <1>3 DEF EmplaceEachRun
  <2> QED BY <1>4, <2>1, <2>2
<1>6. ASSUME NEW k \in 1 .. m, k - 1 \in T PROVE k \in T
  <2>1. PICK j \in Nat : j = k - 1
    OBVIOUS
  <2>2. Exact(g[j]) /\ Appended(Contents(g[j]), s, xs, j)
    BY <1>6, <2>1
  <2>3. g[k] = EmplaceBack(g[j], xs[k]) /\ xs[k] \in Values /\ k \in Nat \ {0} /\ k \in 0 .. m
    BY <1>2, <1>3, <2>1 DEF EmplaceEachRun
  <2>4. Exact(g[k]) /\ Contents(g[k]) = Append(Contents(g[j]), xs[k])
    BY <2>2, <2>3, EmplaceBackExact
  <2>5. Appended(Contents(g[k]), s, xs, k)
    BY <2>1, <2>2, <2>3, <2>4, AppendedStep
  <2> QED BY <2>3, <2>4, <2>5
<1>7. m \in T
  <2> HIDE DEF T
  <2> QED BY <1>5, <1>6, BoundedInduction
<1>8. g[m] = r
  BY <1>3 DEF EmplaceEachRun
<1>9. Contents(r) = s \o xs
  BY <1>1, <1>7, <1>8, AppendedAll
<1> QED BY <1>4, <1>7, <1>8, <1>9

\* n copies of x.
LEMMA CopiesAre ==
  ASSUME NEW n \in Nat, NEW x \in Values
  PROVE  /\ Copies(n, x) \in Seq(Values) /\ Len(Copies(n, x)) = n
         /\ Copies(n, x) \in [1 .. n -> Values] /\ \A i \in 1 .. n : Copies(n, x)[i] = x
BY DEF Copies

\* t is k times x, and s after them.
Prepended(t, s, x, k) ==
  /\ t \in Seq(Values) /\ Len(t) = Len(s) + k
  /\ \A i \in 1 .. k : t[i] = x
  /\ \A i \in 1 .. Len(s) : t[k + i] = s[i]

\* One more copy.
LEMMA PrependedStep ==
  ASSUME NEW t, NEW s \in Seq(Values), NEW k \in Nat \ {0}, NEW j, j = k - 1, NEW x \in Values,
         Prepended(t, s, x, j), NEW u, u = <<x>> \o t
  PROVE  Prepended(u, s, x, k)
<1> DEFINE n == Len(s)
<1>1. n \in Nat /\ j \in Nat /\ t \in Seq(Values) /\ Len(t) = n + j
  BY DEF Prepended
<1>2. /\ u \in Seq(Values) /\ Len(u) = Len(t) + 1 /\ u[1] = x
      /\ \A i \in 1 .. Len(t) : u[i + 1] = t[i]
  BY <1>1
<1> HIDE DEF n
<1>3. ASSUME NEW i \in 1 .. k PROVE u[i] = x
  <2>1. CASE i = 1
    BY <1>2, <2>1
  <2>2. CASE i # 1
    <3>1. i - 1 \in 1 .. j /\ i - 1 \in 1 .. Len(t) /\ (i - 1) + 1 = i
      BY <1>1, <2>2
    <3>2. t[i - 1] = x
      BY <3>1 DEF Prepended
    <3> QED BY <1>2, <3>1, <3>2
  <2> QED BY <2>1, <2>2
<1>4. ASSUME NEW i \in 1 .. n PROVE u[k + i] = s[i]
  <2>1. j + i \in 1 .. Len(t) /\ (j + i) + 1 = k + i
    BY <1>1
  <2>2. t[j + i] = s[i]
    BY DEF Prepended, n
  <2> QED BY <1>2, <2>1, <2>2
<1>5. Len(u) = n + k
  BY <1>1, <1>2
<1> QED BY <1>2, <1>3, <1>4, <1>5 DEF Prepended, n

\* All of them.
LEMMA PrependedAll ==
  ASSUME NEW t, NEW s \in Seq(Values), NEW n \in Nat, NEW x \in Values, Prepended(t, s, x, n)
  PROVE  t = Copies(n, x) \o s
<1>1. PICK c \in Seq(Values) : c = Copies(n, x) /\ Len(c) = n /\ \A i \in 1 .. n : c[i] = x
  BY CopiesAre
<1>2. PICK u \in Seq(Values) : u = c \o s
  <2>1. c \o s \in Seq(Values)
    OBVIOUS
  <2> QED BY <2>1
<1>3. /\ Len(u) = n + Len(s) /\ \A i \in 1 .. n : u[i] = x
      /\ \A i \in 1 .. Len(s) : u[n + i] = s[i]
  <2>1. Len(u) = Len(c) + Len(s) /\ \A i \in 1 .. Len(c) : u[i] = c[i]
    BY <1>2
  <2>2. \A i \in 1 .. Len(s) : u[Len(c) + i] = s[i]
    BY <1>2
  <2> QED BY <1>1, <2>1, <2>2
<1>4. t \in Seq(Values) /\ Len(t) = Len(u)
  BY <1>3 DEF Prepended
<1>5. ASSUME NEW i \in 1 .. Len(u) PROVE t[i] = u[i]
  <2>1. CASE i <= n
    <3>1. i \in 1 .. n
      BY <2>1
    <3> QED BY <1>3, <3>1 DEF Prepended
  <2>2. CASE ~(i <= n)
    <3>1. PICK k \in 1 .. Len(s) : i = n + k
      <4>1. i - n \in 1 .. Len(s) /\ i = n + (i - n)
        BY <1>3, <2>2
      <4> QED BY <4>1
    <3> QED BY <1>3, <3>1 DEF Prepended
  <2> QED BY <2>1, <2>2
<1> QED BY <1>1, <1>2, <1>4, <1>5, SameElements

\* t is a and then b.
Joined(t, a, b) == t = a \o b
\* EmplaceEachFront adds the copies at the front.
LEMMA EmplaceEachFrontExact ==
  ASSUME NEW d, Exact(d), NEW n \in Nat, NEW x \in Values, NEW xs, xs = Copies(n, x),
         NEW t, t = Contents(d), NEW r, r = EmplaceEachFront(d, xs)
  PROVE  Exact(r) /\ Joined(Contents(r), xs, t) /\ (r.touched = TRUE \/ (n = 0 /\ r = d))
<1>1. xs \in [1 .. n -> Values] /\ \A i \in 1 .. n : xs[i] = x
  BY CopiesAre
<1>3. PICK g : EmplaceEachFrontRun(g, d, n, xs, r)
  BY <1>1, EmplaceEachFrontFold
<1>4. PICK s \in Seq(Values) : s = Contents(d)
  BY ExactContents
<1> DEFINE T == {k \in 0 .. n : /\ Exact(g[k]) /\ Prepended(Contents(g[k]), s, x, k)
                                /\ k = 0 => g[k] = d
                                /\ k > 0 => g[k].touched = TRUE}
<1>5. 0 \in T
  <2>1. Prepended(s, s, x, 0)
    BY DEF Prepended
  <2>2. g[0] = d /\ 0 \in 0 .. n /\ ~(0 > 0)
    BY <1>3 DEF EmplaceEachFrontRun
  <2> QED BY <1>4, <2>1, <2>2
<1>6. ASSUME NEW k \in 1 .. n, k - 1 \in T PROVE k \in T
  <2>1. PICK j \in Nat : j = k - 1
    OBVIOUS
  <2>2. Exact(g[j]) /\ Prepended(Contents(g[j]), s, x, j)
    BY <1>6, <2>1
  <2>3. g[k] = EmplaceFront(g[j], x) /\ k \in Nat \ {0} /\ k \in 0 .. n /\ k # 0
    BY <1>1, <1>3, <2>1 DEF EmplaceEachFrontRun
  <2>4. Exact(g[k]) /\ Contents(g[k]) = <<x>> \o Contents(g[j]) /\ g[k].touched = TRUE
    BY <2>2, <2>3, EmplaceFrontExact
  <2>5. Prepended(Contents(g[k]), s, x, k)
    BY <2>1, <2>2, <2>3, <2>4, PrependedStep
  <2> QED BY <2>3, <2>4, <2>5
<1>7. n \in T
  <2> HIDE DEF T
  <2> QED BY <1>5, <1>6, BoundedInduction
<1>8. g[n] = r
  BY <1>3 DEF EmplaceEachFrontRun
<1>9. Contents(r) = Copies(n, x) \o s
  BY <1>7, <1>8, PrependedAll
<1> QED BY <1>4, <1>7, <1>8, <1>9 DEF Joined

\* ClearRetainCapacity leaves no element.
LEMMA ClearRetainExact ==
  ASSUME NEW d, Exact(d), NEW r, r = ClearRetainCapacity(d)
  PROVE  Exact(r) /\ Contents(r) = <<>> /\ r.touched = TRUE
<1> DEFINE s == ToSet(Slots(d, d.begin, d.end))
           n == Cap(d)
           new == [i \in DOMAIN d.buf |-> IF i \in s THEN Raw ELSE d.buf[i]]
<1>1. s = {i \in DOMAIN d.buf : d.buf[i] # Raw}
  BY ExactSlots
<1>2. d.ub = FALSE
  BY DEF Exact, DequeType
<1>3. PICK q : q = [d EXCEPT !.buf = new, !.ub = FALSE]
  OBVIOUS
<1>4. DestructRange(d, d.begin, d.end) = q
  <2>1. (d.ub \/ \E i \in s : d.buf[i] = Raw) = FALSE
    BY <1>1, <1>2
  <2> QED BY <1>3, <2>1 DEF DestructRange
<1>5. n \in Nat /\ d.buf \in [0 .. (n - 1) -> Values \cup {Raw}]
  BY ExactRing DEF Ring
<1>6. new = [i \in 0 .. (n - 1) |-> Raw]
  BY <1>1, <1>5
<1>7. Ring(new, n, 0, 0) /\ Elems(new, n, 0, 0) = <<>>
  <2> HIDE DEF new, n
  <2>1. 0 \in Nat /\ (n = 0 \/ 0 < n)
    BY <1>5
  <2> QED BY <1>5, <1>6, <2>1, RingEmpty
<1>8. new \in Buffers
  <2> HIDE DEF new, n
  <2> QED BY <1>5, <1>7, BufferOf DEF Ring
<1> HIDE DEF new, s, n
<1>9. PICK h : h = [q EXCEPT !.begin = 0, !.end = 0]
  OBVIOUS
<1>10. r = [h EXCEPT !.touched = TRUE]
  BY <1>4, <1>9 DEF ClearRetainCapacity, IncrementGeneration
<1>11. d.begin \in Nat /\ 0 \in Nat
  BY PartsOfExact
<1>12. Parts(q, new, d.begin, d.end)
  BY <1>3, <1>8, <1>11, PartsOfExact, AssignBuffer
<1>13. Parts(h, new, 0, 0)
  BY <1>9, <1>11, <1>12, AssignEnds
<1>14. Parts(r, new, 0, 0) /\ r.touched = TRUE
  BY <1>10, <1>11, <1>13, AssignTouched
<1> QED BY <1>7, <1>14, PartsExact

\* The empty sequence adds nothing.
LEMMA EmptyBefore ==
  ASSUME NEW xs \in Seq(Values)
  PROVE  <<>> \o xs = xs
OBVIOUS

\* assign of a range leaves that range.
LEMMA AssignRangeExact ==
  ASSUME NEW d, Exact(d), NEW xs \in Seq(Values), NEW r, r = AssignRange(d, xs)
  PROVE  Exact(r) /\ Contents(r) = xs /\ r.touched = TRUE
<1>1. PICK e : e = Reserve(d, Len(xs))
  OBVIOUS
<1>2. Exact(e)
  <2>1. Len(xs) \in Nat
    OBVIOUS
  <2> QED BY <1>1, <2>1, ReserveExact
<1>3. PICK f : f = ClearRetainCapacity(e)
  OBVIOUS
<1>4. Exact(f) /\ Contents(f) = <<>>
  BY <1>2, <1>3, ClearRetainExact
<1>5. PICK g : g = EmplaceEach(f, xs)
  OBVIOUS
<1>6. Exact(g) /\ Contents(g) = xs
  BY <1>4, <1>5, EmplaceEachExact, EmptyBefore
<1>7. r = IncrementGeneration(g)
  BY <1>1, <1>3, <1>5 DEF AssignRange
<1> QED BY <1>6, <1>7, GenerationExact

\* assign of n copies leaves these.
LEMMA AssignCopiesExact ==
  ASSUME NEW d, Exact(d), NEW n \in Nat, NEW x \in Values, NEW r, r = AssignCopies(d, n, x)
  PROVE  Exact(r) /\ Contents(r) = Copies(n, x) /\ r.touched = TRUE
<1>1. PICK e : e = ClearRetainCapacity(d)
  OBVIOUS
<1>2. Exact(e) /\ Contents(e) = <<>>
  BY <1>1, ClearRetainExact
<1>3. PICK f : f = Reserve(e, n)
  OBVIOUS
<1>4. Exact(f) /\ Contents(f) = <<>>
  BY <1>2, <1>3, ReserveExact
<1>5. PICK xs \in Seq(Values) : xs = Copies(n, x)
  BY CopiesAre
<1>6. PICK g : g = EmplaceEach(f, xs)
  OBVIOUS
<1>7. Exact(g) /\ Contents(g) = xs
  BY <1>4, <1>6, EmplaceEachExact, EmptyBefore
<1>8. r = IncrementGeneration(g)
  BY <1>1, <1>3, <1>5, <1>6 DEF AssignCopies
<1> QED BY <1>5, <1>7, <1>8, GenerationExact

\* A deque without elements.
LEMMA DequeOf ==
  ASSUME NEW buf \in Buffers, NEW b \in Nat, NEW no \in BOOLEAN,
         NEW r, r = [buf |-> buf, begin |-> b, end |-> b, touched |-> no, moved |-> no, ub |-> no]
  PROVE  r \in DequeType
BY DEF DequeType

\* A deque that was just constructed is empty.
LEMMA EmptyExact ==
  ASSUME NEW n \in Nat, NEW buf, buf = RawBuffer(n), NEW r, r = [EmptyDeque EXCEPT !.buf = buf]
  PROVE  Exact(r) /\ Contents(r) = <<>> /\ r.touched = FALSE
<1>1. Ring(buf, n, 0, 0) /\ Elems(buf, n, 0, 0) = <<>>
  <2>1. 0 \in Nat /\ (n = 0 \/ 0 < n)
    OBVIOUS
  <2> QED BY <2>1, RingEmpty DEF RawBuffer
<1>2. buf \in Buffers
  BY <1>1, BufferOf DEF Ring
<1>3. Parts(r, buf, 0, 0) /\ r.touched = FALSE
  <2>1. r = [buf |-> buf, begin |-> 0, end |-> 0, touched |-> FALSE, moved |-> FALSE, ub |-> FALSE]
    BY DEF EmptyDeque
  <2>2. PICK no \in BOOLEAN : no = FALSE
    OBVIOUS
  <2>3. r = [buf |-> buf, begin |-> 0, end |-> 0, touched |-> no, moved |-> no, ub |-> no]
    BY <2>1, <2>2
  <2>4. r \in DequeType
    <3>1. 0 \in Nat
      OBVIOUS
    <3> QED BY <1>2, <2>2, <2>3, <3>1, DequeOf
  <2>5. r.buf = buf /\ r.begin = 0 /\ r.end = 0 /\ r.touched = FALSE /\ ~r.ub
    BY <2>1
  <2> QED BY <2>4, <2>5 DEF Parts
<1> QED BY <1>1, <1>3, PartsExact

\* Move assignment leaves the elements of the other deque.
LEMMA MoveAssignExact ==
  ASSUME NEW d, Exact(d), NEW xs \in Seq(Values), NEW r, r = MoveAssign(d, xs)
  PROVE  Exact(r) /\ Contents(r) = xs /\ r.touched = TRUE
<1>1. PICK other : other = CopyOf(xs)
  OBVIOUS
<1>2. Exact(other) /\ Contents(other) = xs
  <2>1. PICK n \in Nat : n = Len(xs) + 1
    OBVIOUS
  <2>2. PICK buf : buf = RawBuffer(n)
    OBVIOUS
  <2>3. PICK e : e = [EmptyDeque EXCEPT !.buf = buf]
    OBVIOUS
  <2>4. Exact(e)
    BY <2>2, <2>3, EmptyExact
  <2>5. other = AssignRange(e, xs)
    BY <1>1, <2>1, <2>2, <2>3 DEF CopyOf
  <2> QED BY <2>4, <2>5, AssignRangeExact
<1>3. PICK e : e = ClearRetainCapacity(d)
  OBVIOUS
<1>4. Exact(e)
  BY <1>3, ClearRetainExact
<1>5. PICK f : f = [e EXCEPT !.buf = other.buf, !.begin = other.begin, !.end = other.end, !.moved = TRUE]
  OBVIOUS
<1>6. Parts(f, other.buf, other.begin, other.end)
  <2>1. e \in DequeType /\ ~e.ub /\ other.buf \in Buffers /\ other.begin \in Nat /\ other.end \in Nat
    BY <1>2, <1>4 DEF Exact, DequeType
  <2>2. /\ f \in DequeType /\ f.ub = e.ub
        /\ f.buf = other.buf /\ f.begin = other.begin /\ f.end = other.end
    BY <1>5, <2>1 DEF DequeType
  <2> QED BY <2>1, <2>2 DEF Parts
<1>7. r = IncrementGeneration(f)
  BY <1>1, <1>3, <1>5 DEF MoveAssign
<1>8. /\ Ring(other.buf, Cap(other), other.begin, other.end)
      /\ Contents(other) = Elems(other.buf, Cap(other), other.begin, other.end)
  BY <1>2, ExactRing, ContentsAre
<1>9. Exact(f) /\ Contents(f) = xs
  BY <1>2, <1>6, <1>8, PartsExact
<1> QED BY <1>7, <1>9, GenerationExact

-----------------------------------------------------------------------------
(* Insertion and erasure                                                   *)

\* t is s, with xs in the place of the elements from p up to q.
Spliced(t, s, p, xs, q) ==
  /\ t \in Seq(Values) /\ Len(t) = Len(s) - (q - p) + Len(xs)
  /\ \A i \in 1 .. p : t[i] = s[i]
  /\ \A i \in 1 .. Len(xs) : t[p + i] = xs[i]
  /\ \A i \in 1 .. (Len(s) - q) : t[p + Len(xs) + i] = s[q + i]

\* The parts of a sequence before and after a position.
LEMMA Parted ==
  ASSUME NEW s \in Seq(Values), NEW p \in 0 .. Len(s)
  PROVE  /\ SubSeq(s, 1, p) \in Seq(Values) /\ Len(SubSeq(s, 1, p)) = p
         /\ \A i \in 1 .. p : SubSeq(s, 1, p)[i] = s[i]
         /\ SubSeq(s, p + 1, Len(s)) \in Seq(Values) /\ Len(SubSeq(s, p + 1, Len(s))) = Len(s) - p
         /\ \A i \in 1 .. (Len(s) - p) : SubSeq(s, p + 1, Len(s))[i] = s[p + i]
<1>1. /\ SubSeq(s, 1, p) \in Seq(Values) /\ Len(SubSeq(s, 1, p)) = p
      /\ \A i \in 1 .. p : SubSeq(s, 1, p)[i] = s[i]
  OBVIOUS
<1>2. /\ SubSeq(s, p + 1, Len(s)) \in Seq(Values) /\ Len(SubSeq(s, p + 1, Len(s))) = Len(s) - p
      /\ \A i \in 1 .. (Len(s) - p) : SubSeq(s, p + 1, Len(s))[i] = s[p + i]
  OBVIOUS
<1> QED BY <1>1, <1>2

\* A splice is what the abstract deque writes with SubSeq.
LEMMA SplicedIs ==
  ASSUME NEW s \in Seq(Values), NEW p \in 0 .. Len(s), NEW q \in 0 .. Len(s), p <= q,
         NEW xs \in Seq(Values), NEW t, Spliced(t, s, p, xs, q)
  PROVE  t = SubSeq(s, 1, p) \o xs \o SubSeq(s, q + 1, Len(s))
<1>1. PICK a \in Seq(Values) : a = SubSeq(s, 1, p) /\ Len(a) = p /\ \A i \in 1 .. p : a[i] = s[i]
  BY Parted
<1>2. PICK z \in Seq(Values) :
        z = SubSeq(s, q + 1, Len(s)) /\ Len(z) = Len(s) - q /\ \A i \in 1 .. (Len(s) - q) : z[i] = s[q + i]
  BY Parted
<1>3. PICK n \in Nat, m \in Nat, l \in Nat : n = Len(s) /\ m = Len(xs) /\ l = n - q
  <2>1. Len(s) \in Nat /\ Len(xs) \in Nat /\ Len(s) - q \in Nat
    OBVIOUS
  <2> QED BY <2>1
<1>4. PICK u \in Seq(Values) : u = a \o xs /\ Len(u) = p + m
                               /\ (\A i \in 1 .. p : u[i] = a[i]) /\ \A i \in 1 .. m : u[p + i] = xs[i]
  <2>1. /\ a \o xs \in Seq(Values) /\ Len(a \o xs) = Len(a) + Len(xs)
        /\ \A i \in 1 .. Len(a) : (a \o xs)[i] = a[i]
        /\ \A i \in 1 .. Len(xs) : (a \o xs)[Len(a) + i] = xs[i]
    OBVIOUS
  <2>2. Len(a) = p /\ Len(xs) = m
    BY <1>1, <1>3
  <2>3. /\ Len(a \o xs) = p + m /\ \A i \in 1 .. p : (a \o xs)[i] = a[i]
        /\ \A i \in 1 .. m : (a \o xs)[p + i] = xs[i]
    BY <2>1, <2>2
  <2> QED BY <2>1, <2>3
<1>5. PICK w \in Seq(Values) : w = u \o z /\ Len(w) = p + m + l
                               /\ (\A i \in 1 .. (p + m) : w[i] = u[i]) /\ \A i \in 1 .. l : w[p + m + i] = z[i]
  <2>1. /\ u \o z \in Seq(Values) /\ Len(u \o z) = Len(u) + Len(z)
        /\ \A i \in 1 .. Len(u) : (u \o z)[i] = u[i]
        /\ \A i \in 1 .. Len(z) : (u \o z)[Len(u) + i] = z[i]
    OBVIOUS
  <2>2. Len(u) = p + m /\ Len(z) = l
    BY <1>2, <1>3, <1>4
  <2>3. /\ Len(u \o z) = p + m + l /\ \A i \in 1 .. (p + m) : (u \o z)[i] = u[i]
        /\ \A i \in 1 .. l : (u \o z)[p + m + i] = z[i]
    BY <2>1, <2>2
  <2> QED BY <2>1, <2>3
<1>6. /\ t \in Seq(Values) /\ Len(t) = Len(w)
      /\ \A i \in 1 .. p : t[i] = s[i]
      /\ \A i \in 1 .. m : t[p + i] = xs[i]
      /\ \A i \in 1 .. l : t[p + m + i] = s[q + i]
  <2>1. n - (q - p) + m = p + m + l
    BY <1>3
  <2> QED BY <1>3, <1>5, <2>1 DEF Spliced
<1>7. ASSUME NEW i \in 1 .. Len(w) PROVE t[i] = w[i]
  <2>1. CASE i <= p
    <3>1. i \in 1 .. p /\ i \in 1 .. (p + m)
      BY <1>3, <2>1
    <3> QED BY <1>1, <1>4, <1>5, <1>6, <3>1
  <2>2. CASE ~(i <= p) /\ i <= p + m
    <3>1. PICK k \in 1 .. m : i = p + k
      <4>1. i - p \in 1 .. m /\ i = p + (i - p)
        BY <1>3, <1>5, <2>2
      <4> QED BY <4>1
    <3>2. i \in 1 .. (p + m)
      BY <1>3, <2>2
    <3> QED BY <1>4, <1>5, <1>6, <3>1, <3>2
  <2>3. CASE ~(i <= p + m)
    <3>1. PICK k \in 1 .. l : i = p + m + k
      <4>1. i - (p + m) \in 1 .. l /\ i = p + m + (i - (p + m))
        BY <1>3, <1>5, <2>3
      <4> QED BY <4>1
    <3> QED BY ZenonT(20), <1>2, <1>3, <1>5, <1>6, <3>1
  <2> QED BY <2>1, <2>2, <2>3
<1>8. t = w
  BY <1>5, <1>6, <1>7, SameElements
<1> QED BY <1>1, <1>2, <1>4, <1>5, <1>8

\* The index of a position and back.
LEMMA OffsetIs ==
  ASSUME NEW d, Exact(d), NEW p \in 0 .. Size(d), NEW i, i = Place(Cap(d), d.begin, p)
  PROVE  /\ OffsetFromBegin(d, i) = p
         /\ i = d.begin <=> p = 0
         /\ i = d.end <=> p = Size(d)
         /\ i \in Nat
<1>1. PICK n \in Nat, b \in Nat, e \in Nat : n = Cap(d) /\ b = d.begin /\ e = d.end
  BY ExactRing DEF Ring
<1>2. (IF n = 0 THEN b = e ELSE b < n /\ e < n) /\ Size(d) = Count(n, b, e) /\ p \in Nat
  BY <1>1, ExactRing, ContentsAre DEF Ring
<1>3. p <= Count(n, b, e)
  BY <1>1, <1>2, ExactContents
<1>4. OffsetFromBegin(d, i) = IF i >= b THEN i - b ELSE n - b + i
  BY <1>1 DEF OffsetFromBegin
<1>5. PICK c \in Nat : c = Size(d) /\ p <= c
  BY ExactContents
<1>6. /\ (IF i >= b THEN i - b ELSE n - b + i) = p
      /\ i = b <=> p = 0
      /\ i = e <=> p = c
      /\ i \in Nat
  <2>1. i = (IF b + p < n THEN b + p ELSE b + p - n) /\ c = IF b <= e THEN e - b ELSE n - b + e
    BY <1>1, <1>2, <1>5 DEF Place, Count
  <2>2. CASE n = 0
    <3>1. c = 0 /\ p = 0 /\ i = b /\ b = e
      BY <1>2, <1>5, <2>1, <2>2
    <3> QED BY <3>1
  <2>3. CASE n # 0
    BY <1>2, <1>5, <2>1, <2>3
  <2> QED BY <2>2, <2>3
<1> QED BY <1>1, <1>4, <1>5, <1>6

\* What a deque with a buffer is.
LEMMA LaidOut ==
  ASSUME NEW d, Exact(d), NEW n, n = Cap(d), n > 0
  PROVE  n \in Nat \ {0} /\ d.begin \in Nat /\ d.begin < n /\ Size(d) \in 0 .. (n - 1)
         /\ d.end = Place(n, d.begin, Size(d))
<1>1. PICK c : c = Size(d)
  OBVIOUS
<1>2. PICK v : Linear(d, n, d.begin, v) /\ c \in 0 .. (n - 1) /\ d.end = Place(n, d.begin, c)
  BY <1>1, LinearOf
<1> QED BY <1>1, <1>2, LinearRoom

\* The elements from position p on are destroyed.
LEMMA TruncateExact ==
  ASSUME NEW d, Exact(d), NEW n, n = Cap(d), n > 0, NEW p \in 0 .. Size(d),
         NEW i, i = Place(n, d.begin, p), NEW q, q = DestructRange(d, i, d.end),
         NEW r, r = [q EXCEPT !.end = i]
  PROVE  Exact(r) /\ Spliced(Contents(r), Contents(d), p, <<>>, Size(d)) /\ r.touched = d.touched
<1>1. PICK c, b, s : c = Size(d) /\ b = d.begin /\ s = Contents(d)
  OBVIOUS
<1>2. PICK v : /\ Linear(d, n, b, v)
               /\ c \in 0 .. (n - 1) /\ d.end = Place(n, b, c)
               /\ \A o \in 0 .. (n - 1) : v[o] # Raw <=> o < c
               /\ s \in Seq(Values) /\ Len(s) = c
               /\ \A k \in 1 .. c : s[k] = v[k - 1]
  BY <1>1, LinearOf
<1>3. n \in Nat \ {0} /\ b \in Nat /\ b < n /\ v \in [0 .. (n - 1) -> Slot] /\ p \in 0 .. c
  BY <1>1, <1>2, LinearRoom
<1>4. PICK w : w = [o \in 0 .. (n - 1) |-> IF p <= o /\ o < c THEN Raw ELSE v[o]]
  OBVIOUS
<1>5. Linear(q, n, b, w) /\ SameMembers(q, d)
  <2>1. p \in 0 .. (n - 1) /\ p <= c
    BY <1>2, <1>3
  <2>2. \A o \in p .. (c - 1) : v[o] # Raw
    BY <1>2, <1>3
  <2> QED BY <1>1, <1>2, <1>4, <2>1, <2>2, LinearDestruct
<1>6. i \in Nat /\ p \in 0 .. (n - 1)
  <2>1. p \in 0 .. (n - 1)
    BY <1>2, <1>3
  <2> QED BY <1>1, <1>3, <2>1, PlaceIn
<1>7. /\ r \in DequeType /\ ~r.ub /\ r.buf = q.buf /\ r.begin = b /\ r.end = i /\ r.touched = d.touched
  <2>1. q \in DequeType /\ ~q.ub /\ q.begin = b /\ q.touched = d.touched
    BY <1>1, <1>5 DEF Linear, SameMembers
  <2> QED BY <1>6, <2>1 DEF DequeType
<1>8. Linear(r, n, b, w)
  BY <1>5, <1>7, LinearSame
<1>9. \A o \in 0 .. (n - 1) : w[o] # Raw <=> o < p
  BY <1>2, <1>3, <1>4
<1>10. /\ Exact(r) /\ Contents(r) \in Seq(Values) /\ Len(Contents(r)) = p
       /\ \A k \in 1 .. p : Contents(r)[k] = w[k - 1]
  <2>1. Linear(r, n, r.begin, w) /\ r.end = Place(n, r.begin, p)
    BY <1>1, <1>7, <1>8
  <2>2. p \in 0 .. (n - 1)
    BY <1>6
  <2> HIDE <1>1, <1>2
  <2> QED BY ONLY <1>9, <2>1, <2>2, LinearExact
<1>11. \A k \in 1 .. p : Contents(r)[k] = s[k]
  <2> TAKE k \in 1 .. p
  <2>1. k - 1 \in 0 .. (n - 1) /\ k - 1 < p /\ k \in 1 .. c
    BY <1>2, <1>3
  <2>2. w[k - 1] = v[k - 1]
    BY <1>3, <1>4, <2>1
  <2> QED BY <1>2, <1>10, <2>1, <2>2
<1>12. Spliced(Contents(r), s, p, <<>>, c)
  <2>1. Len(<<>>) = 0 /\ p = c - (c - p) + 0 /\ 1 .. 0 = {} /\ 1 .. (c - c) = {}
    BY <1>2, <1>3
  <2> QED BY <1>2, <1>10, <1>11, <2>1 DEF Spliced
<1> QED BY <1>1, <1>7, <1>10, <1>12

\* The first n of s, or s and copies of x.
Resized(s, n, x) == IF n <= Len(s) THEN SubSeq(s, 1, n) ELSE s \o Copies(n - Len(s), x)
\* What an operation leaves that modified the deque to one of the elements t.
Becomes(r, t) == Exact(r) /\ Contents(r) = t /\ r.touched = TRUE
\* resize truncates, or appends copies.
LEMMA ResizeExact ==
  ASSUME NEW d, Exact(d), NEW n \in Nat, NEW x \in Values, NEW r, r = Resize(d, n, x),
         NEW s, s = Contents(d)
  PROVE  Becomes(r, Resized(s, n, x))
<1>1. PICK c \in Nat : c = Size(d) /\ s \in Seq(Values) /\ Len(s) = c
  BY ExactContents
<1>2. CASE n > c
  <2>1. PICK m \in Nat : m = n - c
    BY <1>2
  <2>2. PICK e : e = ExpandCapacityIfNecessary(d, m)
    OBVIOUS
  <2>3. Exact(e) /\ Contents(e) = s
    BY <2>2, ExpandExact
  <2>4. PICK xs \in Seq(Values) : xs = Copies(m, x)
    BY CopiesAre
  <2>5. PICK g : g = EmplaceEach(e, xs)
    OBVIOUS
  <2>6. Exact(g) /\ Contents(g) = s \o xs
    BY <2>3, <2>5, EmplaceEachExact
  <2>7. r = IncrementGeneration(g)
    BY <1>1, <1>2, <2>1, <2>2, <2>4, <2>5 DEF Resize
  <2>8. ~(n <= Len(s)) /\ n - Len(s) = m
    BY <1>1, <1>2, <2>1
  <2> QED BY <2>4, <2>6, <2>7, <2>8, GenerationExact DEF Resized, Becomes
<1>3. CASE n < c
  <2>1. PICK k : k = Cap(d)
    OBVIOUS
  <2>2. k > 0 /\ n \in 0 .. Size(d) /\ k \in Nat \ {0} /\ d.begin \in Nat /\ d.begin < k /\ n \in 0 .. (k - 1)
    <3>1. k \in Nat /\ Size(d) \in Nat /\ (k = 0 => Size(d) = 0)
      BY <2>1, ExactRing, ContentsAre DEF Ring, Count
    <3>2. k > 0
      BY <1>1, <1>3, <3>1
    <3> QED BY <1>1, <1>3, <2>1, <3>2, LaidOut
  <2>3. PICK i : i = Place(k, d.begin, n)
    OBVIOUS
  <2>4. (d.begin + n) % k = i
    <3>1. PICK t \in Nat : t = d.begin + n
      BY <2>2
    <3> QED BY <2>2, <2>3, <3>1, PlaceMod
  <2>5. PICK q : q = DestructRange(d, i, d.end)
    OBVIOUS
  <2>6. PICK e : e = [q EXCEPT !.end = i]
    OBVIOUS
  <2>7. Exact(e) /\ Spliced(Contents(e), s, n, <<>>, c)
    BY <1>1, <2>1, <2>2, <2>3, <2>5, <2>6, TruncateExact
  <2>8. r = IncrementGeneration(ShrinkCapacityIfNecessary(e))
    <3>1. ~(n > Size(d)) /\ n < Size(d)
      BY <1>1, <1>3
    <3> QED BY <2>1, <2>4, <2>5, <2>6, <3>1 DEF Resize
  <2>9. Contents(e) = SubSeq(s, 1, n)
    <3>1. Len(<<>>) = 0 /\ n = c - (c - n) + 0
      BY <1>1
    <3>2. Contents(e) \in Seq(Values) /\ Len(Contents(e)) = n /\ \A k1 \in 1 .. n : Contents(e)[k1] = s[k1]
      BY <1>1, <2>7, <3>1 DEF Spliced
    <3>3. n \in 0 .. Len(s)
      BY <1>1, <1>3
    <3>4. /\ SubSeq(s, 1, n) \in Seq(Values) /\ Len(SubSeq(s, 1, n)) = n
          /\ \A k1 \in 1 .. n : SubSeq(s, 1, n)[k1] = s[k1]
      BY <1>1, <3>3, Parted
    <3> QED BY <3>2, <3>4, SameElements
  <2>10. n <= Len(s)
    BY <1>1, <1>3
  <2> QED BY <2>7, <2>8, <2>9, <2>10, ShrinkExact, GenerationExact DEF Resized, Becomes
<1>4. CASE n = c
  <2>1. r = IncrementGeneration(d)
    <3>1. ~(n > Size(d)) /\ ~(n < Size(d))
      BY <1>1, <1>4
    <3> QED BY <3>1 DEF Resize
  <2>2. SubSeq(s, 1, n) = s /\ n <= Len(s)
    BY <1>1, <1>4
  <2> QED BY <2>1, <2>2, GenerationExact DEF Resized, Becomes
<1>5. n > c \/ n < c \/ n = c
  BY <1>1
<1> QED BY <1>2, <1>3, <1>4, <1>5

-----------------------------------------------------------------------------
(* Room for an insertion                                                   *)
\* A slot, modulo the size of the buffer.
LEMMA PlaceOf ==
  ASSUME NEW n \in Nat \ {0}, NEW b \in Nat, b < n, NEW q \in 0 .. (n - 1)
  PROVE  (b + q) % n = Place(n, b, q)
<1>1. PICK t \in Nat : t = b + q
  OBVIOUS
<1>2. t % n = Place(n, b, q)
  BY <1>1, PlaceMod
<1> QED BY <1>1, <1>2

\* The indices that MakeRoomFor computes.
RoomAt(n, b, c, m, z, e, last) ==
  /\ n \in Nat \ {0} /\ b \in Nat /\ b < n /\ c \in Nat /\ m \in Nat /\ c + m < n
  /\ z = c + m /\ e = Place(n, b, c) /\ last = (e + m) % n
\* The c slots before e, counted from z elements after b.
Behind(n, b, c, e, z) == \A k \in 1 .. c : (e + n - k) % n = Place(n, b, z - k)
\* They are slots of the ring, whichever way it wraps.
LEMMA RoomPlaces ==
  ASSUME NEW n \in Nat \ {0}, NEW b \in Nat, NEW c \in Nat, NEW m \in Nat \ {0}, NEW z \in Nat,
         NEW e, NEW last, RoomAt(n, b, c, m, z, e, last)
  PROVE  /\ last = Place(n, b, z) /\ last \in 0 .. (n - 1)
         /\ Behind(n, b, c, e, c) /\ Behind(n, b, c, last, z)
<1>0. /\ n \in Nat \ {0} /\ b \in Nat /\ b < n /\ c \in Nat /\ m \in Nat /\ c + m < n
      /\ z = c + m /\ e = Place(n, b, c) /\ last = (e + m) % n
  BY DEF RoomAt
<1>1. e \in Nat /\ (e = b + c \/ e = b + c - n)
  BY <1>0 DEF Place
<1>2. last = Place(n, b, z)
  <2>1. PICK t \in Nat : t = e + m
    BY <1>0, <1>1
  <2>2. PICK q \in 0 .. (n - 1) : q = z
    BY <1>0
  <2>3. t = b + q \/ t = b + q - n
    BY <1>0, <1>1, <2>1, <2>2
  <2> QED BY <1>0, <2>1, <2>2, <2>3, PlaceMod
<1>3. last \in Nat /\ (last = b + (z) \/ last = b + (z) - n)
  BY <1>0, <1>2 DEF Place
<1>4. last \in 0 .. (n - 1)
  BY <1>0, <1>2 DEF Place
<1>5. ASSUME NEW k \in 1 .. c
      PROVE  (e + n - k) % n = Place(n, b, c - k) /\ (last + n - k) % n = Place(n, b, z - k)
  <2>1. PICK t \in Nat : t = e + n - k
    BY <1>0, <1>1
  <2>2. PICK q \in 0 .. (n - 1) : q = c - k
    BY <1>0
  <2>3. t = b + q \/ t = b + q - n \/ t = b + q + n
    BY <1>0, <1>1, <2>1, <2>2
  <2>4. t % n = Place(n, b, q)
    BY <1>0, <2>3, PlaceMod
  <2>5. PICK y \in Nat : y = last + n - k
    BY <1>0, <1>3
  <2>6. PICK g \in 0 .. (n - 1) : g = z - k
    BY <1>0
  <2>7. y = b + g \/ y = b + g - n \/ y = b + g + n
    BY <1>0, <1>3, <2>5, <2>6
  <2>8. y % n = Place(n, b, g)
    BY <1>0, <2>7, PlaceMod
  <2> QED BY <1>0, <2>1, <2>2, <2>4, <2>5, <2>6, <2>8
<1> QED BY <1>2, <1>4, <1>5 DEF Behind

\* xs in the hole that was made for it.
Holds(n, v, c) == \A o \in 0 .. (n - 1) : v[o] # Raw <=> o < c
\* w has at offset p on what s has after its first q elements, k of them.
IsAt(w, s, p, q, k) == \A j \in 1 .. k : w[p + j - 1] = s[q + j]
\* The elements, with xs in the hole.
LEMMA RoomFilled ==
  ASSUME NEW n \in Nat \ {0}, NEW v \in [0 .. (n - 1) -> Slot], NEW c \in Nat, NEW m \in Nat \ {0}, c + m < n,
         Holds(n, v, c), NEW s, IsAt(v, s, 0, 0, c), NEW p \in 0 .. c, NEW xs \in [1 .. m -> Values],
         NEW u, u = Opened(n, v, c, m, p), NEW w, w = Filled(n, u, p, xs, m)
  PROVE  /\ Holds(n, w, c + m)
         /\ IsAt(w, s, 0, 0, p) /\ IsAt(w, xs, p, 0, m) /\ IsAt(w, s, p + m, p, c - p)
<1>k. PICK k \in Nat : k = c + m
  OBVIOUS
<1>0. /\ \A o \in 0 .. (n - 1) : v[o] # Raw <=> o < c
      /\ \A j \in 1 .. c : s[j] = v[j - 1]
  <2>1. \A j \in 1 .. c : v[0 + j - 1] = s[0 + j] /\ 0 + j - 1 = j - 1 /\ 0 + j = j
    BY DEF IsAt
  <2>2. \A j \in 1 .. c : s[j] = v[j - 1]
    BY <2>1
  <2> QED BY <2>2 DEF Holds
<1>1. ASSUME NEW o \in 0 .. (n - 1), o < p PROVE w[o] = v[o]
  BY <1>k, <1>1 DEF Opened, Filled
<1>2. ASSUME NEW o \in 0 .. (n - 1), p <= o /\ o < p + m PROVE w[o] = xs[o - p + 1]
  BY <1>k, <1>2 DEF Filled
<1>3. ASSUME NEW o \in 0 .. (n - 1), p + m <= o /\ o < k PROVE w[o] = v[o - m]
  BY <1>k, <1>3 DEF Opened, Filled
<1>4. ASSUME NEW o \in 0 .. (n - 1), k <= o PROVE w[o] = Raw
  BY <1>k, <1>4 DEF Opened, Filled
<1>5. ASSUME NEW o \in 0 .. (n - 1) PROVE w[o] # Raw <=> o < k
  <2>1. CASE o < p
    <3>1. o < c /\ o < k
      BY <1>k, <2>1
    <3> QED BY <1>0, <1>1, <2>1, <3>1
  <2>2. CASE p <= o /\ o < p + m
    <3>1. o - p + 1 \in 1 .. m /\ o < k
      BY <1>k, <2>2
    <3>2. xs[o - p + 1] # Raw
      BY <3>1, DequeAssumption
    <3> QED BY <1>2, <2>2, <3>1, <3>2
  <2>3. CASE p + m <= o /\ o < k
    <3>1. PICK x \in 0 .. (n - 1) : x = o - m /\ x < c
      <4>1. o - m \in 0 .. (n - 1) /\ o - m < c
        BY <1>k, <2>3
      <4> QED BY <4>1
    <3>2. v[x] # Raw
      BY <1>0, <3>1
    <3> QED BY <1>3, <2>3, <3>1, <3>2
  <2>4. CASE k <= o
    <3>1. ~(o < k)
      BY <1>k, <2>4
    <3> QED BY <1>4, <2>4, <3>1
  <2>5. o < p \/ (p <= o /\ o < p + m) \/ (p + m <= o /\ o < k) \/ k <= o
    BY <1>k
  <2> QED BY <2>1, <2>2, <2>3, <2>4, <2>5
<1>6. ASSUME NEW j \in 1 .. p PROVE w[j - 1] = s[j]
  <2>1. j \in 1 .. c /\ j - 1 \in 0 .. (n - 1) /\ j - 1 < p
    OBVIOUS
  <2> QED BY <1>0, <1>1, <2>1
<1>7. ASSUME NEW j \in 1 .. m PROVE w[p + j - 1] = xs[j]
  <2>1. PICK o \in 0 .. (n - 1) : o = p + j - 1
    <3>1. p + j - 1 \in 0 .. (n - 1)
      OBVIOUS
    <3> QED BY <3>1
  <2>2. p <= o /\ o < p + m /\ o - p + 1 = j
    BY <2>1
  <2>3. w[o] = xs[o - p + 1]
    BY <1>2, <2>2
  <2> QED BY <2>1, <2>2, <2>3
<1>8. ASSUME NEW j \in 1 .. (c - p) PROVE w[p + m + j - 1] = s[p + j]
  <2>1. PICK o \in 0 .. (n - 1), x \in 1 .. c : o = p + m + j - 1 /\ x = p + j
    <3>1. p + m + j - 1 \in 0 .. (n - 1) /\ p + j \in 1 .. c
      OBVIOUS
    <3> QED BY <3>1
  <2>2. p + m <= o /\ o < k /\ o - m = x - 1
    BY <1>k, <2>1
  <2>3. w[o] = v[o - m]
    BY <1>3, <2>2
  <2> QED BY <1>0, <2>1, <2>2, <2>3
<1>9. Holds(n, w, k)
  BY <1>5 DEF Holds
<1>10. IsAt(w, s, 0, 0, p)
  <2>1. \A j \in 1 .. p : 0 + j - 1 = j - 1 /\ 0 + j = j
    OBVIOUS
  <2> QED BY <1>6, <2>1 DEF IsAt
<1>11. IsAt(w, xs, p, 0, m)
  <2>1. \A j \in 1 .. m : 0 + j = j
    OBVIOUS
  <2> QED BY <1>7, <2>1 DEF IsAt
<1>12. IsAt(w, s, p + m, p, c - p)
  BY <1>8 DEF IsAt
<1> QED BY <1>k, <1>9, <1>10, <1>11, <1>12

\* A splice, from what is at the offsets.
LEMMA SplicedOf ==
  ASSUME NEW t \in Seq(Values), NEW k, Len(t) = k, NEW w, IsAt(w, t, 0, 0, k),
         NEW s \in Seq(Values), NEW c \in Nat, Len(s) = c, NEW xs \in Seq(Values), NEW m \in Nat, m = Len(xs),
         NEW p \in 0 .. c, NEW q \in 0 .. c, p <= q, k = c - (q - p) + m,
         IsAt(w, s, 0, 0, p), IsAt(w, xs, p, 0, m), IsAt(w, s, p + m, q, c - q)
  PROVE  Spliced(t, s, p, xs, q)
<1>0. k \in Nat
  OBVIOUS
<1>t. ASSUME NEW i \in 1 .. k PROVE t[i] = w[i - 1]
  <2>1. w[0 + i - 1] = t[0 + i]
    BY DEF IsAt
  <2>2. 0 + i - 1 = i - 1 /\ 0 + i = i
    OBVIOUS
  <2> QED BY <2>1, <2>2
<1>1. ASSUME NEW j \in 1 .. p PROVE t[j] = s[j]
  <2>1. j \in 1 .. k /\ 0 + j - 1 = j - 1 /\ 0 + j = j
    OBVIOUS
  <2>2. w[0 + j - 1] = s[0 + j]
    BY DEF IsAt
  <2> QED BY <1>t, <2>1, <2>2
<1>2. ASSUME NEW j \in 1 .. m PROVE t[p + j] = xs[j]
  <2>1. PICK i \in 1 .. k : i = p + j
    <3>1. p + j \in 1 .. k
      OBVIOUS
    <3> QED BY <3>1
  <2>2. i - 1 = p + j - 1 /\ 0 + j = j
    BY <2>1
  <2>3. w[p + j - 1] = xs[0 + j]
    BY DEF IsAt
  <2> QED BY <1>t, <2>1, <2>2, <2>3
<1>3. ASSUME NEW j \in 1 .. (c - q) PROVE t[p + m + j] = s[q + j]
  <2>1. PICK i \in 1 .. k : i = p + m + j
    <3>1. p + m + j \in 1 .. k
      OBVIOUS
    <3> QED BY <3>1
  <2>2. i - 1 = p + m + j - 1
    BY <2>1
  <2>3. w[p + m + j - 1] = s[q + j]
    BY DEF IsAt
  <2> QED BY <1>t, <2>1, <2>2, <2>3
<1> QED BY <1>1, <1>2, <1>3 DEF Spliced

\* d, laid out from its first element: its elements are s.
Laid(d, n, v, c, s) ==
  /\ Linear(d, n, d.begin, v) /\ c \in 0 .. (n - 1) /\ d.end = Place(n, d.begin, c)
  /\ Holds(n, v, c) /\ s \in Seq(Values) /\ Len(s) = c /\ IsAt(v, s, 0, 0, c)

\* An exact deque is laid out.
LEMMA LaidOf ==
  ASSUME NEW d, Exact(d), NEW n, n = Cap(d), n > 0, NEW c, c = Size(d), NEW s, s = Contents(d)
  PROVE  \E v : Laid(d, n, v, c, s)
<1>1. PICK v : /\ Linear(d, n, d.begin, v)
               /\ c \in 0 .. (n - 1) /\ d.end = Place(n, d.begin, c)
               /\ \A o \in 0 .. (n - 1) : v[o] # Raw <=> o < c
               /\ s \in Seq(Values) /\ Len(s) = c
               /\ \A k \in 1 .. c : s[k] = v[k - 1]
  BY LinearOf
<1>2. IsAt(v, s, 0, 0, c)
  <2>1. ASSUME NEW j \in 1 .. c PROVE v[0 + j - 1] = s[0 + j]
    <3>1. 0 + j = j /\ 0 + j - 1 = j - 1
      OBVIOUS
    <3> QED BY <1>1, <3>1
  <2> QED BY <2>1 DEF IsAt
<1>3. Laid(d, n, v, c, s)
  BY <1>1, <1>2 DEF Laid, Holds
<1> QED BY <1>3

\* The converse.
LEMMA ExactOf ==
  ASSUME NEW d, NEW n, NEW v, Linear(d, n, d.begin, v), NEW c \in 0 .. (n - 1),
         d.end = Place(n, d.begin, c), Holds(n, v, c), NEW s, s = Contents(d)
  PROVE  Exact(d) /\ Cap(d) = n /\ Size(d) = c /\ Laid(d, n, v, c, s)
<1>1. \A o \in 0 .. (n - 1) : v[o] # Raw <=> o < c
  BY DEF Holds
<1>2. /\ Exact(d) /\ Cap(d) = n /\ Size(d) = c
      /\ s \in Seq(Values) /\ Len(s) = c
      /\ \A k \in 1 .. c : s[k] = v[k - 1]
  <2>1. c \in 0 .. (n - 1)
    OBVIOUS
  <2> QED BY ONLY Linear(d, n, d.begin, v), d.end = Place(n, d.begin, c), s = Contents(d), <1>1, <2>1, LinearExact
<1>3. c \in Nat
  BY LinearRoom
<1>4. IsAt(v, s, 0, 0, c)
  <2>1. ASSUME NEW j \in 1 .. c PROVE v[0 + j - 1] = s[0 + j]
    <3>1. 0 + j = j /\ 0 + j - 1 = j - 1
      BY <1>3
    <3> QED BY <1>2, <3>1
  <2> QED BY <2>1 DEF IsAt
<1> QED BY <1>2, <1>4 DEF Laid

\* The slots of the elements from position p on, from the last one, and the
\* slots m after them.
MovesUp(n, b, c, m, p, src, dest) ==
  /\ src = [k \in 1 .. (c - p) |-> Place(n, b, c - k)]
  /\ dest = [k \in 1 .. (c - p) |-> Place(n, b, c + m - k)]

\* MoveUpLinear, with its slots named.
LEMMA MoveUpOpens ==
  ASSUME NEW d, NEW n, NEW b, NEW v, Linear(d, n, b, v),
         NEW c \in Nat, NEW m \in Nat \ {0}, c + m < n, Holds(n, v, c), NEW p \in 0 .. c,
         NEW src, NEW dest, MovesUp(n, b, c, m, p, src, dest), NEW r, r = MoveEach(d, src, dest),
         NEW u, u = Opened(n, v, c, m, p)
  PROVE  Linear(r, n, b, u) /\ SameMembers(r, d)
<1>1. PICK s : s = c - p
  OBVIOUS
<1>2. src = [k \in 1 .. s |-> Place(n, b, c - k)] /\ dest = [k \in 1 .. s |-> Place(n, b, c + m - k)]
  BY <1>1 DEF MovesUp
<1>3. \A o \in 0 .. (n - 1) : v[o] # Raw <=> o < c
  BY DEF Holds
<1> QED BY ZenonT(20), <1>1, <1>2, <1>3, MoveUpLinear

\* The elements from position p on make room for xs, which is constructed there.
LEMMA FillExact ==
  ASSUME NEW d, Exact(d), NEW xs \in Seq(Values), NEW m \in Nat \ {0}, m = Len(xs),
         NEW p \in 0 .. Size(d), NEW i, i = Place(Cap(d), d.begin, p),
         NEW room, room = MakeRoomFor(d, m, i), NEW r, r = Fill(d, i, xs)
  PROVE  /\ Exact(r) /\ Spliced(Contents(r), Contents(d), p, xs, p) /\ r.touched = d.touched
         /\ room.at = Place(Cap(r), r.begin, p) /\ p <= Size(r)
<1>1. PICK c \in Nat : c = Size(d) /\ p \in 0 .. c
  BY ExactContents
<1>2. PICK e : e = ExpandCapacityIfNecessary(d, m)
  OBVIOUS
<1>3. PICK s : s = Contents(d)
  OBVIOUS
<1>4. /\ Exact(e) /\ Contents(e) = s /\ Size(e) = c /\ e.touched = d.touched
      /\ Cap(e) \in Nat \ {0} /\ e.begin \in Nat /\ c + m < Cap(e)
  <2>1. m \in Nat /\ m > 0
    OBVIOUS
  <2>2. Exact(e) /\ Contents(e) = s /\ Size(e) = c /\ e.touched = d.touched /\ c + m < Cap(e)
    BY <1>1, <1>2, <1>3, <2>1, ExpandExact
  <2>3. Cap(e) \in Nat /\ e.begin \in Nat
    BY <2>2, ExactRing DEF Ring
  <2> QED BY <2>2, <2>3
<1>5. PICK n \in Nat \ {0}, b \in Nat : n = Cap(e) /\ b = e.begin /\ c + m < n
  BY <1>4
<1>6. PICK v : Laid(e, n, v, c, s)
  <2>1. n > 0
    OBVIOUS
  <2> QED BY <1>4, <1>5, <2>1, LaidOf
<1>v. /\ Linear(e, n, b, v) /\ c \in 0 .. (n - 1) /\ e.end = Place(n, b, c) /\ Holds(n, v, c)
      /\ s \in Seq(Values) /\ Len(s) = c /\ IsAt(v, s, 0, 0, c)
  BY <1>5, <1>6 DEF Laid
<1>7. n \in Nat \ {0} /\ b \in Nat /\ b < n /\ v \in [0 .. (n - 1) -> Slot]
  BY <1>v, LinearRoom
<1>x. PICK x : x = e.end /\ x = Place(n, b, c)
  BY <1>v
<1>m. m \in Nat /\ c \in Nat /\ c + m < n
  BY <1>5
<1>z. PICK z \in Nat : z = c + m
  OBVIOUS
<1>9. PICK last \in 0 .. (n - 1) : last = Place(n, b, z) /\ (e.end + m) % n = last
  <2>2. PICK y : y = (x + m) % n
    OBVIOUS
  <2>1. RoomAt(n, b, c, m, z, x, y)
    BY <1>m, <1>z, <1>7, <1>x, <2>2 DEF RoomAt
  <2>3. y = Place(n, b, z)
    BY <2>1, RoomPlaces
  <2>4. y \in 0 .. (n - 1)
    BY <2>1, RoomPlaces
  <2> QED BY <1>x, <2>2, <2>3, <2>4
<1>10. ASSUME NEW k \in 1 .. (c - p)
       PROVE  /\ (e.end + n - k) % n = Place(n, b, c - k)
              /\ (last + n - k) % n = Place(n, b, z - k)
  <2>2. k \in 1 .. c
    BY <1>1
  <2>3. PICK y : y = last /\ y = (x + m) % n
    BY <1>9, <1>x
  <2>1. RoomAt(n, b, c, m, z, x, y)
    BY <1>m, <1>z, <1>7, <1>x, <2>3 DEF RoomAt
  <2>6. Behind(n, b, c, x, c)
    BY <2>1, RoomPlaces
  <2>7. Behind(n, b, c, y, z)
    BY <2>1, RoomPlaces
  <2>4. (x + n - k) % n = Place(n, b, c - k)
    BY <2>2, <2>6 DEF Behind
  <2>5. (y + n - k) % n = Place(n, b, z - k)
    BY <2>2, <2>7 DEF Behind
  <2> QED BY <1>x, <2>3, <2>4, <2>5
<1>11. PICK src, dest : /\ src = [k \in 1 .. (c - p) |-> Place(n, b, c - k)]
                        /\ dest = [k \in 1 .. (c - p) |-> Place(n, b, c + m - k)]
  OBVIOUS
<1>12. PICK f : f = [e EXCEPT !.end = last]
  OBVIOUS
<1>13. PICK g : g = MoveEach(f, src, dest)
  OBVIOUS
<1>14. OffsetFromBegin(d, i) = p
  BY OffsetIs
<1>15. PICK a : a = (b + p) % n
  OBVIOUS
<1>16. room = [d |-> g, at |-> a]
  <2>1. PICK order : order = Shift(Size(d) - OffsetFromBegin(d, i))
    OBVIOUS
  <2>2. order = [k \in 1 .. (c - p) |-> k]
    BY <1>1, <1>14, <2>1 DEF Shift
  <2>3. [k \in DOMAIN order |-> (e.end + n - order[k]) % n] = src
    BY <1>z, <1>10, <1>11, <2>2
  <2>4. [k \in DOMAIN order |-> (last + n - order[k]) % n] = dest
    BY <1>z, <1>10, <1>11, <2>2
  <2>5. m # 0
    OBVIOUS
  <2>6. room = [d |-> MoveEach([e EXCEPT !.end = last],
                               [k \in DOMAIN order |-> (e.end + n - order[k]) % n],
                               [k \in DOMAIN order |-> (last + n - order[k]) % n]),
                at |-> (b + p) % n]
    BY <1>2, <1>5, <1>9, <1>14, <2>1, <2>5 DEF MakeRoomFor
  <2> QED BY <1>12, <1>13, <1>15, <2>3, <2>4, <2>6
<1>17. a = Place(n, b, p) /\ p \in 0 .. (n - 1)
  <2>1. p \in 0 .. (n - 1)
    BY <1>1, <1>5, <1>7
  <2>2. (b + p) % n = Place(n, b, p)
    BY <1>7, <2>1, PlaceOf
  <2> QED BY <1>15, <2>1, <2>2
<1>18. Linear(f, n, b, v) /\ f.begin = b /\ f.end = last /\ f.touched = d.touched
  <2>1. e \in DequeType /\ ~e.ub /\ last \in Nat
    BY <1>v, <1>9 DEF Linear
  <2>2. f \in DequeType /\ ~f.ub /\ f.buf = e.buf /\ f.begin = e.begin /\ f.end = last /\ f.touched = e.touched
    BY <1>12, <2>1 DEF DequeType
  <2> QED BY <1>4, <1>5, <1>v, <2>2, LinearSame
<1>19. PICK u : u = Opened(n, v, c, m, p)
  OBVIOUS
<1>20. Linear(g, n, b, u) /\ SameMembers(g, f)
  <2>1. MovesUp(n, b, c, m, p, src, dest)
    BY <1>11 DEF MovesUp
  <2> QED BY <1>1, <1>m, <1>v, <1>13, <1>18, <1>19, <2>1, MoveUpOpens
<1>21. r = ConstructAll(g, a, xs)
  BY <1>16 DEF Fill
<1>22. PICK w : w = Filled(n, u, p, xs, m)
  OBVIOUS
<1>23. Linear(r, n, b, w) /\ SameMembers(r, g)
  <2>1. xs \in [1 .. m -> Values] /\ m \in Nat /\ p + m <= n
    BY <1>1, <1>5, <1>7
  <2>2. \A o \in 0 .. (n - 1) : p <= o /\ o < p + m => u[o] = Raw
    BY <1>1, <1>7, <1>19 DEF Opened
  <2> QED BY <1>17, <1>20, <1>21, <1>22, <2>1, <2>2, ConstructAllLinear
<1>24. /\ r.begin = b /\ r.end = last /\ r.touched = d.touched
  BY <1>18, <1>20, <1>23 DEF SameMembers
<1>25. PICK k \in 0 .. (n - 1) : k = c + m
  BY <1>1, <1>5, <1>7
<1>26. /\ Holds(n, w, k)
       /\ IsAt(w, s, 0, 0, p) /\ IsAt(w, xs, p, 0, m) /\ IsAt(w, s, p + m, p, c - p)
  <2>1. xs \in [1 .. m -> Values]
    OBVIOUS
  <2>2. Holds(n, w, c + m)
    BY SMTT(20), <1>1, <1>m, <1>7, <1>v, <1>19, <1>22, <2>1, RoomFilled
  <2>3. IsAt(w, s, 0, 0, p)
    BY <1>1, <1>m, <1>7, <1>v, <1>19, <1>22, <2>1, RoomFilled
  <2>4. IsAt(w, xs, p, 0, m)
    BY SMTT(20), <1>1, <1>m, <1>7, <1>v, <1>19, <1>22, <2>1, RoomFilled
  <2>5. IsAt(w, s, p + m, p, c - p)
    BY <1>1, <1>m, <1>7, <1>v, <1>19, <1>22, <2>1, RoomFilled
  <2> QED BY <1>25, <2>2, <2>3, <2>4, <2>5
<1>27. PICK t : t = Contents(r)
  OBVIOUS
<1>28. Exact(r) /\ Cap(r) = n /\ Size(r) = k /\ Laid(r, n, w, k, t)
  <2>1. Linear(r, n, r.begin, w) /\ r.end = Place(n, r.begin, k)
    BY <1>z, <1>9, <1>23, <1>24, <1>25
  <2> QED BY <1>25, <1>26, <1>27, <2>1, ExactOf
<1>29. Spliced(t, s, p, xs, p)
  <2>1. t \in Seq(Values) /\ Len(t) = k /\ IsAt(w, t, 0, 0, k)
    BY <1>28 DEF Laid
  <2>2. p \in 0 .. c /\ p <= p /\ k = c - (p - p) + m /\ m \in Nat
    BY <1>1, <1>25
  <2> QED BY <1>m, <1>v, <1>26, <2>1, <2>2, SplicedOf
<1>30. p <= k
  BY <1>1, <1>25
<1> QED BY <1>3, <1>16, <1>17, <1>24, <1>27, <1>28, <1>29, <1>30

-----------------------------------------------------------------------------
(* Insertion at a position                                                 *)
\* Inserting before the first element.
LEMMA SplicedFront ==
  ASSUME NEW s \in Seq(Values), NEW xs \in Seq(Values), NEW t, Joined(t, xs, s)
  PROVE  Spliced(t, s, 0, xs, 0)
<1>0. t = xs \o s
  BY DEF Joined
<1>1. t \in Seq(Values) /\ Len(t) = Len(s) - (0 - 0) + Len(xs)
  BY <1>0
<1>2. \A j \in 1 .. 0 : t[j] = s[j]
  OBVIOUS
<1>3. \A j \in 1 .. Len(xs) : t[0 + j] = xs[j]
  BY <1>0
<1>4. \A j \in 1 .. (Len(s) - 0) : t[0 + Len(xs) + j] = s[0 + j]
  BY <1>0
<1> QED BY <1>1, <1>2, <1>3, <1>4 DEF Spliced

\* Inserting nothing.
LEMMA SplicedNone ==
  ASSUME NEW s \in Seq(Values), NEW p \in 0 .. Len(s), NEW xs, xs = <<>>
  PROVE  Spliced(s, s, p, xs, p)
<1>1. s \in Seq(Values) /\ Len(s) = Len(s) - (p - p) + Len(xs)
  OBVIOUS
<1>2. \A j \in 1 .. Len(xs) : s[p + j] = xs[j]
  OBVIOUS
<1>3. \A j \in 1 .. (Len(s) - p) : s[p + Len(xs) + j] = s[p + j]
  OBVIOUS
<1> QED BY <1>1, <1>2, <1>3 DEF Spliced

\* Constructing nothing.
LEMMA ConstructNone ==
  ASSUME NEW d, Exact(d), NEW i, NEW xs, xs = <<>>, NEW r, r = ConstructAll(d, i, xs)
  PROVE  r = d
<1>1. PICK n \in Nat : d.buf \in [0 .. (n - 1) -> Slot] /\ d \in DequeType
  BY DEF Exact, Ring, Slot
<1>2. d \in Room(n)
  BY <1>1 DEF Room
<1>3. 0 \in Nat /\ xs \in [1 .. 0 -> Values]
  OBVIOUS
<1>4. PICK g : ConstructAllRun(g, d, i, 0, xs, r)
  BY <1>2, <1>3, ConstructAllFold
<1> QED BY <1>4 DEF ConstructAllRun

\* Expanding by nothing.
LEMMA ExpandNothing ==
  ASSUME NEW d, Exact(d)
  PROVE  ExpandCapacityIfNecessary(d, 0) = d
<1>1. Size(d) \in Nat /\ Capacity(d) \in Nat /\ Size(d) <= Capacity(d)
  BY ExactRing, ContentsAre
<1>2. Capacity(d) >= Size(d) + 0
  BY <1>1
<1> QED BY <1>2 DEF ExpandCapacityIfNecessary

\* xs is inserted at position p; nothing happens to the iterators only when xs is empty.
Inserted(r, d, p, xs) ==
  Exact(r) /\ Spliced(Contents(r), Contents(d), p, xs, p) /\ (r.touched = TRUE \/ (xs = <<>> /\ r = d))

\* Fill inserts.
LEMMA FillInserts ==
  ASSUME NEW d, Exact(d), NEW xs \in Seq(Values), NEW p \in 0 .. Size(d), NEW i, i = Place(Cap(d), d.begin, p),
         NEW f, f = Fill(d, i, xs), NEW r, r = IncrementGeneration(f)
  PROVE  Inserted(r, d, p, xs)
<1>1. CASE xs = <<>>
  <2>1. Len(xs) = 0
    BY <1>1
  <2>2. MakeRoomFor(d, Len(xs), i) = [d |-> d, at |-> i]
    BY <2>1 DEF MakeRoomFor
  <2>3. f = d
    BY <1>1, <2>2, ConstructNone DEF Fill
  <2>4. Contents(d) \in Seq(Values) /\ p \in 0 .. Len(Contents(d))
    BY ExactContents
  <2> QED BY <1>1, <2>3, <2>4, GenerationExact, SplicedNone DEF Inserted
<1>2. CASE xs # <<>>
  <2>1. PICK m \in Nat \ {0} : m = Len(xs)
    BY <1>2
  <2>2. PICK room : room = MakeRoomFor(d, m, i)
    OBVIOUS
  <2>3. Exact(f) /\ Spliced(Contents(f), Contents(d), p, xs, p)
    BY <2>1, <2>2, FillExact
  <2> QED BY <2>3, GenerationExact DEF Inserted
<1> QED BY <1>1, <1>2

\* insert of n copies, by either of its branches.
LEMMA InsertCopiesExact ==
  ASSUME NEW d, Exact(d), NEW n \in Nat, NEW x \in Values, NEW p \in 0 .. Size(d),
         NEW i, i = Place(Cap(d), d.begin, p), NEW r, r = InsertCopies(d, i, n, x)
  PROVE  Inserted(r, d, p, Copies(n, x))
<1>0. PICK xs : xs = Copies(n, x)
  OBVIOUS
<1>1. xs = Copies(n, x) /\ xs \in Seq(Values) /\ Len(xs) = n
  BY <1>0, CopiesAre
<1>2. CASE i = d.begin
  <2>1. p = 0
    BY <1>2, OffsetIs
  <2>2. PICK e : e = ExpandCapacityIfNecessary(d, n)
    OBVIOUS
  <2>3. Exact(e) /\ Contents(e) = Contents(d)
    BY <2>2, ExpandExact
  <2>t. PICK t : t = Contents(e)
    OBVIOUS
  <2>4. r = EmplaceEachFront(e, xs)
    BY <1>1, <1>2, <2>2 DEF InsertCopies
  <2>5. Exact(r)
    BY <1>0, <2>3, <2>4, <2>t, EmplaceEachFrontExact
  <2>6. Joined(Contents(r), xs, t)
    BY <1>0, <2>3, <2>4, <2>t, EmplaceEachFrontExact
  <2>12. r.touched = TRUE \/ (n = 0 /\ r = e)
    BY <1>0, <2>3, <2>4, <2>t, EmplaceEachFrontExact
  <2>7. Joined(Contents(r), xs, Contents(d))
    BY <2>3, <2>6, <2>t
  <2>8. Contents(d) \in Seq(Values)
    BY ExactContents
  <2>9. Spliced(Contents(r), Contents(d), p, xs, p)
    <3>1. Spliced(Contents(r), Contents(d), 0, xs, 0)
      BY <1>1, <2>7, <2>8, SplicedFront
    <3> QED BY <2>1, <3>1
  <2>10. CASE n = 0 /\ r = e
    <3>1. e = d
      BY <2>2, <2>10, ExpandNothing
    <3>2. xs = <<>>
      BY <1>1, <2>10
    <3> QED BY <1>1, <2>5, <2>9, <2>10, <3>1, <3>2 DEF Inserted
  <2>11. CASE r.touched = TRUE
    BY <1>1, <2>5, <2>9, <2>11 DEF Inserted
  <2> QED BY <2>10, <2>11, <2>12
<1>3. CASE i # d.begin
  <2>1. PICK f : f = Fill(d, i, xs)
    OBVIOUS
  <2>2. r = IncrementGeneration(f)
    BY <1>1, <1>3, <2>1 DEF InsertCopies
  <2> QED BY <1>1, <2>1, <2>2, FillInserts
<1> QED BY <1>2, <1>3

-----------------------------------------------------------------------------
(* Insertion before the first element                                      *)
\* w, from q slots later.
Turned(y, w, n, q) == y = [o \in 0 .. (n - 1) |-> w[IF o + q < n THEN o + q ELSE o + q - n]]
\* xs in the slots before the first element.
LEMMA FrontFilled ==
  ASSUME NEW n \in Nat \ {0}, NEW v \in [0 .. (n - 1) -> Slot], NEW c \in Nat, NEW m \in Nat \ {0}, c + m < n,
         Holds(n, v, c), NEW s, IsAt(v, s, 0, 0, c), NEW xs \in [1 .. m -> Values],
         NEW q, q = n - m, NEW w, w = Filled(n, v, q, xs, m),
         NEW y, Turned(y, w, n, q),
         NEW z, z = c + m
  PROVE  Holds(n, y, z) /\ IsAt(y, xs, 0, 0, m) /\ IsAt(y, s, m, 0, c)
<1>0. /\ \A o \in 0 .. (n - 1) : v[o] # Raw <=> o < c
      /\ \A j \in 1 .. c : s[j] = v[j - 1]
  <2>1. \A j \in 1 .. c : v[0 + j - 1] = s[0 + j] /\ 0 + j - 1 = j - 1 /\ 0 + j = j
    BY DEF IsAt
  <2>2. \A j \in 1 .. c : s[j] = v[j - 1]
    BY <2>1
  <2> QED BY <2>2 DEF Holds
<1>1. ASSUME NEW o \in 0 .. (n - 1), o < m PROVE y[o] = xs[o + 1]
  <2>1. PICK k \in 0 .. (n - 1) : k = o + q
    <3>1. o + q \in 0 .. (n - 1)
      BY <1>1
    <3> QED BY <3>1
  <2>2. y[o] = w[k]
    BY <2>1 DEF Turned
  <2>3. q <= k /\ k < q + m /\ k - q + 1 = o + 1
    BY <1>1, <2>1
  <2> QED BY <2>2, <2>3 DEF Filled
<1>2. ASSUME NEW o \in 0 .. (n - 1), m <= o PROVE y[o] = v[o - m]
  <2>1. PICK k \in 0 .. (n - 1) : k = o - m
    <3>1. o - m \in 0 .. (n - 1)
      BY <1>2
    <3> QED BY <3>1
  <2>2. ~(o + q < n) /\ o + q - n = k
    BY <1>2, <2>1
  <2>3. y[o] = w[k]
    BY <2>2 DEF Turned
  <2>4. ~(q <= k)
    BY <2>1
  <2> QED BY <2>1, <2>3, <2>4 DEF Filled
<1>3. ASSUME NEW o \in 0 .. (n - 1) PROVE y[o] # Raw <=> o < z
  <2>1. CASE o < m
    <3>1. o + 1 \in 1 .. m /\ o < z
      BY <2>1
    <3>2. xs[o + 1] # Raw
      BY <3>1, DequeAssumption
    <3> QED BY <1>1, <2>1, <3>1, <3>2
  <2>2. CASE m <= o
    <3>1. PICK k \in 0 .. (n - 1) : k = o - m
      <4>1. o - m \in 0 .. (n - 1)
        BY <2>2
      <4> QED BY <4>1
    <3>2. v[k] # Raw <=> k < c
      BY <1>0
    <3>3. k < c <=> o < z
      BY <3>1
    <3> QED BY <1>2, <2>2, <3>1, <3>2, <3>3
  <2> QED BY <2>1, <2>2
<1>4. ASSUME NEW j \in 1 .. m PROVE y[0 + j - 1] = xs[0 + j]
  <2>1. PICK o \in 0 .. (n - 1) : o = j - 1 /\ o < m
    <3>1. j - 1 \in 0 .. (n - 1) /\ j - 1 < m
      OBVIOUS
    <3> QED BY <3>1
  <2>2. o + 1 = j /\ 0 + j = j /\ 0 + j - 1 = o
    BY <2>1
  <2> QED BY <1>1, <2>1, <2>2
<1>5. ASSUME NEW j \in 1 .. c PROVE y[m + j - 1] = s[0 + j]
  <2>1. PICK o \in 0 .. (n - 1) : o = m + j - 1 /\ m <= o
    <3>1. m + j - 1 \in 0 .. (n - 1) /\ m <= m + j - 1
      OBVIOUS
    <3> QED BY <3>1
  <2>2. o - m = j - 1 /\ 0 + j = j
    BY <2>1
  <2> QED BY <1>0, <1>2, <2>1, <2>2
<1> QED BY <1>3, <1>4, <1>5 DEF Holds, IsAt

\* m slots before the first element.
LEMMA PlacesBefore ==
  ASSUME NEW n \in Nat \ {0}, NEW b \in Nat, b < n, NEW c \in Nat, NEW m \in Nat \ {0}, c + m < n,
         NEW q, q = n - m, NEW f, f = (b + n - m) % n, NEW z, z = c + m
  PROVE  q \in 0 .. (n - 1) /\ f = Place(n, b, q) /\ z \in 0 .. (n - 1) /\ Place(n, f, z) = Place(n, b, c)
<1>0. n \in Nat \ {0} /\ b \in Nat /\ b < n
  OBVIOUS
<1>1. q \in 0 .. (n - 1) /\ z \in 0 .. (n - 1)
  OBVIOUS
<1>2. PICK t \in Nat : t = b + n - m
  <2>1. b + n - m \in Nat
    OBVIOUS
  <2> QED BY <2>1
<1>3. PICK k \in 0 .. (n - 1) : k = q /\ t = b + k
  BY <1>1, <1>2
<1>4. f = Place(n, b, q)
  <2>1. t % n = Place(n, b, k)
    BY ONLY <1>0, <1>2, <1>3, PlaceMod
  <2> QED BY <1>2, <1>3, <2>1
<1>5. Place(n, f, z) = Place(n, b, c)
  BY <1>1, <1>4 DEF Place
<1> QED BY <1>1, <1>4, <1>5

\* The branch of insert that constructs before the first element.
LEMMA InsertFrontExact ==
  ASSUME NEW d, Exact(d), NEW xs \in Seq(Values), NEW m \in Nat \ {0}, m = Len(xs),
         NEW e, e = ExpandCapacityIfNecessary(d, m),
         NEW f, f = (e.begin + Cap(e) - m) % Cap(e), NEW g, g = [e EXCEPT !.begin = f],
         NEW r, r = ConstructAll(g, f, xs)
  PROVE  Exact(r) /\ Spliced(Contents(r), Contents(d), 0, xs, 0)
<1>1. PICK c \in Nat : c = Size(d)
  BY ExactContents
<1>3. PICK s : s = Contents(d)
  OBVIOUS
<1>4. /\ Exact(e) /\ Contents(e) = s /\ Size(e) = c
      /\ Cap(e) \in Nat \ {0} /\ e.begin \in Nat /\ c + m < Cap(e)
  <2>1. m \in Nat /\ m > 0
    OBVIOUS
  <2>2. Exact(e) /\ Contents(e) = s /\ Size(e) = c /\ c + m < Cap(e)
    BY <1>1, <1>3, <2>1, ExpandExact
  <2>3. Cap(e) \in Nat /\ e.begin \in Nat
    BY <2>2, ExactRing DEF Ring
  <2> QED BY <2>2, <2>3
<1>5. PICK n \in Nat \ {0}, b \in Nat : n = Cap(e) /\ b = e.begin /\ c + m < n
  BY <1>4
<1>6. PICK v : Laid(e, n, v, c, s)
  <2>1. n > 0
    OBVIOUS
  <2> QED BY <1>4, <1>5, <2>1, LaidOf
<1>v. /\ Linear(e, n, b, v) /\ c \in 0 .. (n - 1) /\ e.end = Place(n, b, c) /\ Holds(n, v, c)
      /\ s \in Seq(Values) /\ Len(s) = c /\ IsAt(v, s, 0, 0, c)
  BY <1>5, <1>6 DEF Laid
<1>7. n \in Nat \ {0} /\ b \in Nat /\ b < n /\ v \in [0 .. (n - 1) -> Slot]
  BY <1>v, LinearRoom
<1>8. PICK q, z : q = n - m /\ z = c + m
  OBVIOUS
<1>9. q \in 0 .. (n - 1) /\ f = Place(n, b, q) /\ z \in 0 .. (n - 1) /\ Place(n, f, z) = Place(n, b, c)
  <2>1. f = (b + n - m) % n
    BY <1>5
  <2>2. /\ n \in Nat \ {0} /\ b \in Nat /\ b < n /\ c \in Nat /\ m \in Nat \ {0} /\ c + m < n
        /\ q = n - m /\ z = c + m
    BY <1>5, <1>7, <1>8
  <2> QED BY ONLY <2>1, <2>2, PlacesBefore
<1>10. f \in Nat
  BY <1>7, <1>9, PlaceIn
<1>11. Linear(g, n, b, v) /\ g.begin = f /\ g.end = e.end
  <2>1. e \in DequeType /\ ~e.ub
    BY <1>v DEF Linear
  <2>2. g \in DequeType /\ ~g.ub /\ g.buf = e.buf /\ g.begin = f /\ g.end = e.end
    BY <1>10, <2>1 DEF DequeType
  <2> QED BY <1>v, <2>2, LinearSame
<1>12. PICK w : w = Filled(n, v, q, xs, m)
  OBVIOUS
<1>x. xs \in [1 .. m -> Values] /\ m \in Nat
  OBVIOUS
<1>13. Linear(r, n, b, w) /\ SameMembers(r, g)
  <2>1. q + m <= n
    BY <1>7, <1>8
  <2>2. \A o \in 0 .. (n - 1) : q <= o /\ o < q + m => v[o] = Raw
    <3> TAKE o \in 0 .. (n - 1)
    <3>1. q <= o => ~(o < c)
      BY <1>5, <1>7, <1>8
    <3> QED BY <1>v, <3>1 DEF Holds
  <2> QED BY <1>9, <1>x, <1>11, <1>12, <2>1, <2>2, ConstructAllLinear
<1>14. PICK y : y = [o \in 0 .. (n - 1) |-> w[IF o + q < n THEN o + q ELSE o + q - n]]
  OBVIOUS
<1>t. Turned(y, w, n, q)
  BY <1>14 DEF Turned
<1>m. m \in Nat \ {0} /\ c \in Nat /\ c + m < n
  BY <1>5
<1>15. Linear(r, n, f, y)
  BY ZenonT(20), <1>9, <1>13, <1>14, LinearFrom
<1>16. Holds(n, y, z) /\ IsAt(y, xs, 0, 0, m) /\ IsAt(y, s, m, 0, c)
  <2>1. Holds(n, y, z)
    BY ONLY ZenonT(20), <1>m, <1>7, <1>v, <1>x, <1>8, <1>12, <1>t, FrontFilled
  <2>2. IsAt(y, xs, 0, 0, m)
    BY ONLY SMTT(20), <1>m, <1>7, <1>v, <1>x, <1>8, <1>12, <1>t, FrontFilled
  <2>3. IsAt(y, s, m, 0, c)
    BY ONLY <1>m, <1>7, <1>v, <1>x, <1>8, <1>12, <1>t, FrontFilled
  <2> QED BY <2>1, <2>2, <2>3
<1>17. PICK t : t = Contents(r)
  OBVIOUS
<1>18. Exact(r) /\ Laid(r, n, y, z, t)
  <2>1. r.begin = f /\ r.end = Place(n, r.begin, z)
    BY <1>v, <1>9, <1>11, <1>13 DEF SameMembers
  <2> QED BY <1>9, <1>15, <1>16, <1>17, <2>1, ExactOf
<1>19. Spliced(t, s, 0, xs, 0)
  <2>1. t \in Seq(Values) /\ Len(t) = z /\ IsAt(y, t, 0, 0, z)
    BY <1>18 DEF Laid
  <2>2. 0 \in 0 .. c /\ 0 <= 0 /\ z = c - (0 - 0) + m /\ 0 + m = m /\ c - 0 = c
    BY <1>8
  <2>3. IsAt(y, s, 0, 0, 0)
    BY DEF IsAt
  <2>4. IsAt(y, s, 0 + m, 0, c - 0)
    BY <1>16, <2>2
  <2> QED BY <1>v, <1>x, <1>16, <2>1, <2>2, <2>3, <2>4, SplicedOf
<1> QED BY <1>3, <1>17, <1>18, <1>19

-----------------------------------------------------------------------------
(* insert and emplace                                                      *)
\* insert of a range, by each of its branches.
LEMMA InsertRangeExact ==
  ASSUME NEW d, Exact(d), NEW xs \in Seq(Values), NEW p \in 0 .. Size(d),
         NEW i, i = Place(Cap(d), d.begin, p), NEW r, r = InsertRange(d, i, xs)
  PROVE  Inserted(r, d, p, xs)
<1>1. CASE xs = <<>>
  <2>1. r = d
    BY <1>1 DEF InsertRange
  <2>2. Contents(d) \in Seq(Values) /\ p \in 0 .. Len(Contents(d))
    BY ExactContents
  <2> QED BY <1>1, <2>1, <2>2, SplicedNone DEF Inserted
<1>2. CASE xs # <<>> /\ i = d.begin
  <2>1. PICK m \in Nat \ {0} : m = Len(xs)
    BY <1>2
  <2>2. PICK e : e = ExpandCapacityIfNecessary(d, m)
    OBVIOUS
  <2>3. PICK f : f = (e.begin + Cap(e) - m) % Cap(e)
    OBVIOUS
  <2>4. PICK g : g = [e EXCEPT !.begin = f]
    OBVIOUS
  <2>5. PICK h : h = ConstructAll(g, f, xs)
    OBVIOUS
  <2>6. r = IncrementGeneration(h)
    BY <1>2, <2>1, <2>2, <2>3, <2>4, <2>5 DEF InsertRange
  <2>7. Exact(h) /\ Spliced(Contents(h), Contents(d), 0, xs, 0)
    BY <2>1, <2>2, <2>3, <2>4, <2>5, InsertFrontExact
  <2>8. p = 0
    BY <1>2, OffsetIs
  <2> QED BY <2>6, <2>7, <2>8, GenerationExact DEF Inserted
<1>3. CASE xs # <<>> /\ i # d.begin
  <2>1. PICK f : f = Fill(d, i, xs)
    OBVIOUS
  <2>2. r = IncrementGeneration(f)
    BY <1>3, <2>1 DEF InsertRange
  <2> QED BY <2>1, <2>2, FillInserts
<1> QED BY <1>1, <1>2, <1>3

\* Where the ring begins.
LEMMA PlaceZero ==
  ASSUME NEW d, Exact(d)
  PROVE  Place(Cap(d), d.begin, 0) = d.begin /\ 0 <= Size(d)
BY ExactRing, ContentsAre DEF Ring, Place

\* xs is in r at position p, which is a there.
Emplaced(r, d, p, xs, a) ==
  /\ Exact(r) /\ Spliced(Contents(r), Contents(d), p, xs, p)
  /\ a = Place(Cap(r), r.begin, p) /\ p <= Size(r)
\* emplace inserts one element, and returns where it is.
LEMMA EmplaceExact ==
  ASSUME NEW d, Exact(d), NEW x \in Values, NEW p \in 0 .. Size(d),
         NEW i, i = Place(Cap(d), d.begin, p), NEW r, r = Emplace(d, i, x), NEW xs, xs = <<x>>,
         NEW a, a = AfterEmplace(d, i, x)
  PROVE  Emplaced(r, d, p, xs, a)
<1>0. xs \in Seq(Values) /\ Contents(d) \in Seq(Values)
  BY ExactContents
<1>1. CASE i = d.begin
  <2>1. p = 0
    BY <1>1, OffsetIs
  <2>2. r = EmplaceFront(d, x) /\ a = r.begin
    BY <1>1 DEF Emplace, AfterEmplace
  <2>3. Exact(r) /\ Joined(Contents(r), xs, Contents(d))
    BY <2>2, EmplaceFrontExact DEF Joined
  <2>4. Spliced(Contents(r), Contents(d), 0, xs, 0)
    BY <1>0, <2>3, SplicedFront
  <2> QED BY <2>1, <2>2, <2>3, <2>4, PlaceZero DEF Emplaced
<1>2. CASE i # d.begin
  <2>1. PICK e : e = IncrementGeneration(d)
    OBVIOUS
  <2>2. Exact(e) /\ Contents(e) = Contents(d)
    BY <2>1, GenerationExact
  <2>3. e.buf = d.buf /\ e.begin = d.begin /\ e.end = d.end
    BY <2>1 DEF IncrementGeneration, Exact, DequeType
  <2>4. Cap(e) = Cap(d) /\ Size(e) = Size(d)
    BY <2>3 DEF Cap, Size
  <2>5. PICK m \in Nat \ {0} : m = Len(xs)
    OBVIOUS
  <2>10. m = 1
    BY <2>5
  <2>6. PICK room : room = MakeRoomFor(e, m, i)
    OBVIOUS
  <2>7. r = Fill(e, i, xs) /\ a = room.at
    BY <1>2, <2>1, <2>6, <2>10 DEF Emplace, AfterEmplace
  <2>8. p \in 0 .. Size(e) /\ i = Place(Cap(e), e.begin, p)
    BY <2>3, <2>4
  <2>9. /\ Exact(r) /\ Spliced(Contents(r), Contents(e), p, xs, p)
        /\ room.at = Place(Cap(r), r.begin, p) /\ p <= Size(r)
    <3>1. Exact(r)
      BY ONLY <1>0, <2>2, <2>5, <2>6, <2>7, <2>8, FillExact
    <3>2. Spliced(Contents(r), Contents(e), p, xs, p)
      BY ONLY <1>0, <2>2, <2>5, <2>6, <2>7, <2>8, FillExact
    <3>3. room.at = Place(Cap(r), r.begin, p)
      BY ONLY <1>0, <2>2, <2>5, <2>6, <2>7, <2>8, FillExact
    <3>4. p <= Size(r)
      BY ONLY <1>0, <2>2, <2>5, <2>6, <2>7, <2>8, FillExact
    <3> QED BY <3>1, <3>2, <3>3, <3>4
  <2> QED BY <2>2, <2>7, <2>9 DEF Emplaced
<1> QED BY <1>1, <1>2

\* v without the elements from offset p up to q.
Emptied(w, v, n, p, q) == w = [o \in 0 .. (n - 1) |-> IF p <= o /\ o < q THEN Raw ELSE v[o]]
\* What is left, with the gap closed; or from its end, when it was at the front.
LEMMA RoomClosed ==
  ASSUME NEW n \in Nat \ {0}, NEW v \in [0 .. (n - 1) -> Slot], NEW c \in 0 .. (n - 1),
         Holds(n, v, c), NEW s, IsAt(v, s, 0, 0, c), NEW p \in 0 .. c, NEW q \in 0 .. c, p < q,
         NEW w, Emptied(w, v, n, p, q), NEW k, k = c - q, NEW u, u = Closed(n, w, p, q, k),
         NEW y, Turned(y, w, n, q), NEW z, z = p + k
  PROVE  /\ Holds(n, u, z) /\ IsAt(u, s, 0, 0, p) /\ IsAt(u, s, p, q, k)
         /\ p = 0 => Holds(n, y, z) /\ IsAt(y, s, 0, q, k)
<1>0. /\ \A o \in 0 .. (n - 1) : v[o] # Raw <=> o < c
      /\ \A j \in 1 .. c : s[j] = v[j - 1]
  <2>1. \A j \in 1 .. c : v[0 + j - 1] = s[0 + j] /\ 0 + j - 1 = j - 1 /\ 0 + j = j
    BY DEF IsAt
  <2>2. \A j \in 1 .. c : s[j] = v[j - 1]
    BY <2>1
  <2> QED BY <2>2 DEF Holds
<1>1. \A o \in 0 .. (n - 1) : w[o] = IF p <= o /\ o < q THEN Raw ELSE v[o]
  BY DEF Emptied
<1>2. \A o \in 0 .. (n - 1) : w[o] # Raw <=> (o < p \/ (q <= o /\ o < c))
  BY <1>0, <1>1
<1>3. ASSUME NEW o \in 0 .. (n - 1), o < p PROVE u[o] = v[o] /\ v[o] # Raw
  BY <1>0, <1>1, <1>3 DEF Closed
<1>4. ASSUME NEW o \in 0 .. (n - 1), p <= o /\ o < z PROVE u[o] = v[o + (q - p)] /\ v[o + (q - p)] # Raw
  <2>1. PICK x \in 0 .. (n - 1) : x = o + (q - p)
    <3>1. o + (q - p) \in 0 .. (n - 1)
      BY <1>4
    <3> QED BY <3>1
  <2>2. q <= x /\ x < c /\ o < p + k
    BY <1>4, <2>1
  <2>3. u[o] = w[x]
    BY <1>4, <2>1, <2>2 DEF Closed
  <2>4. w[x] = v[x] /\ v[x] # Raw
    BY <1>0, <1>1, <2>2
  <2> QED BY <2>1, <2>3, <2>4
<1>5. ASSUME NEW o \in 0 .. (n - 1), z <= o PROVE u[o] = Raw
  <2>1. CASE o < c
    <3>1. p + k <= o /\ o < q + k /\ ~(o < p + k)
      BY <1>5, <2>1
    <3> QED BY <3>1 DEF Closed
  <2>2. CASE c <= o
    <3>1. ~(o < p + k) /\ ~(o < q + k)
      BY <1>5, <2>2
    <3>2. u[o] = w[o]
      BY <3>1 DEF Closed
    <3>3. ~(o < p) /\ ~(o < c)
      BY <2>2
    <3> QED BY <1>2, <3>2, <3>3
  <2> QED BY <2>1, <2>2
<1>6. Holds(n, u, z)
  <2>1. ASSUME NEW o \in 0 .. (n - 1) PROVE u[o] # Raw <=> o < z
    <3>1. CASE o < p
      <4>1. o < z
        BY <3>1
      <4> QED BY <1>3, <3>1, <4>1
    <3>2. CASE p <= o /\ o < z
      BY <1>4, <3>2
    <3>3. CASE z <= o
      <4>1. ~(o < z)
        BY <3>3
      <4> QED BY <1>5, <3>3, <4>1
    <3> QED BY <3>1, <3>2, <3>3
  <2> QED BY <2>1 DEF Holds
<1>7. ASSUME NEW j \in 1 .. p PROVE u[0 + j - 1] = s[0 + j]
  <2>1. PICK o \in 0 .. (n - 1) : o = j - 1 /\ o < p
    <3>1. j - 1 \in 0 .. (n - 1) /\ j - 1 < p
      OBVIOUS
    <3> QED BY <3>1
  <2>2. j \in 1 .. c /\ 0 + j - 1 = o /\ 0 + j = j
    BY <2>1
  <2> QED BY <1>0, <1>3, <2>1, <2>2
<1>8. ASSUME NEW j \in 1 .. k PROVE u[p + j - 1] = s[q + j]
  <2>1. PICK o \in 0 .. (n - 1), x \in 1 .. c : o = p + j - 1 /\ p <= o /\ o < z /\ x = q + j
    <3>1. p + j - 1 \in 0 .. (n - 1) /\ p <= p + j - 1 /\ p + j - 1 < z /\ q + j \in 1 .. c
      OBVIOUS
    <3> QED BY <3>1
  <2>2. o + (q - p) = x - 1
    BY <2>1
  <2>3. u[o] = v[x - 1]
    BY <1>4, <2>1, <2>2
  <2>4. s[x] = v[x - 1]
    BY <1>0
  <2> QED BY <2>1, <2>3, <2>4
<1>9. ASSUME p = 0 PROVE Holds(n, y, z) /\ IsAt(y, s, 0, q, k)
  <2>1. ASSUME NEW o \in 0 .. (n - 1), o < k PROVE y[o] = v[o + q] /\ v[o + q] # Raw
    <3>1. PICK x \in 0 .. (n - 1) : x = o + q /\ q <= x /\ x < c
      <4>1. o + q \in 0 .. (n - 1) /\ q <= o + q /\ o + q < c
        BY <2>1
      <4> QED BY <4>1
    <3>2. y[o] = w[x]
      BY <3>1 DEF Turned
    <3>3. w[x] = v[x] /\ v[x] # Raw
      BY <1>0, <1>1, <3>1
    <3> QED BY <3>1, <3>2, <3>3
  <2>2. ASSUME NEW o \in 0 .. (n - 1), k <= o PROVE y[o] = Raw
    <3>1. CASE o + q < n
      <4>1. PICK x \in 0 .. (n - 1) : x = o + q /\ c <= x
        <5>1. o + q \in 0 .. (n - 1) /\ c <= o + q
          BY <2>2, <3>1
        <5> QED BY <5>1
      <4>2. y[o] = w[x]
        BY <3>1, <4>1 DEF Turned
      <4>3. ~(x < p) /\ ~(x < c)
        BY <4>1
      <4> QED BY <1>2, <4>2, <4>3
    <3>2. CASE ~(o + q < n)
      <4>1. PICK x \in 0 .. (n - 1) : x = o + q - n /\ x < q
        <5>1. o + q - n \in 0 .. (n - 1) /\ o + q - n < q
          BY <2>2, <3>2
        <5> QED BY <5>1
      <4>2. y[o] = w[x]
        BY <3>2, <4>1 DEF Turned
      <4>3. ~(x < p) /\ ~(q <= x)
        BY <1>9, <4>1
      <4> QED BY <1>2, <4>2, <4>3
    <3> QED BY <3>1, <3>2
  <2>3. z = k
    BY <1>9
  <2>4. ASSUME NEW o \in 0 .. (n - 1) PROVE y[o] # Raw <=> o < k
    <3>1. CASE o < k
      BY <2>1, <3>1
    <3>2. CASE k <= o
      <4>1. ~(o < k)
        BY <3>2
      <4> QED BY <2>2, <3>2, <4>1
    <3> QED BY <3>1, <3>2
  <2>5. ASSUME NEW j \in 1 .. k PROVE y[0 + j - 1] = s[q + j]
    <3>1. PICK o \in 0 .. (n - 1), x \in 1 .. c : o = 0 + j - 1 /\ o < k /\ x = q + j
      <4>1. 0 + j - 1 \in 0 .. (n - 1) /\ 0 + j - 1 < k /\ q + j \in 1 .. c
        OBVIOUS
      <4> QED BY <4>1
    <3>2. o + q = x - 1
      BY <3>1
    <3>3. y[o] = v[x - 1]
      BY <2>1, <3>1, <3>2
    <3>4. s[x] = v[x - 1]
      BY <1>0
    <3> QED BY <3>1, <3>3, <3>4
  <2> QED BY <2>3, <2>4, <2>5 DEF Holds, IsAt
<1> QED BY <1>6, <1>7, <1>8, <1>9 DEF IsAt

-----------------------------------------------------------------------------
(* Erasure                                                                 *)
\* The indices that erase computes.
LEMMA ErasePlaces ==
  ASSUME NEW n \in Nat \ {0}, NEW b \in Nat, b < n, NEW c \in 0 .. (n - 1),
         NEW p \in 0 .. c, NEW q \in 0 .. c, p < q, NEW i, i = Place(n, b, p), NEW j, j = Place(n, b, q),
         NEW k, k = c - q, NEW z, z = p + k
  PROVE  /\ i \in Nat /\ j \in Nat /\ k \in Nat /\ z \in 0 .. (n - 1) /\ p \in 0 .. (n - 1) /\ q \in 0 .. (n - 1)
         /\ (i + k) % n = Place(n, b, z)
         /\ Place(n, j, k) = Place(n, b, c)
<1>1. /\ k \in Nat /\ z \in 0 .. (n - 1) /\ p \in 0 .. (n - 1) /\ q \in 0 .. (n - 1)
  OBVIOUS
<1>2. i \in Nat /\ j \in Nat /\ (i = b + p \/ i = b + p - n)
  BY <1>1 DEF Place
<1>3. (i + k) % n = Place(n, b, z)
  <2>0. n \in Nat \ {0} /\ b \in Nat /\ b < n
    OBVIOUS
  <2>1. PICK t \in Nat : t = i + k
    BY <1>1, <1>2
  <2>2. PICK g \in 0 .. (n - 1) : g = z
    BY <1>1
  <2>3. t = b + g \/ t = b + g - n
    BY <1>2, <2>1, <2>2
  <2>4. t % n = Place(n, b, g)
    BY ONLY <2>0, <2>1, <2>2, <2>3, PlaceMod
  <2> QED BY <2>1, <2>2, <2>4
<1>4. Place(n, j, k) = Place(n, b, c)
  BY <1>1 DEF Place
<1> QED BY <1>1, <1>2, <1>3, <1>4

\* The k slots from i, counted from p elements after b.
Onward(n, b, k, i, p) == \A o \in 1 .. k : (i + o - 1) % n = Place(n, b, p + o - 1)
\* The slots that are moved, modulo the size of the buffer.
LEMMA EraseSlots ==
  ASSUME NEW n \in Nat \ {0}, NEW b \in Nat, b < n, NEW k \in Nat, NEW p \in 0 .. (n - 1), p + k < n,
         NEW i, i = Place(n, b, p)
  PROVE  Onward(n, b, k, i, p)
<1>1. i \in Nat /\ (i = b + p \/ i = b + p - n)
  BY DEF Place
<1>2. ASSUME NEW o \in 1 .. k PROVE (i + o - 1) % n = Place(n, b, p + o - 1)
  <2>0. n \in Nat \ {0} /\ b \in Nat /\ b < n
    OBVIOUS
  <2>1. PICK t \in Nat : t = i + o - 1
    <3>1. i + o - 1 \in Nat
      BY <1>1
    <3> QED BY <3>1
  <2>2. PICK g \in 0 .. (n - 1) : g = p + o - 1
    <3>1. p + o - 1 \in 0 .. (n - 1)
      OBVIOUS
    <3> QED BY <3>1
  <2>3. t = b + g \/ t = b + g - n
    BY <1>1, <2>1, <2>2
  <2>4. t % n = Place(n, b, g)
    BY ONLY <2>0, <2>1, <2>2, <2>3, PlaceMod
  <2> QED BY <2>1, <2>2, <2>4
<1> QED BY <1>2 DEF Onward

\* r is d without the elements from position p up to q, and a where p is in it.
Erased(r, d, p, q, a) ==
  /\ Exact(r) /\ Spliced(Contents(r), Contents(d), p, <<>>, q) /\ r.touched = TRUE
  /\ a = Place(Cap(r), r.begin, p) /\ p <= Size(r)
\* erase removes the range, and returns where the next element is.
LEMMA EraseExact ==
  ASSUME NEW d, Exact(d), NEW p \in 0 .. Size(d), NEW q \in 0 .. Size(d), p <= q,
         NEW i, i = Place(Cap(d), d.begin, p), NEW j, j = Place(Cap(d), d.begin, q),
         NEW r, r = Erase(d, i, j), NEW a, a = AfterErase(d, i, j)
  PROVE  Erased(r, d, p, q, a)
<1>1. PICK c \in Nat : c = Size(d) /\ p \in 0 .. c /\ q \in 0 .. c
  BY ExactContents
<1>2. PICK f : f = IncrementGeneration(d)
  OBVIOUS
<1>3. PICK s : s = Contents(d)
  OBVIOUS
<1>4. Exact(f) /\ Contents(f) = s /\ f.touched = TRUE
  BY <1>2, <1>3, GenerationExact
<1>5. f.buf = d.buf /\ f.begin = d.begin /\ f.end = d.end
  BY <1>2 DEF IncrementGeneration, Exact, DequeType
<1>6. Cap(f) = Cap(d) /\ Size(f) = c
  BY <1>1, <1>5 DEF Cap, Size
<1>7. CASE p = q
  <2>1. i = j
    BY <1>7
  <2>2. r = f
    BY <1>2, <2>1 DEF Erase
  <2>3. a = i
    BY <2>1 DEF AfterErase
  <2>4. s \in Seq(Values) /\ p \in 0 .. Len(s)
    BY <1>1, <1>3, ExactContents
  <2>5. PICK xs : xs = <<>>
    OBVIOUS
  <2>6. Spliced(s, s, p, xs, p)
    BY <2>4, <2>5, SplicedNone
  <2> QED BY <1>1, <1>3, <1>4, <1>5, <1>6, <1>7, <2>2, <2>3, <2>5, <2>6 DEF Erased
<1>8. CASE p < q
  <2>1. PICK n : n = Cap(d)
    OBVIOUS
  <2>2. n > 0
    <3>1. n \in Nat /\ (n = 0 => c = 0)
      BY SMTT(20), <1>1, <2>1, ExactRing, ContentsAre DEF Ring, Count
    <3> QED BY <1>1, <1>8, <3>1
  <2>3. PICK v : Laid(f, n, v, c, s)
    BY <1>4, <1>6, <2>1, <2>2, LaidOf
  <2>4. PICK b : b = d.begin
    OBVIOUS
  <2>5. /\ Linear(f, n, b, v) /\ c \in 0 .. (n - 1) /\ f.end = Place(n, b, c) /\ Holds(n, v, c)
        /\ s \in Seq(Values) /\ Len(s) = c /\ IsAt(v, s, 0, 0, c)
    BY <1>5, <2>3, <2>4 DEF Laid
  <2>6. n \in Nat \ {0} /\ b \in Nat /\ b < n /\ v \in [0 .. (n - 1) -> Slot]
    BY <2>5, LinearRoom
  <2>7. PICK k, z : k = c - q /\ z = p + k
    OBVIOUS
  <2>8. /\ i \in Nat /\ j \in Nat /\ k \in Nat /\ z \in 0 .. (n - 1) /\ p \in 0 .. (n - 1) /\ q \in 0 .. (n - 1)
        /\ (i + k) % n = Place(n, b, z) /\ Place(n, j, k) = Place(n, b, c)
        /\ i = Place(n, b, p) /\ j = Place(n, b, q)
    <3>1. i = Place(n, b, p) /\ j = Place(n, b, q)
      BY <2>1, <2>4
    <3>2. p \in 0 .. c /\ q \in 0 .. c
      BY <1>1
    <3> QED BY ONLY <1>8, <2>5, <2>6, <2>7, <3>1, <3>2, ErasePlaces
  <2>p. /\ p \in 0 .. (n - 1) /\ q \in 0 .. (n - 1) /\ c \in 0 .. (n - 1)
        /\ i = Place(n, b, p) /\ j = Place(n, b, q)
    BY <2>5, <2>8
  <2>l. Linear(f, n, b, v)
    BY <2>5
  <2>9. PICK e : e = DestructRange(f, i, j)
    OBVIOUS
  <2>10. PICK w : w = [o \in 0 .. (n - 1) |-> IF p <= o /\ o < q THEN Raw ELSE v[o]]
    OBVIOUS
  <2>w. Emptied(w, v, n, p, q)
    BY <2>10 DEF Emptied
  <2>11. Linear(e, n, b, w) /\ SameMembers(e, f)
    <3>1. \A o \in p .. (q - 1) : v[o] # Raw
      <4> TAKE o \in p .. (q - 1)
      <4>1. o \in 0 .. (n - 1) /\ o < c
        BY <1>1, <2>5, <2>6
      <4> QED BY <2>5, <4>1 DEF Holds
    <3>2. p <= q
      OBVIOUS
    <3> QED BY ONLY <2>l, <2>p, <2>9, <2>10, <3>1, <3>2, LinearDestruct
  <2>12. e.begin = b /\ e.end = d.end /\ e.touched = TRUE /\ e \in DequeType /\ ~e.ub
    BY <1>4, <1>5, <2>4, <2>11 DEF SameMembers, Linear
  <2>13. Len(Slots(d, j, d.end)) = k
    <3>1. Linear(d, n, b, v)
      <4>1. d \in DequeType /\ ~d.ub /\ d.buf = f.buf
        BY <1>5 DEF Exact
      <4> QED BY <2>5, <4>1, LinearSame
    <3>2. PICK h : h = d.end /\ h = Place(n, b, c)
      BY <1>5, <2>5
    <3>3. q <= c
      BY <1>1
    <3>4. Along(Slots(d, j, h), n, b, q, k)
      BY ONLY <2>p, <2>7, <3>1, <3>2, <3>3, SlotsBetween
    <3> QED BY <3>2, <3>4 DEF Along
  <2>14. i # j
    BY <1>8, <2>6, <2>8, PlaceSame
  <2>15. PICK u : u = Closed(n, w, p, q, k)
    OBVIOUS
  <2>16. PICK y : y = [o \in 0 .. (n - 1) |-> w[IF o + q < n THEN o + q ELSE o + q - n]]
    OBVIOUS
  <2>y. Turned(y, w, n, q)
    BY <2>16 DEF Turned
  <2>17. /\ Holds(n, u, z) /\ IsAt(u, s, 0, 0, p) /\ IsAt(u, s, p, q, k)
         /\ p = 0 => Holds(n, y, z) /\ IsAt(y, s, 0, q, k)
    <3>1. p \in 0 .. c /\ q \in 0 .. c
      BY <1>1
    <3> QED BY ONLY <1>8, <2>5, <2>6, <2>7, <2>w, <2>15, <2>y, <3>1, RoomClosed
  <2>18. PICK xs : xs = <<>>
    OBVIOUS
  <2>x. xs \in Seq(Values) /\ Len(xs) = 0
    BY <2>18
  <2>19. p <= z /\ z = c - (q - p) + 0 /\ p + 0 = p /\ 0 + 0 = 0
    BY <1>1, <2>7
  <2>20. PICK t : t = Contents(r)
    OBVIOUS
  <2>21. CASE i = d.begin
    <3>1. p = 0
      BY <2>21, OffsetIs
    <3>2. r = [e EXCEPT !.begin = j] /\ a = j
      BY <1>2, <2>9, <2>14, <2>21 DEF Erase, AfterErase
    <3>3. r \in DequeType /\ ~r.ub /\ r.buf = e.buf /\ r.begin = j /\ r.end = d.end /\ r.touched = TRUE
      BY <2>8, <2>12, <3>2 DEF DequeType
    <3>4. Linear(r, n, b, w)
      BY <2>11, <3>3, LinearSame
    <3>5. Linear(r, n, j, y)
      BY <2>8, <2>16, <3>4, LinearFrom
    <3>6. z = k
      BY <2>8, <3>1, <2>7
    <3>7. Exact(r) /\ Cap(r) = n /\ Size(r) = z /\ Laid(r, n, y, z, t)
      <4>1. r.end = Place(n, r.begin, z)
        BY <1>5, <2>5, <2>8, <3>3, <3>6
      <4>2. Linear(r, n, r.begin, y)
        BY <3>3, <3>5
      <4>3. Holds(n, y, z)
        BY <2>17, <3>1
      <4> QED BY ONLY <2>8, <2>20, <4>1, <4>2, <4>3, ExactOf
    <3>8. Spliced(t, s, p, xs, q)
      <4>1. t \in Seq(Values) /\ Len(t) = z /\ IsAt(y, t, 0, 0, z)
        BY <3>7 DEF Laid
      <4>2. IsAt(y, s, 0, 0, p) /\ IsAt(y, xs, p, 0, 0)
        BY <3>1 DEF IsAt
      <4>3. IsAt(y, s, p + 0, q, c - q)
        BY <2>7, <2>17, <3>1
      <4>4. p \in 0 .. c /\ q \in 0 .. c /\ p <= q /\ 0 \in Nat /\ c \in Nat
        BY <1>1
      <4> QED BY ONLY <2>5, <2>x, <2>19, <4>1, <4>2, <4>3, <4>4, SplicedOf
    <3> QED BY <1>3, <2>18, <2>19, <2>20, <3>1, <3>2, <3>3, <3>7, <3>8, PlaceZero DEF Erased
  <2>22. CASE i # d.begin
    <3>1. PICK last : last = Place(n, b, z) /\ (i + k) % n = last
      BY <2>8
    <3>2. PICK g : g = [e EXCEPT !.end = last]
      OBVIOUS
    <3>3. PICK src, dest : /\ src = [o \in 1 .. k |-> Place(n, b, q + o - 1)]
                           /\ dest = [o \in 1 .. k |-> Place(n, b, p + o - 1)]
      OBVIOUS
    <3>4. r = MoveEach(g, src, dest) /\ a = i
      <4>1. [o \in 1 .. k |-> (j + o - 1) % n] = src
        <5>1. q + k < n
          BY <2>5, <2>6, <2>7, <2>8
        <5>2. Onward(n, b, k, j, q)
          BY ONLY <2>6, <2>8, <5>1, EraseSlots
        <5> QED BY <3>3, <5>2 DEF Onward
      <4>2. [o \in 1 .. k |-> (i + o - 1) % n] = dest
        <5>1. p + k < n
          BY <2>6, <2>7, <2>8
        <5>2. Onward(n, b, k, i, p)
          BY ONLY <2>6, <2>8, <5>1, EraseSlots
        <5> QED BY <3>3, <5>2 DEF Onward
      <4>3. r = MoveEach([e EXCEPT !.end = (i + k) % n],
                         [o \in 1 .. k |-> (j + o - 1) % n], [o \in 1 .. k |-> (i + o - 1) % n])
        BY <1>2, <2>1, <2>9, <2>13, <2>14, <2>22 DEF Erase
      <4>4. a = i
        BY <2>22 DEF AfterErase
      <4> QED BY <3>1, <3>2, <4>1, <4>2, <4>3, <4>4
    <3>5. Linear(g, n, b, w) /\ g.begin = b /\ g.end = last /\ g.touched = TRUE
      <4>1. last \in Nat
        BY <2>6, <2>8, <3>1, PlaceIn
      <4>2. g \in DequeType /\ ~g.ub /\ g.buf = e.buf /\ g.begin = b /\ g.end = last /\ g.touched = TRUE
        BY <2>12, <3>2, <4>1 DEF DequeType
      <4> QED BY <2>11, <4>2, LinearSame
    <3>6. Linear(r, n, b, u) /\ SameMembers(r, g)
      <4>1. \A o \in 0 .. (n - 1) : w[o] # Raw <=> (o < p \/ (q <= o /\ o < c))
        <5>1. \A o \in 0 .. (n - 1) : v[o] # Raw <=> o < c
          BY <2>5 DEF Holds
        <5> QED BY <1>1, <1>8, <2>6, <2>10, <5>1
      <4>2. p \in 0 .. c /\ q \in 0 .. c
        BY <1>1
      <4>3. r = MoveEach(g, src, dest)
        BY <3>4
      <4>4. Gapped(n, w, p, q, c)
        BY <4>1 DEF Gapped
      <4>5. MovesDown(n, b, p, q, k, src, dest)
        BY <3>3 DEF MovesDown
      <4> QED BY ONLY <1>8, <2>p, <2>7, <2>15, <3>5, <4>2, <4>3, <4>4, <4>5, MoveDownLinear
    <3>7. r.begin = b /\ r.end = last /\ r.touched = TRUE
      BY <3>5, <3>6 DEF SameMembers
    <3>8. Exact(r) /\ Cap(r) = n /\ Size(r) = z /\ Laid(r, n, u, z, t)
      <4>1. r.end = Place(n, r.begin, z) /\ Linear(r, n, r.begin, u)
        BY <3>1, <3>6, <3>7
      <4> QED BY ONLY <2>8, <2>17, <2>20, <4>1, ExactOf
    <3>9. Spliced(t, s, p, xs, q)
      <4>1. t \in Seq(Values) /\ Len(t) = z /\ IsAt(u, t, 0, 0, z)
        BY <3>8 DEF Laid
      <4>2. IsAt(u, s, 0, 0, p) /\ IsAt(u, xs, p, 0, 0)
        BY <2>17 DEF IsAt
      <4>3. IsAt(u, s, p + 0, q, c - q)
        BY <2>7, <2>17, <2>19
      <4>4. p \in 0 .. c /\ q \in 0 .. c /\ p <= q /\ 0 \in Nat /\ c \in Nat
        BY <1>1
      <4> QED BY ONLY <2>5, <2>x, <2>19, <4>1, <4>2, <4>3, <4>4, SplicedOf
    <3> QED BY <1>3, <2>8, <2>18, <2>19, <2>20, <3>4, <3>7, <3>8, <3>9 DEF Erased
  <2> QED BY <2>21, <2>22
<1>9. p = q \/ p < q
  BY <1>1
<1> QED BY <1>7, <1>8, <1>9

-----------------------------------------------------------------------------
(* Erasure by value                                                        *)
\* Erase of a value keeps the others, in order.
LEMMA EraseValueExact ==
  ASSUME NEW d, Exact(d), Size(d) > 0, NEW x, NEW r, r = EraseValue(d, x),
         NEW kept, kept = Without(Contents(d), x)
  PROVE  Exact(r) /\ Contents(r) = kept /\ r.touched = TRUE
<1>1. PICK c \in Nat : c = Size(d)
  BY ExactContents
<1>2. PICK n : n = Cap(d)
  OBVIOUS
<1>3. n > 0
  <2>1. n \in Nat /\ (n = 0 => c = 0)
    <3>1. Ring(d.buf, n, d.begin, d.end)
      BY <1>2, ExactRing
    <3>2. c = Count(n, d.begin, d.end)
      BY <1>1, <3>1, ContentsAre
    <3> QED BY <3>1, <3>2 DEF Ring, Count
  <2> QED BY <1>1, <2>1
<1>4. PICK s : s = Contents(d)
  OBVIOUS
<1>5. PICK v : Laid(d, n, v, c, s)
  BY <1>1, <1>2, <1>3, <1>4, LaidOf
<1>6. PICK b : b = d.begin
  OBVIOUS
<1>7. /\ Linear(d, n, b, v) /\ c \in 0 .. (n - 1) /\ d.end = Place(n, b, c) /\ Holds(n, v, c)
      /\ s \in Seq(Values) /\ Len(s) = c
  BY <1>5, <1>6 DEF Laid
<1>8. n \in Nat \ {0} /\ b \in Nat /\ b < n /\ v \in [0 .. (n - 1) -> Slot]
  BY <1>7, LinearRoom
<1>9. PICK m \in 0 .. c : m = Len(kept) /\ kept \in Seq(Values)
  BY <1>4, <1>7, WithoutIs
<1>10. kept \in [1 .. m -> Values] /\ m \in 0 .. (n - 1) /\ m \in Nat
  BY <1>7, <1>8, <1>9
<1>11. PICK slots : slots = Slots(d, d.begin, d.end)
  OBVIOUS
<1>12. \A k \in 1 .. c : slots[k] = Place(n, b, k - 1)
  BY <1>1, <1>2, <1>6, <1>11, ExactSlots
<1>13. PICK g : g = AssignEach(d, slots, kept)
  OBVIOUS
<1>14. PICK w : w = Filled(n, v, 0, kept, m)
  OBVIOUS
<1>15. Linear(g, n, b, w) /\ SameMembers(g, d)
  BY ONLY <1>7, <1>9, <1>10, <1>12, <1>13, <1>14, AssignEachLinear
<1>16. /\ \A o \in 0 .. (n - 1) : o < m => w[o] = kept[o + 1]
       /\ Holds(n, w, c)
  <2>1. ASSUME NEW o \in 0 .. (n - 1), o < m PROVE w[o] = kept[o + 1] /\ kept[o + 1] # Raw /\ o < c
    <3>1. 0 <= o /\ o < 0 + m /\ o - 0 + 1 = o + 1 /\ o + 1 \in 1 .. m /\ o < c
      BY <1>8, <1>10, <2>1
    <3> QED BY <1>10, <1>14, <3>1, DequeAssumption DEF Filled
  <2>2. ASSUME NEW o \in 0 .. (n - 1), ~(o < m) PROVE w[o] = v[o]
    <3>1. ~(o < 0 + m)
      BY <1>8, <1>10, <2>2
    <3> QED BY <1>14, <3>1 DEF Filled
  <2> QED BY <1>7, <2>1, <2>2 DEF Holds
<1>17. PICK t : t = Contents(g)
  OBVIOUS
<1>18. g.begin = b /\ g.end = Place(n, b, c)
  BY <1>6, <1>7, <1>15 DEF SameMembers
<1>19. Exact(g) /\ Cap(g) = n /\ Size(g) = c /\ Laid(g, n, w, c, t)
  <2>1. Linear(g, n, g.begin, w) /\ g.end = Place(n, g.begin, c)
    BY <1>15, <1>18
  <2>2. c \in 0 .. (n - 1)
    BY <1>7
  <2>3. Holds(n, w, c)
    BY <1>16
  <2> QED BY ONLY <1>17, <2>1, <2>2, <2>3, ExactOf
<1>20. PICK i, j : i = (b + m) % n /\ j = d.end
  OBVIOUS
<1>21. i = Place(Cap(g), g.begin, m) /\ j = Place(Cap(g), g.begin, c)
  BY <1>7, <1>8, <1>10, <1>18, <1>19, <1>20, PlaceOf
<1>22. r = Erase(g, i, j)
  BY <1>2, <1>4, <1>6, <1>9, <1>11, <1>13, <1>20 DEF EraseValue
<1>23. Exact(r) /\ Spliced(Contents(r), t, m, <<>>, c) /\ r.touched = TRUE
  <2>1. m \in 0 .. Size(g) /\ c \in 0 .. Size(g) /\ m <= c
    BY <1>9, <1>19
  <2>2. PICK p \in 0 .. Size(g), q \in 0 .. Size(g) : p = m /\ q = c
    BY <2>1
  <2>3. PICK a : a = AfterErase(g, i, j)
    OBVIOUS
  <2>4. Exact(g) /\ p <= q /\ i = Place(Cap(g), g.begin, p) /\ j = Place(Cap(g), g.begin, q)
    BY <1>19, <1>21, <2>1, <2>2
  <2>5. Erased(r, g, p, q, a)
    BY <1>22, <2>3, <2>4, EraseExact
  <2> QED BY <1>17, <2>2, <2>5 DEF Erased
<1>24. PICK u : u = Contents(r)
  OBVIOUS
<1>25. u \in Seq(Values) /\ Len(u) = m /\ \A k \in 1 .. m : u[k] = t[k]
  <2>1. PICK xs : xs = <<>>
    OBVIOUS
  <2>2. Len(t) = c /\ Len(xs) = 0
    BY <1>19, <2>1 DEF Laid
  <2>3. u \in Seq(Values) /\ Len(u) = Len(t) - (c - m) + Len(xs) /\ \A k \in 1 .. m : u[k] = t[k]
    BY <1>23, <1>24, <2>1 DEF Spliced
  <2>4. c - (c - m) + 0 = m
    BY <1>9
  <2> QED BY <2>2, <2>3, <2>4
<1>26. \A k \in 1 .. m : t[k] = kept[k]
  <2> TAKE k \in 1 .. m
  <2>1. PICK o \in 0 .. (n - 1) : o = k - 1 /\ o < m /\ o + 1 = k
    <3>1. k - 1 \in 0 .. (n - 1) /\ k - 1 < m /\ k - 1 + 1 = k
      BY <1>8, <1>10
    <3> QED BY <3>1
  <2>2. k \in 1 .. c /\ 0 + k - 1 = o /\ 0 + k = k
    BY <1>9, <2>1
  <2>3. w[0 + k - 1] = t[0 + k]
    BY <1>19, <2>2 DEF Laid, IsAt
  <2>4. w[o] = kept[o + 1]
    BY <1>16, <2>1
  <2> QED BY <2>1, <2>2, <2>3, <2>4
<1>27. u = kept
  <2>1. \A k \in 1 .. Len(kept) : u[k] = kept[k]
    BY <1>9, <1>25, <1>26
  <2>2. kept \in Seq(Values) /\ Len(u) = Len(kept)
    BY <1>9, <1>25
  <2> QED BY <1>25, <2>1, <2>2, SameElements
<1> QED BY <1>23, <1>24, <1>27

-----------------------------------------------------------------------------
(* Iterators                                                               *)
\* i is at position p of d.
Points(i, d, p) == p \in 0 .. Size(d) /\ i = Iterator(d, Place(Cap(d), d.begin, p))

\* What such an iterator holds.
LEMMA PointsIs ==
  ASSUME NEW d, Exact(d), NEW p, NEW i, Points(i, d, p)
  PROVE  /\ i.index = Place(Cap(d), d.begin, p) /\ i.cap = Cap(d) /\ i.begin = d.begin /\ i.end = d.end
         /\ i.freed = FALSE /\ i.index \in Nat /\ i # None
         /\ i \in [index : Nat, cap : Nat, begin : Nat, end : Nat, freed : BOOLEAN]
<1>1. p \in 0 .. Size(d) /\ i = Iterator(d, Place(Cap(d), d.begin, p))
  BY DEF Points
<1>2. PICK a : a = Place(Cap(d), d.begin, p)
  OBVIOUS
<1>3. a \in Nat
  BY <1>1, <1>2, OffsetIs
<1>4. Cap(d) \in Nat /\ d.begin \in Nat /\ d.end \in Nat
  BY ExactRing DEF Ring
<1>5. i = [index |-> a, cap |-> Cap(d), begin |-> d.begin, end |-> d.end, freed |-> FALSE]
  BY <1>1, <1>2 DEF Iterator
<1>6. i \in [index : Nat, cap : Nat, begin : Nat, end : Nat, freed : BOOLEAN]
  BY <1>3, <1>4, <1>5
<1>7. i # None
  BY <1>6, NoIteratorAssumption
<1> QED BY <1>2, <1>3, <1>5, <1>6, <1>7

\* What an iterator computes from what it cached, and the checks it passes.
LEMMA PointsAt ==
  ASSUME NEW d, Exact(d), NEW p, NEW i, Points(i, d, p)
  PROVE  /\ Offset(i) = p /\ SizeThen(i) = Size(d)
         /\ CheckValidIndexOrEnd(d, i.index)
         /\ CheckValidIndex(d, i.index) <=> p < Size(d)
         /\ i.index # i.begin <=> p # 0
         /\ i.index # i.end <=> p # Size(d)
<1>1. PICK q \in 0 .. Size(d) : q = p
  BY DEF Points
<1>2. PICK a : a = Place(Cap(d), d.begin, q)
  OBVIOUS
<1>3. /\ OffsetFromBegin(d, a) = q
      /\ a = d.begin <=> q = 0
      /\ a = d.end <=> q = Size(d)
      /\ a \in Nat
  BY <1>2, OffsetIs
<1>4. i.index = a /\ i.cap = Cap(d) /\ i.begin = d.begin /\ i.end = d.end
  BY <1>1, <1>2, PointsIs
<1>5. Offset(i) = q
  BY <1>3, <1>4 DEF Offset, OffsetFromBegin
<1>6. SizeThen(i) = Size(d)
  BY <1>4 DEF SizeThen, Size
<1>c. PICK c \in Nat : c = Size(d)
  BY ExactContents
<1>7. PICK n, b, e : n = Cap(d) /\ b = d.begin /\ e = d.end /\ c = Size(d)
  BY <1>c
<1>8. n \in Nat /\ b \in Nat /\ e \in Nat /\ (n = 0 \/ (b < n /\ e < n)) /\ c = Count(n, b, e) /\ (n = 0 => b = e)
  <2>1. Ring(d.buf, n, b, e)
    BY <1>7, ExactRing
  <2>2. c = Count(n, b, e)
    BY <1>7, <2>1, ContentsAre
  <2>3. n \in Nat /\ b \in Nat /\ e \in Nat /\ (n = 0 \/ (b < n /\ e < n)) /\ (n = 0 => b = e)
    BY <2>1 DEF Ring
  <2> QED BY <2>2, <2>3
<1>9. a = Place(n, b, q) /\ q \in 0 .. c
  BY <1>2, <1>7
<1>10. CheckValidIndex(d, a) <=> q < c
  <2>1. CheckValidIndex(d, a) <=> (IF b <= e THEN a >= b /\ a < e ELSE (a >= b /\ a < n) \/ a < e)
    BY <1>7 DEF CheckValidIndex
  <2>2. (IF b <= e THEN a >= b /\ a < e ELSE (a >= b /\ a < n) \/ a < e) <=> q < c
    BY <1>8, <1>9 DEF Place, Count
  <2> QED BY <2>1, <2>2
<1>11. CheckValidIndexOrEnd(d, a)
  <2>1. q < c \/ q = c
    BY <1>9
  <2> QED BY <1>3, <1>7, <1>10, <2>1 DEF CheckValidIndexOrEnd
<1> QED BY <1>1, <1>3, <1>4, <1>5, <1>6, <1>7, <1>10, <1>11

\* An iterator moved to another position.
LEMMA Moved ==
  ASSUME NEW d, Exact(d), NEW p, NEW i, Points(i, d, p), NEW q \in 0 .. Size(d), NEW a, a = Place(Cap(d), d.begin, q),
         NEW j, j = [i EXCEPT !.index = a]
  PROVE  Points(j, d, q)
<1>1. p \in 0 .. Size(d) /\ i = Iterator(d, Place(Cap(d), d.begin, p))
  BY DEF Points
<1>2. j = [index |-> a, cap |-> Cap(d), begin |-> d.begin, end |-> d.end, freed |-> FALSE]
  BY <1>1 DEF Iterator
<1> QED BY <1>2 DEF Points, Iterator

\* Incremented.
LEMMA IncrementIs ==
  ASSUME NEW d, Exact(d), NEW p, NEW i, Points(i, d, p), p < Size(d), NEW j, j = [i EXCEPT !.index = Increment(i)]
  PROVE  Points(j, d, p + 1) /\ p + 1 \in 0 .. Size(d)
<1>1. PICK c \in Nat : c = Size(d)
  BY ExactContents
<1>2. PICK q \in 0 .. c : q = p /\ q < c
  BY <1>1 DEF Points
<1>3. PICK n, b : n = Cap(d) /\ b = d.begin
  OBVIOUS
<1>4. n \in Nat \ {0} /\ b \in Nat /\ b < n /\ c \in 0 .. (n - 1)
  <2>1. n > 0
    <3>1. Ring(d.buf, n, b, d.end)
      BY <1>3, ExactRing
    <3>2. c = Count(n, b, d.end)
      BY <1>1, <1>3, <3>1, ContentsAre
    <3> QED BY <1>2, <3>1, <3>2 DEF Ring, Count
  <2> QED BY <1>1, <1>3, <2>1, LaidOut
<1>5. PICK a : a = Increment(i)
  OBVIOUS
<1>6. i.index = Place(n, b, q) /\ i.cap = n
  BY <1>2, <1>3, PointsIs
<1>7. PICK z \in 0 .. Size(d) : z = q + 1
  BY <1>1, <1>2
<1>8. a = Place(n, b, z)
  BY <1>1, <1>2, <1>4, <1>5, <1>6, <1>7 DEF Increment, Place
<1>9. Points(j, d, z)
  BY <1>3, <1>5, <1>8, Moved
<1> QED BY <1>2, <1>7, <1>9

\* Decremented.
LEMMA DecrementIs ==
  ASSUME NEW d, Exact(d), NEW p, NEW i, Points(i, d, p), p # 0, NEW j, j = [i EXCEPT !.index = Decrement(i)]
  PROVE  Points(j, d, p - 1) /\ p - 1 \in 0 .. Size(d)
<1>1. PICK c \in Nat : c = Size(d)
  BY ExactContents
<1>2. PICK q \in 0 .. c : q = p /\ q > 0
  BY <1>1 DEF Points
<1>3. PICK n, b : n = Cap(d) /\ b = d.begin
  OBVIOUS
<1>4. n \in Nat \ {0} /\ b \in Nat /\ b < n /\ c \in 0 .. (n - 1)
  <2>1. n > 0
    <3>1. Ring(d.buf, n, b, d.end)
      BY <1>3, ExactRing
    <3>2. c = Count(n, b, d.end)
      BY <1>1, <1>3, <3>1, ContentsAre
    <3> QED BY <1>2, <3>1, <3>2 DEF Ring, Count
  <2> QED BY <1>1, <1>3, <2>1, LaidOut
<1>5. PICK a : a = Decrement(i)
  OBVIOUS
<1>6. i.index = Place(n, b, q) /\ i.cap = n
  BY <1>2, <1>3, PointsIs
<1>7. PICK z \in 0 .. Size(d) : z = q - 1
  BY <1>1, <1>2
<1>8. a = Place(n, b, z)
  BY <1>1, <1>2, <1>4, <1>5, <1>6, <1>7 DEF Decrement, Place
<1>9. Points(j, d, z)
  BY <1>3, <1>5, <1>8, Moved
<1> QED BY <1>2, <1>7, <1>9

\* Advanced by an offset.
LEMMA AddIs ==
  ASSUME NEW d, Exact(d), NEW p, NEW i, Points(i, d, p), NEW q \in 0 .. Size(d), q # p, NEW delta, delta = q - p,
         NEW a, a = Add(i, delta)
  PROVE  a = Place(Cap(d), d.begin, q)
<1>1. PICK c \in Nat : c = Size(d)
  BY ExactContents
<1>2. PICK k \in 0 .. c : k = p
  BY <1>1 DEF Points
<1>3. PICK n, b : n = Cap(d) /\ b = d.begin
  OBVIOUS
<1>4. n \in Nat \ {0} /\ b \in Nat /\ b < n /\ c \in 0 .. (n - 1)
  <2>1. n > 0
    <3>1. Ring(d.buf, n, b, d.end)
      BY <1>3, ExactRing
    <3>2. c = Count(n, b, d.end)
      BY <1>1, <1>3, <3>1, ContentsAre
    <3>3. c > 0
      BY <1>1, <1>2
    <3> QED BY <3>1, <3>2, <3>3 DEF Ring, Count
  <2> QED BY <1>1, <1>3, <2>1, LaidOut
<1>5. Offset(i) = k /\ i.cap = n /\ i.begin = b
  <2>1. Offset(i) = p
    BY PointsAt
  <2>2. i.cap = n /\ i.begin = b
    BY <1>3, PointsIs
  <2> QED BY <1>2, <2>1, <2>2
<1>6. PICK t \in Nat : t = k + delta + b
  BY <1>1, <1>2, <1>4
<1>7. a = t % n
  BY <1>5, <1>6 DEF Add
<1>8. PICK h \in 0 .. (n - 1) : h = q /\ t = b + h
  BY <1>1, <1>2, <1>4, <1>6
<1>9. t % n = Place(n, b, h)
  BY ONLY <1>4, <1>6, <1>8, PlaceMod
<1> QED BY <1>3, <1>7, <1>8, <1>9

-----------------------------------------------------------------------------
(* The steps of the specification: whole operations                        *)

\* The deque between operations, and an iterator that may be used.
Sound(d, i) ==
  /\ Exact(d) /\ d.touched = FALSE /\ d.moved = FALSE /\ Size(d) <= MaxSize
  /\ i # None => \E p : Points(i, d, p)

\* Between two operations only the generation is forgotten.
LEMMA SettledIs ==
  ASSUME NEW d, Exact(d), NEW r, r = Settled(d)
  PROVE  /\ Exact(r) /\ Contents(r) = Contents(d) /\ r.touched = FALSE /\ r.moved = FALSE
         /\ Cap(r) = Cap(d) /\ Size(r) = Size(d) /\ r.begin = d.begin /\ r.end = d.end
<1>1. d \in DequeType
  BY DEF Exact
<1>2. /\ r \in DequeType /\ r.buf = d.buf /\ r.begin = d.begin /\ r.end = d.end /\ r.ub = d.ub
      /\ r.touched = FALSE /\ r.moved = FALSE
  BY <1>1 DEF Settled, DequeType
<1>3. PICK n : Ring(d.buf, n, d.begin, d.end)
  BY DEF Exact
<1>4. n \in Nat /\ Ring(r.buf, n, r.begin, r.end)
  BY <1>2, <1>3 DEF Ring
<1>5. Exact(r)
  BY <1>2, <1>4 DEF Exact
<1>6. Cap(r) = Cap(d)
  BY <1>2 DEF Cap
<1>7. Contents(r) = Contents(d) /\ Size(r) = Size(d)
  BY <1>2, <1>3, <1>4, ContentsAre
<1> QED BY <1>2, <1>5, <1>6, <1>7

\* What an action does that modifies the deque to one of the elements t, by which
\* the iterator is lost; and what one does after which the iterator is at position p.
Modifies(what, t) == Sound(deque', it') /\ it' = None /\ op' = what /\ Contents(deque') = t
LeavesAt(what, t, p) == Sound(deque', it') /\ Points(it', deque', p) /\ op' = what /\ Contents(deque') = t

\* The first of them is a step of the abstract deque.
LEMMA ModifiesIs ==
  ASSUME NEW what, NEW t, Modifies(what, t)
  PROVE  Sound(deque, it)' /\ Sequence!Does(what) /\ Sequence!Modify(t)
<1>1. Sound(deque, it)'
  BY DEF Modifies
<1>2. Sequence!Does(what)
  BY DEF Modifies, Sequence!Does
<1>3. Sequence!Modify(t)
  BY DEF Modifies, Sequence!Modify
<1> QED BY <1>1, <1>2, <1>3

\* The abstract cursor of an iterator at position p is p.
LEMMA CursorIs ==
  ASSUME NEW d, Exact(d), NEW i, NEW p, Points(i, d, p)
  PROVE  i # None /\ OffsetFromBegin(d, i.index) = p
<1>1. PICK q \in 0 .. Size(d) : q = p
  BY DEF Points
<1>2. PICK a : a = i.index
  OBVIOUS
<1>3. i # None /\ a = Place(Cap(d), d.begin, q)
  BY <1>1, <1>2, PointsIs
<1>4. OffsetFromBegin(d, a) = q
  BY <1>3, OffsetIs
<1> QED BY <1>1, <1>2, <1>3, <1>4

\* So is the second.
LEMMA LeavesAtIs ==
  ASSUME NEW what, NEW t, NEW p, LeavesAt(what, t, p)
  PROVE  Sound(deque, it)' /\ Sequence!Does(what) /\ Sequence!ModifyAt(t, p)
<1>1. Sound(deque, it)'
  BY DEF LeavesAt
<1>2. Sequence!Does(what)
  BY DEF LeavesAt, Sequence!Does
<1>3. it' # None /\ OffsetFromBegin(deque', it'.index) = p
  BY CursorIs DEF LeavesAt, Sound
<1>4. Sequence!ModifyAt(t, p)
  BY <1>3 DEF LeavesAt, Sequence!ModifyAt
<1> QED BY <1>1, <1>2, <1>4

\* An operation that invalidates the iterators.
LEMMA PerformModifies ==
  ASSUME NEW r, Exact(r), r.touched = TRUE, NEW what, Perform(what, r), NEW t, t = Contents(r)
  PROVE  Modifies(what, t)
<1>1. deque' = Settled(r) /\ it' = None /\ op' = what /\ Size(r) <= MaxSize
  BY DEF Perform, Keep
<1>2. PICK e : e = Settled(r)
  OBVIOUS
<1>3. Exact(e) /\ Contents(e) = t /\ e.touched = FALSE /\ e.moved = FALSE /\ Size(e) <= MaxSize
  BY <1>1, <1>2, SettledIs
<1>4. Sound(e, None)
  BY <1>3 DEF Sound
<1> QED BY <1>1, <1>2, <1>3, <1>4 DEF Modifies

\* An operation that returns an iterator.
LEMMA PerformPlaces ==
  ASSUME NEW r, Exact(r), NEW what, NEW a, NEW p, a = Place(Cap(r), r.begin, p), p \in 0 .. Size(r),
         PerformAt(what, r, a), NEW t, t = Contents(r)
  PROVE  LeavesAt(what, t, p)
<1>1. deque' = Settled(r) /\ it' = Iterator(r, a) /\ op' = what /\ Size(r) <= MaxSize
  BY DEF PerformAt
<1>2. PICK e : e = Settled(r)
  OBVIOUS
<1>3. /\ Exact(e) /\ Contents(e) = t /\ e.touched = FALSE /\ e.moved = FALSE /\ Size(e) <= MaxSize
      /\ Cap(e) = Cap(r) /\ Size(e) = Size(r) /\ e.begin = r.begin /\ e.end = r.end
  BY <1>1, <1>2, SettledIs
<1>4. PICK j : j = Iterator(r, a)
  OBVIOUS
<1>5. Points(j, e, p)
  BY <1>3, <1>4 DEF Points, Iterator
<1>6. Sound(e, j)
  BY <1>3, <1>5 DEF Sound
<1> QED BY <1>1, <1>2, <1>3, <1>4, <1>5, <1>6 DEF LeavesAt

\* The ranges that operations are given are sequences of values.
LEMMA SeqOfIs ==
  /\ \A xs \in Ranges : xs \in Seq(Values)
  /\ \A n \in 0 .. MaxRange, x \in Values : Copies(n, x) \in Ranges /\ Copies(n, x) \in Seq(Values)
<1>1. MaxRange \in Nat
  BY ElementsAssumption
<1>2. ASSUME NEW xs \in Ranges PROVE xs \in Seq(Values)
  BY <1>1 DEF Ranges, SeqOf
<1>3. ASSUME NEW n \in 0 .. MaxRange, NEW x \in Values PROVE Copies(n, x) \in Ranges /\ Copies(n, x) \in Seq(Values)
  <2>1. n \in Nat
    BY <1>1
  <2>2. Copies(n, x) \in [1 .. n -> Values] /\ Copies(n, x) \in Seq(Values)
    BY <2>1, CopiesAre
  <2>3. Copies(n, x) \in Ranges
    BY <2>2 DEF Ranges, SeqOf
  <2> QED BY <2>2, <2>3
<1> QED BY <1>2, <1>3

\* The operations on the whole deque.
LEMMA WholeStep ==
  ASSUME Sound(deque, it), KeepsIterators = FALSE, op = None, Whole
  PROVE  Sound(deque, it)' /\ Sequence!Next
<1> DEFINE s == Contents(deque)
<1>1. Exact(deque)
  BY DEF Sound
<1>n. Sequence!Next <=> \/ Sequence!Return
  \/ /\ op = None
     /\ \/ \E x \in Values : Sequence!PushBack(x) \/ Sequence!PushFront(x) \/ Sequence!Emplace(x) \/ Sequence!EraseValue(x)
        \/ Sequence!PopBack \/ Sequence!PopFront \/ Sequence!Clear \/ Sequence!Reallocate
        \/ \E n \in 0..MaxSize, x \in Values : Sequence!Resize(n, x)
        \/ \E xs \in Sequence!Ranges : Sequence!Assign(xs) \/ Sequence!Insert(xs)
        \/ \E n \in 0..MaxSize : Sequence!Erase(n)
        \/ \E i \in 0..1 : Sequence!Point(i)
        \/ \E k \in -MaxSize..MaxSize : Sequence!Step(k)
  BY DEF Sequence!Next
<1>s. s \in Seq(Values) /\ Len(s) = Size(deque) /\ Size(deque) \in Nat
  BY <1>1, ExactContents
<1> HIDE DEF s
<1>2. ASSUME NEW x \in Values, Perform(<<"push_back", x>>, EmplaceBack(deque, x))
      PROVE  Sound(deque, it)' /\ Sequence!PushBack(x)
  <2>1. PICK r, t : r = EmplaceBack(deque, x) /\ t = Append(s, x)
    OBVIOUS
  <2>2. Exact(r) /\ Contents(r) = t /\ r.touched = TRUE
    BY <1>1, <2>1, EmplaceBackExact DEF s
  <2>3. Modifies(<<"push_back", x>>, t)
    BY <1>2, <2>1, <2>2, PerformModifies
  <2> QED BY <2>1, <2>3, ModifiesIs DEF Sequence!PushBack, s
<1>3. ASSUME NEW x \in Values, Perform(<<"push_front", x>>, EmplaceFront(deque, x))
      PROVE  Sound(deque, it)' /\ Sequence!PushFront(x)
  <2>1. PICK r, t : r = EmplaceFront(deque, x) /\ t = <<x>> \o s
    OBVIOUS
  <2>2. Exact(r) /\ Contents(r) = t /\ r.touched = TRUE
    BY <1>1, <2>1, EmplaceFrontExact DEF s
  <2>3. Modifies(<<"push_front", x>>, t)
    BY <1>3, <2>1, <2>2, PerformModifies
  <2> QED BY <2>1, <2>3, ModifiesIs DEF Sequence!PushFront, s
<1>4. ASSUME NEW x \in Values, Size(deque) > 0, Perform(<<"Erase", x>>, EraseValue(deque, x))
      PROVE  Sound(deque, it)' /\ Sequence!EraseValue(x)
  <2>1. PICK r, t : r = EraseValue(deque, x) /\ t = Without(s, x)
    OBVIOUS
  <2>2. Exact(r) /\ Contents(r) = t /\ r.touched = TRUE
    BY <1>1, <1>4, <2>1, EraseValueExact DEF s
  <2>3. Modifies(<<"Erase", x>>, t)
    BY <1>4, <2>1, <2>2, PerformModifies
  <2>4. Sequence!Without(s, x) = Without(s, x)
    BY DEF Sequence!Without, Without, Sequence!FoldLeft, FoldLeft, Sequence!MapThenFoldSet, MapThenFoldSet, Sequence!Max, Max
  <2> QED BY <2>1, <2>3, <2>4, ModifiesIs DEF Sequence!EraseValue, s
<1>5. ASSUME NEW n \in 0 .. MaxSize, NEW x \in Values, Perform(<<"resize", n, x>>, Resize(deque, n, x))
      PROVE  Sound(deque, it)' /\ Sequence!Resize(n, x)
  <2>0. n \in Nat
    BY DequeAssumption
  <2>1. PICK r, t : r = Resize(deque, n, x) /\ t = IF n <= Len(s) THEN SubSeq(s, 1, n) ELSE s \o Copies(n - Len(s), x)
    OBVIOUS
  <2>2. Exact(r) /\ Contents(r) = t /\ r.touched = TRUE
    <3>1. PICK u : u = Contents(deque) /\ u = s
      BY DEF s
    <3>2. Becomes(r, Resized(u, n, x))
      BY <1>1, <2>0, <2>1, <3>1, ResizeExact
    <3> QED BY <2>1, <3>1, <3>2 DEF Resized, Becomes
  <2>3. Modifies(<<"resize", n, x>>, t)
    BY <1>5, <2>1, <2>2, PerformModifies
  <2>4. \A k : Sequence!Copies(k, x) = Copies(k, x)
    BY DEF Sequence!Copies, Copies
  <2> QED BY <2>1, <2>3, <2>4, ModifiesIs DEF Sequence!Resize, Sequence!Take, s
<1>6. ASSUME NEW n \in 0 .. MaxRange, NEW x \in Values, Perform(<<"assign", Copies(n, x)>>, AssignCopies(deque, n, x))
      PROVE  Sound(deque, it)' /\ \E xs \in Ranges : Sequence!Assign(xs)
  <2>0. n \in Nat
    BY ElementsAssumption
  <2>1. PICK r, t : r = AssignCopies(deque, n, x) /\ t = Copies(n, x)
    OBVIOUS
  <2>2. Exact(r) /\ Contents(r) = t /\ r.touched = TRUE
    BY <1>1, <2>0, <2>1, AssignCopiesExact
  <2>3. Modifies(<<"assign", t>>, t)
    BY <1>6, <2>1, <2>2, PerformModifies
  <2>4. t \in Ranges
    BY <2>1, SeqOfIs
  <2>5. Sound(deque, it)' /\ Sequence!Assign(t)
    BY <2>3, ModifiesIs DEF Sequence!Assign
  <2> QED BY <2>4, <2>5
<1>7. ASSUME Size(deque) > 0, Perform(<<"pop_back">>, PopBack(deque))
      PROVE  Sound(deque, it)' /\ Sequence!PopBack
  <2>1. PICK r, t : r = PopBack(deque) /\ t = Front(s)
    OBVIOUS
  <2>2. Exact(r) /\ Contents(r) = t /\ r.touched = TRUE
    BY <1>1, <1>7, <2>1, PopBackExact DEF s
  <2>3. Modifies(<<"pop_back">>, t)
    BY <1>7, <2>1, <2>2, PerformModifies
  <2>4. s # <<>>
    BY <1>7, <1>s
  <2> QED BY <2>1, <2>3, <2>4, ModifiesIs DEF Sequence!PopBack, s, Sequence!Front, Front
<1>8. ASSUME Size(deque) > 0, Perform(<<"pop_front">>, PopFront(deque))
      PROVE  Sound(deque, it)' /\ Sequence!PopFront
  <2>1. PICK r, t : r = PopFront(deque) /\ t = Tail(s)
    OBVIOUS
  <2>2. Exact(r) /\ Contents(r) = t /\ r.touched = TRUE
    BY <1>1, <1>8, <2>1, PopFrontExact DEF s
  <2>3. Modifies(<<"pop_front">>, t)
    BY <1>8, <2>1, <2>2, PerformModifies
  <2>4. s # <<>>
    BY <1>8, <1>s
  <2> QED BY <2>1, <2>3, <2>4, ModifiesIs DEF Sequence!PopFront, s
<1>9. ASSUME Perform(<<"clear">>, Clear(deque))
      PROVE  Sound(deque, it)' /\ Sequence!Clear
  <2>1. PICK r, t : r = Clear(deque) /\ t = <<>>
    OBVIOUS
  <2>2. Exact(r) /\ Contents(r) = t /\ r.touched = TRUE
    BY <1>1, <2>1, ClearExact
  <2>3. Modifies(<<"clear">>, t)
    BY <1>9, <2>1, <2>2, PerformModifies
  <2> QED BY <2>1, <2>3, ModifiesIs DEF Sequence!Clear
<1>10. ASSUME NEW xs \in Ranges, NEW r, r = AssignRange(deque, xs) \/ r = MoveAssign(deque, xs), Perform(<<"assign", xs>>, r)
       PROVE  Sound(deque, it)' /\ Sequence!Assign(xs)
  <2>1. xs \in Seq(Values)
    BY SeqOfIs
  <2>2. Exact(r) /\ Contents(r) = xs /\ r.touched = TRUE
    BY <1>1, <1>10, <2>1, AssignRangeExact, MoveAssignExact
  <2>3. Modifies(<<"assign", xs>>, xs)
    BY <1>10, <2>2, PerformModifies
  <2> QED BY <2>3, ModifiesIs DEF Sequence!Assign
<1>11. ASSUME NEW r, Exact(r), Contents(r) = s, Reallocate(r)
       PROVE  Sound(deque, it)' /\ Sequence!Reallocate
  <2>1. deque' = Settled(r) /\ it' = None /\ op' = <<"reallocate">>
    BY <1>11 DEF Reallocate
  <2>2. PICK e : e = Settled(r)
    OBVIOUS
  <2>3. Exact(e) /\ Contents(e) = s /\ e.touched = FALSE /\ e.moved = FALSE
    BY <1>11, <2>2, SettledIs
  <2>4. Size(e) <= MaxSize
    <3>1. Size(e) = Len(Contents(e))
      BY <2>3, ExactContents
    <3>2. Size(deque) <= MaxSize
      BY DEF Sound
    <3> QED BY <1>s, <2>3, <3>1, <3>2
  <2>5. Sound(e, None)
    BY <2>3, <2>4 DEF Sound
  <2>6. Modifies(<<"reallocate">>, s)
    BY <2>1, <2>2, <2>3, <2>5 DEF Modifies
  <2> QED BY <2>6, ModifiesIs DEF Sequence!Reallocate, s
<1>12. ASSUME NEW n \in 0 .. MaxSize, Reallocate(Reserve(deque, n))
       PROVE  Sound(deque, it)' /\ Sequence!Reallocate
  <2>1. n \in Nat
    BY DequeAssumption
  <2>2. PICK r : r = Reserve(deque, n)
    OBVIOUS
  <2>3. Exact(r) /\ Contents(r) = s
    BY <1>1, <2>1, <2>2, ReserveExact DEF s
  <2> QED BY <1>11, <1>12, <2>2, <2>3
<1>13. ASSUME Reallocate(ShrinkToFit(deque))
       PROVE  Sound(deque, it)' /\ Sequence!Reallocate
  <2>1. PICK r : r = ShrinkToFit(deque)
    OBVIOUS
  <2>2. Exact(r) /\ Contents(r) = s
    BY <1>1, <2>1, ShrinkToFitExact DEF s
  <2> QED BY <1>11, <1>13, <2>1, <2>2
<1>14. Sequence!Ranges = Ranges
  BY DEF Sequence!Ranges, Ranges, Sequence!SeqOf, SeqOf
<1> QED BY <1>2, <1>3, <1>4, <1>5, <1>6, <1>7, <1>8, <1>9, <1>10, <1>12, <1>13, <1>14, <1>n DEF Whole

-----------------------------------------------------------------------------
(* Operations at the iterator                                              *)
\* The iterator is at position p, and it says so.
LEMMA IteratorAt ==
  ASSUME Sound(deque, it), it # None
  PROVE  \E p \in 0 .. Size(deque) :
           /\ Points(it, deque, p) /\ it.index = Place(Cap(deque), deque.begin, p)
           /\ OffsetFromBegin(deque, it.index) = p /\ p \in Nat /\ p # None
<1>1. PICK p : Points(it, deque, p)
  BY DEF Sound
<1>2. Exact(deque)
  BY DEF Sound
<1>3. it.index = Place(Cap(deque), deque.begin, p) /\ OffsetFromBegin(deque, it.index) = p
  BY <1>1, <1>2, PointsIs, CursorIs
<1>4. p \in 0 .. Size(deque)
  BY <1>1 DEF Points
<1>5. p \in Nat
  BY <1>2, <1>4, ExactContents
<1>6. p # None
  BY <1>5, NoIteratorAssumption
<1> QED BY <1>1, <1>3, <1>4, <1>5, <1>6

\* insert at the iterator.
LEMMA InsertStep ==
  ASSUME Sound(deque, it), it # None, NEW p \in 0 .. Size(deque), Points(it, deque, p), p \in Nat, p # None,
         OffsetFromBegin(deque, it.index) = p,
         NEW xs \in Ranges, NEW r, Inserted(r, deque, p, xs), Perform(<<"insert", xs>>, r)
  PROVE  Sound(deque, it)' /\ Sequence!Insert(xs)
<1>1. PICK s : s = Contents(deque)
  OBVIOUS
<1>2. Exact(deque) /\ s \in Seq(Values) /\ p \in 0 .. Len(s) /\ xs \in Seq(Values)
  BY <1>1, ExactContents, SeqOfIs DEF Sound
<1>3. PICK t : t = Contents(r)
  OBVIOUS
<1>4. t = SubSeq(s, 1, p) \o xs \o SubSeq(s, p + 1, Len(s))
  <2>1. Spliced(t, s, p, xs, p) /\ p <= p
    BY <1>1, <1>2, <1>3 DEF Inserted
  <2> QED BY <1>2, <2>1, SplicedIs
<1>5. CASE r.touched = TRUE
  <2>1. Modifies(<<"insert", xs>>, t)
    BY <1>3, <1>5, PerformModifies DEF Inserted
  <2>2. Sound(deque, it)' /\ Sequence!Does(<<"insert", xs>>) /\ Sequence!Modify(t)
    BY <2>1, ModifiesIs
  <2>3. Sequence!Modify(Sequence!Take(p) \o xs \o Sequence!Drop(p))
    BY <1>1, <1>4, <2>2 DEF Sequence!Take, Sequence!Drop
  <2> QED BY <2>2, <2>3 DEF Sequence!Insert
<1>6. CASE xs = <<>> /\ r = deque
  <2>1. deque' = Settled(deque) /\ it' = Keep(deque) /\ op' = <<"insert", xs>>
    BY <1>6 DEF Perform
  <2>2. deque \in DequeType /\ deque.touched = FALSE /\ deque.moved = FALSE
    BY <1>2 DEF Exact, Sound
  <2>3. deque' = deque
    BY <2>1, <2>2 DEF Settled, DequeType
  <2>4. it \in [index : Nat, cap : Nat, begin : Nat, end : Nat, freed : BOOLEAN] /\ it.freed = FALSE
    BY <1>2, PointsIs
  <2>5. it' = it
    BY <2>1, <2>2, <2>4 DEF Keep
  <2>6. Sound(deque, it)'
    BY <2>3, <2>5
  <2> QED BY <1>6, <2>1, <2>3, <2>5, <2>6 DEF Sequence!Insert, Sequence!Does
<1> QED BY <1>5, <1>6 DEF Inserted

\* The operations at the iterator.
LEMMA AtIteratorStep ==
  ASSUME Sound(deque, it), op = None, AtIterator
  PROVE  Sound(deque, it)' /\ Sequence!Next
<1>1. it # None
  BY DEF AtIterator
<1>2. PICK p \in 0 .. Size(deque) :
        /\ Points(it, deque, p) /\ it.index = Place(Cap(deque), deque.begin, p)
        /\ OffsetFromBegin(deque, it.index) = p /\ p \in Nat /\ p # None
  BY <1>1, IteratorAt
<1>3. PICK s : s = Contents(deque)
  OBVIOUS
<1>4. Exact(deque) /\ s \in Seq(Values) /\ Len(s) = Size(deque) /\ Size(deque) \in Nat /\ Size(deque) <= MaxSize
  BY <1>3, ExactContents DEF Sound
<1>5. Sequence!Ranges = Ranges
  BY DEF Sequence!Ranges, Ranges, Sequence!SeqOf, SeqOf
<1>6. ASSUME NEW n \in 0 .. MaxRange, NEW x \in Values,
             Perform(<<"insert", Copies(n, x)>>, InsertCopies(deque, it.index, n, x))
      PROVE  Sound(deque, it)' /\ \E xs \in Ranges : Sequence!Insert(xs)
  <2>1. n \in Nat
    BY ElementsAssumption
  <2>2. PICK r, i, xs : r = InsertCopies(deque, i, n, x) /\ i = it.index /\ xs = Copies(n, x)
    OBVIOUS
  <2>3. Inserted(r, deque, p, xs)
    BY <1>2, <1>4, <2>1, <2>2, InsertCopiesExact
  <2>4. xs \in Ranges
    BY <2>2, SeqOfIs
  <2>5. Sound(deque, it)' /\ Sequence!Insert(xs)
    BY <1>1, <1>2, <1>6, <2>2, <2>3, <2>4, InsertStep
  <2> QED BY <2>4, <2>5
<1>7. ASSUME NEW xs \in Ranges, Perform(<<"insert", xs>>, InsertRange(deque, it.index, xs))
      PROVE  Sound(deque, it)' /\ Sequence!Insert(xs)
  <2>1. xs \in Seq(Values)
    BY SeqOfIs
  <2>2. PICK r, i : r = InsertRange(deque, i, xs) /\ i = it.index
    OBVIOUS
  <2>3. Inserted(r, deque, p, xs)
    BY <1>2, <1>4, <2>1, <2>2, InsertRangeExact
  <2> QED BY <1>1, <1>2, <1>7, <2>2, <2>3, InsertStep
<1>8. ASSUME NEW x \in Values,
             PerformAt(<<"emplace", x>>, Emplace(deque, it.index, x), AfterEmplace(deque, it.index, x))
      PROVE  Sound(deque, it)' /\ Sequence!Emplace(x)
  <2>1. PICK r, i, xs, a : r = Emplace(deque, i, x) /\ i = it.index /\ xs = <<x>> /\ a = AfterEmplace(deque, i, x)
    OBVIOUS
  <2>2. Emplaced(r, deque, p, xs, a)
    BY <1>2, <1>4, <2>1, EmplaceExact
  <2>3. PICK t : t = Contents(r)
    OBVIOUS
  <2>4. t = SubSeq(s, 1, p) \o xs \o SubSeq(s, p + 1, Len(s))
    <3>1. Spliced(t, s, p, xs, p) /\ p <= p /\ p \in 0 .. Len(s)
      BY <1>3, <1>4, <2>2, <2>3 DEF Emplaced
    <3>2. xs \in Seq(Values)
      BY <2>1
    <3> QED BY <1>4, <3>1, <3>2, SplicedIs
  <2>5. LeavesAt(<<"emplace", x>>, t, p)
    <3>1. Exact(r) /\ a = Place(Cap(r), r.begin, p) /\ p \in 0 .. Size(r)
      BY <1>2, <2>2, ExactContents DEF Emplaced
    <3>2. PerformAt(<<"emplace", x>>, r, a)
      BY <1>8, <2>1
    <3> QED BY <2>3, <3>1, <3>2, PerformPlaces
  <2>6. Sound(deque, it)' /\ Sequence!Does(<<"emplace", x>>) /\ Sequence!ModifyAt(t, p)
    BY <2>5, LeavesAtIs
  <2> QED BY <1>1, <1>2, <1>3, <2>1, <2>4, <2>6 DEF Sequence!Emplace, Sequence!Take, Sequence!Drop
<1>9. ASSUME NEW n \in 0 .. (SizeThen(it) - Offset(it)), NEW j, j = (IF n = 0 THEN it.index ELSE Add(it, n)),
             PerformAt(<<"erase", n>>, Erase(deque, it.index, j), AfterErase(deque, it.index, j))
      PROVE  Sound(deque, it)' /\ n \in 0 .. MaxSize /\ Sequence!Erase(n)
  <2>1. Offset(it) = p /\ SizeThen(it) = Size(deque)
    BY <1>2, <1>4, PointsAt
  <2>2. n \in Nat /\ p + n <= Size(deque) /\ n \in 0 .. MaxSize
    BY <1>2, <1>4, <2>1, DequeAssumption
  <2>3. PICK q \in 0 .. Size(deque) : q = p + n /\ p <= q
    BY <1>2, <1>4, <2>2
  <2>4. j = Place(Cap(deque), deque.begin, q)
    <3>1. CASE n = 0
      BY <1>2, <1>9, <2>3, <3>1
    <3>2. CASE n # 0
      <4>1. j = Add(it, n) /\ n = q - p /\ q # p
        BY <1>2, <1>9, <2>2, <2>3, <3>2
      <4> QED BY <1>2, <1>4, <4>1, AddIs
    <3> QED BY <3>1, <3>2
  <2>5. PICK r, i, a : r = Erase(deque, i, j) /\ i = it.index /\ a = AfterErase(deque, i, j)
    OBVIOUS
  <2>6. Erased(r, deque, p, q, a)
    BY <1>2, <1>4, <2>3, <2>4, <2>5, EraseExact
  <2>7. PICK t, xs : t = Contents(r) /\ xs = <<>>
    OBVIOUS
  <2>8. t = SubSeq(s, 1, p) \o SubSeq(s, q + 1, Len(s))
    <3>1. Spliced(t, s, p, xs, q) /\ p <= q /\ p \in 0 .. Len(s) /\ q \in 0 .. Len(s) /\ xs \in Seq(Values)
      BY <1>3, <1>4, <2>3, <2>6, <2>7 DEF Erased
    <3>2. t = SubSeq(s, 1, p) \o xs \o SubSeq(s, q + 1, Len(s))
      BY <1>4, <3>1, SplicedIs
    <3>3. SubSeq(s, 1, p) \in Seq(Values)
      BY <1>4, <3>1, Parted
    <3>4. SubSeq(s, 1, p) \o xs = SubSeq(s, 1, p)
      BY <2>7, <3>3
    <3> QED BY <3>2, <3>4
  <2>9. LeavesAt(<<"erase", n>>, t, p)
    <3>1. Exact(r) /\ a = Place(Cap(r), r.begin, p) /\ p \in 0 .. Size(r)
      BY <1>2, <2>6, ExactContents DEF Erased
    <3>2. PerformAt(<<"erase", n>>, r, a)
      BY <1>9, <2>5
    <3> QED BY <2>7, <3>1, <3>2, PerformPlaces
  <2>10. Sound(deque, it)' /\ Sequence!Does(<<"erase", n>>) /\ Sequence!ModifyAt(t, p)
    BY <2>9, LeavesAtIs
  <2>11. p + n <= Len(s)
    BY <1>4, <2>2
  <2>12. Sequence!Erase(n)
    BY <1>1, <1>2, <1>3, <2>3, <2>8, <2>10, <2>11 DEF Sequence!Erase, Sequence!Take, Sequence!Drop
  <2> QED BY <2>2, <2>10, <2>12
<1>10. ASSUME NEW n \in 0 .. (SizeThen(it) - Offset(it)),
              LET j == IF n = 0 THEN it.index ELSE Add(it, n)
              IN PerformAt(<<"erase", n>>, Erase(deque, it.index, j), AfterErase(deque, it.index, j))
       PROVE  Sound(deque, it)' /\ \E k \in 0 .. MaxSize : Sequence!Erase(k)
  <2>1. PICK j : j = IF n = 0 THEN it.index ELSE Add(it, n)
    OBVIOUS
  <2>2. PerformAt(<<"erase", n>>, Erase(deque, it.index, j), AfterErase(deque, it.index, j))
    BY <1>10, <2>1
  <2>3. Sound(deque, it)' /\ n \in 0 .. MaxSize /\ Sequence!Erase(n)
    BY <1>9, <2>1, <2>2
  <2> QED BY <2>3
<1>11. (\E x \in Values : Sequence!Emplace(x)) => Sequence!Next
  BY DEF Sequence!Next
<1>12. (\E xs \in Ranges : Sequence!Insert(xs)) => Sequence!Next
  BY <1>5 DEF Sequence!Next
<1>13. (\E k \in 0 .. MaxSize : Sequence!Erase(k)) => Sequence!Next
  BY DEF Sequence!Next
<1> QED BY <1>6, <1>7, <1>8, <1>10, <1>11, <1>12, <1>13 DEF AtIterator

-----------------------------------------------------------------------------
(* Iteration, and the theorems                                             *)
\* An iterator that is made at position p, or moved to it.
LEMMA WalkIs ==
  ASSUME Sound(deque, it), NEW q \in 0 .. Size(deque), Points(it', deque, q), UNCHANGED deque
  PROVE  /\ Sound(deque, it)' /\ Contents(deque)' = Contents(deque)
         /\ (IF it = None THEN None ELSE OffsetFromBegin(deque, it.index))' = q
<1>1. Exact(deque) /\ deque' = deque
  BY DEF Sound
<1>2. it' # None /\ OffsetFromBegin(deque, it'.index) = q
  BY <1>1, CursorIs
<1>3. Sound(deque', it')
  BY <1>1 DEF Sound
<1> QED BY <1>1, <1>2, <1>3

\* The operations on the iterator alone: no element changes, and it stays in
\* bounds.
LEMMA IterateStep ==
  ASSUME Sound(deque, it), op = None, Iterate
  PROVE  Sound(deque, it)' /\ Sequence!Next
<1>1. PICK s : s = Contents(deque)
  OBVIOUS
<1>2. Exact(deque) /\ s \in Seq(Values) /\ Len(s) = Size(deque) /\ Size(deque) \in Nat /\ Size(deque) <= MaxSize
  BY <1>1, ExactContents DEF Sound
<1>3. MaxSize \in Nat
  BY DequeAssumption
<1>4. ASSUME it' = Iterator(deque, deque.begin), op' = <<"point", 0>>, UNCHANGED deque
      PROVE  Sound(deque, it)' /\ Sequence!Point(0)
  <2>1. PICK q \in 0 .. Size(deque) : q = 0
    BY <1>2
  <2>2. Points(it', deque, q)
    BY <1>2, <1>4, <2>1, PlaceZero DEF Points
  <2>3. /\ Sound(deque, it)' /\ Contents(deque)' = Contents(deque)
        /\ (IF it = None THEN None ELSE OffsetFromBegin(deque, it.index))' = q
    BY <1>4, <2>2, WalkIs
  <2> QED BY <1>4, <2>1, <2>3 DEF Sequence!Point, Sequence!Does
<1>5. ASSUME it' = Iterator(deque, deque.end), op' = <<"point", 1>>, UNCHANGED deque
      PROVE  Sound(deque, it)' /\ Sequence!Point(1)
  <2>1. PICK q \in 0 .. Size(deque) : q = Size(deque)
    BY <1>2
  <2>2. PICK a : a = Place(Cap(deque), deque.begin, q)
    OBVIOUS
  <2>3. a = deque.end
    BY <1>2, <2>1, <2>2, OffsetIs
  <2>4. Points(it', deque, q)
    BY <1>5, <2>2, <2>3 DEF Points
  <2>5. /\ Sound(deque, it)' /\ Contents(deque)' = Contents(deque)
        /\ (IF it = None THEN None ELSE OffsetFromBegin(deque, it.index))' = q
    BY <1>5, <2>4, WalkIs
  <2> QED BY <1>1, <1>2, <1>5, <2>1, <2>5 DEF Sequence!Point, Sequence!Does
<1>6. ASSUME it # None, NEW k \in Int, NEW a, Walk(<<"step", k>>, a), NEW q \in 0 .. Size(deque),
             NEW p \in 0 .. Size(deque), Points(it, deque, p), q = p + k,
             NEW j, j = [it EXCEPT !.index = a], Points(j, deque, q)
      PROVE  Sound(deque, it)' /\ k \in -MaxSize .. MaxSize /\ Sequence!Step(k)
  <2>1. op' = <<"step", k>> /\ UNCHANGED deque /\ it' = j
    BY <1>6 DEF Walk
  <2>2. /\ Sound(deque, it)' /\ Contents(deque)' = Contents(deque)
        /\ (IF it = None THEN None ELSE OffsetFromBegin(deque, it.index))' = q
    BY <1>6, <2>1, WalkIs
  <2>3. OffsetFromBegin(deque, it.index) = p
    BY <1>2, <1>6, CursorIs
  <2>4. p \in Nat /\ q \in Nat /\ p <= Size(deque) /\ q <= Size(deque)
    BY <1>2
  <2>5. p # None
    BY <2>4, NoIteratorAssumption
  <2>6. k \in -MaxSize .. MaxSize /\ p + k \in 0 .. Len(s)
    BY <1>2, <1>3, <1>6, <2>4
  <2> QED BY <1>1, <1>6, <2>1, <2>2, <2>3, <2>5, <2>6 DEF Sequence!Step, Sequence!Does
<1>7. ASSUME it # None, NEW p \in 0 .. Size(deque), Points(it, deque, p)
      PROVE  /\ it.index = Place(Cap(deque), deque.begin, p) /\ p \in Nat
             /\ Offset(it) = p /\ SizeThen(it) = Size(deque)
             /\ it.index # it.begin => p # 0
             /\ it.index # it.end => p < Size(deque)
  <2>1. it.index = Place(Cap(deque), deque.begin, p)
    BY <1>2, <1>7, PointsIs
  <2>2. Offset(it) = p /\ SizeThen(it) = Size(deque)
    BY <1>2, <1>7, PointsAt
  <2>3. it.index # it.begin => p # 0
    BY <1>2, <1>7, PointsAt
  <2>4. it.index # it.end => p # Size(deque)
    BY <1>2, <1>7, PointsAt
  <2>5. p \in Nat /\ (p # Size(deque) => p < Size(deque))
    BY <1>2, <1>7
  <2> QED BY <2>1, <2>2, <2>3, <2>4, <2>5
<1>8. ASSUME it # None, CheckValidIndex(deque, it.index), it.index # it.end, Walk(<<"step", 1>>, Increment(it))
      PROVE  Sound(deque, it)' /\ \E k \in -MaxSize .. MaxSize : Sequence!Step(k)
  <2>1. PICK p \in 0 .. Size(deque) : Points(it, deque, p)
    BY <1>8, IteratorAt
  <2>2. p \in Nat /\ p < Size(deque)
    BY <1>7, <1>8, <2>1
  <2>3. PICK j, a : j = [it EXCEPT !.index = a] /\ a = Increment(it)
    OBVIOUS
  <2>4. Points(j, deque, p + 1) /\ p + 1 \in 0 .. Size(deque)
    BY <1>2, <2>1, <2>2, <2>3, IncrementIs
  <2>5. PICK q \in 0 .. Size(deque) : q = p + 1 /\ Points(j, deque, q)
    BY <2>4
  <2>6. PICK k \in Int : k = 1 /\ q = p + k
    BY <2>5
  <2>7. Walk(<<"step", k>>, a)
    BY <1>8, <2>3, <2>6
  <2>8. Sound(deque, it)' /\ k \in -MaxSize .. MaxSize /\ Sequence!Step(k)
    BY <1>6, <1>8, <2>1, <2>3, <2>5, <2>6, <2>7
  <2> QED BY <2>8
<1>9. ASSUME it # None, CheckValidIndexOrEnd(deque, it.index), it.index # it.begin, Walk(<<"step", -1>>, Decrement(it))
      PROVE  Sound(deque, it)' /\ \E k \in -MaxSize .. MaxSize : Sequence!Step(k)
  <2>1. PICK p \in 0 .. Size(deque) : Points(it, deque, p)
    BY <1>9, IteratorAt
  <2>2. p \in Nat /\ p # 0
    BY <1>7, <1>9, <2>1
  <2>3. PICK j, a : j = [it EXCEPT !.index = a] /\ a = Decrement(it)
    OBVIOUS
  <2>4. Points(j, deque, p - 1) /\ p - 1 \in 0 .. Size(deque)
    BY <1>2, <2>1, <2>2, <2>3, DecrementIs
  <2>5. PICK q \in 0 .. Size(deque) : q = p - 1 /\ Points(j, deque, q)
    BY <2>4
  <2>6. PICK k \in Int : k = -1 /\ q = p + k
    BY <2>5
  <2>7. Walk(<<"step", k>>, a)
    BY <1>9, <2>3, <2>6
  <2>8. Sound(deque, it)' /\ k \in -MaxSize .. MaxSize /\ Sequence!Step(k)
    BY <1>6, <1>9, <2>1, <2>3, <2>5, <2>6, <2>7
  <2> QED BY <2>8
<1>10. ASSUME it # None, NEW delta \in (-Offset(it)) .. (SizeThen(it) - Offset(it)),
              Walk(<<"step", delta>>, IF delta = 0 THEN it.index ELSE Add(it, delta))
       PROVE  Sound(deque, it)' /\ \E k \in -MaxSize .. MaxSize : Sequence!Step(k)
  <2>1. PICK p \in 0 .. Size(deque) : Points(it, deque, p)
    BY <1>10, IteratorAt
  <2>2. it.index = Place(Cap(deque), deque.begin, p) /\ p \in Nat /\ Offset(it) = p /\ SizeThen(it) = Size(deque)
    BY <1>7, <1>10, <2>1
  <2>3. PICK k \in Int : k = delta /\ -p <= k /\ k <= Size(deque) - p
    BY <1>2, <2>2
  <2>4. PICK q \in 0 .. Size(deque) : q = p + k
    BY <1>2, <2>2, <2>3
  <2>5. PICK a : a = IF delta = 0 THEN it.index ELSE Add(it, delta)
    OBVIOUS
  <2>6. a = Place(Cap(deque), deque.begin, q)
    <3>1. CASE delta = 0
      BY <2>2, <2>3, <2>4, <2>5, <3>1
    <3>2. CASE delta # 0
      <4>1. a = Add(it, k) /\ k = q - p /\ q # p
        BY <2>2, <2>3, <2>4, <2>5, <3>2
      <4> QED BY <1>2, <2>1, <4>1, AddIs
    <3> QED BY <3>1, <3>2
  <2>7. PICK j : j = [it EXCEPT !.index = a]
    OBVIOUS
  <2>8. Points(j, deque, q)
    BY <1>2, <2>1, <2>6, <2>7, Moved
  <2>9. Walk(<<"step", k>>, a)
    BY <1>10, <2>3, <2>5
  <2>10. Sound(deque, it)' /\ k \in -MaxSize .. MaxSize /\ Sequence!Step(k)
    BY <1>6, <1>10, <2>1, <2>4, <2>7, <2>8, <2>9
  <2> QED BY <2>10
<1>11. (\E i \in 0 .. 1 : Sequence!Point(i)) => Sequence!Next
  BY DEF Sequence!Next
<1>12. (\E k \in -MaxSize .. MaxSize : Sequence!Step(k)) => Sequence!Next
  BY DEF Sequence!Next
<1>13. 0 \in 0 .. 1 /\ 1 \in 0 .. 1
  OBVIOUS
<1> QED BY <1>4, <1>5, <1>8, <1>9, <1>10, <1>11, <1>12, <1>13 DEF Iterate

\* Every step keeps the deque sound, and is a step of the abstract one or a
\* stutter.
LEMMA DequeStep ==
  ASSUME Sound(deque, it), KeepsIterators = FALSE, [DequeNext]_dequeVars
  PROVE  Sound(deque, it)' /\ [Sequence!Next]_(Sequence!vars)
<1>1. CASE UNCHANGED dequeVars
  BY <1>1 DEF dequeVars, Sequence!vars
<1>2. CASE op # None /\ op' = None /\ UNCHANGED <<deque, it>>
  BY <1>2 DEF Sequence!Next, Sequence!Return
<1>3. CASE op = None /\ (Whole \/ AtIterator \/ Iterate)
  BY <1>3, WholeStep, AtIteratorStep, IterateStep
<1> QED BY <1>1, <1>2, <1>3 DEF DequeNext, Return

\* An empty deque is sound.
LEMMA DequeStart == DequeInit => Sound(deque, it) /\ Sequence!Init
<1> SUFFICES ASSUME DequeInit PROVE Sound(deque, it) /\ Sequence!Init
  OBVIOUS
<1>1. deque = EmptyDeque /\ it = None /\ op = None
  BY DEF DequeInit
<1>2. PICK buf, r : buf = RawBuffer(0) /\ r = [EmptyDeque EXCEPT !.buf = buf]
  OBVIOUS
<1>3. r = deque
  <2>1. deque = [buf |-> buf, begin |-> 0, end |-> 0, touched |-> FALSE, moved |-> FALSE, ub |-> FALSE]
    BY <1>1, <1>2 DEF EmptyDeque
  <2>2. r = [buf |-> buf, begin |-> 0, end |-> 0, touched |-> FALSE, moved |-> FALSE, ub |-> FALSE]
    BY <1>2 DEF EmptyDeque
  <2> QED BY <2>1, <2>2
<1>4. Exact(r) /\ Contents(r) = <<>> /\ r.touched = FALSE
  <2>1. 0 \in Nat
    OBVIOUS
  <2> QED BY <1>2, <2>1, EmptyExact
<1>5. Size(r) <= MaxSize
  BY <1>4, ExactContents, DequeAssumption
<1>6. r.moved = FALSE
  BY <1>1, <1>3 DEF EmptyDeque
<1>7. Sound(deque, it)
  BY <1>1, <1>3, <1>4, <1>5, <1>6 DEF Sound
<1> QED BY <1>1, <1>3, <1>4, <1>7 DEF Sequence!Init

\* The strengthening from which the others follow: whatever sequence of the
\* operations of circular_deque is called, through every reallocation and however
\* the ring is wrapped, no slot is constructed twice, destroyed or read while
\* raw, and an iterator that was kept stays at its position.
THEOREM DequeSound == ASSUME KeepsIterators = FALSE PROVE DequeSpec => []Sound(deque, it)
<1>1. DequeInit => Sound(deque, it)
  BY DequeStart
<1>2. Sound(deque, it) /\ [DequeNext]_dequeVars => Sound(deque, it)'
  BY DequeStep
<1> QED BY <1>1, <1>2, PTL DEF DequeSpec

\* The slots of circular_deque from begin_ up to end_ hold the elements and no
\* others do: none leaks, none is destroyed twice, after any operations.
THEOREM SlotsAlwaysExact == ASSUME KeepsIterators = FALSE PROVE DequeSpec => []SlotsExact
<1>1. Sound(deque, it) => SlotsExact
  BY ExactSlots DEF Sound, Exact, SlotsExact
<1> QED BY <1>1, DequeSound, PTL

\* An iterator of circular_deque that no operation has invalidated passes its own
\* checks: what it cached of the ring is what the ring still is.
THEOREM IteratorsAlwaysSound == ASSUME KeepsIterators = FALSE PROVE DequeSpec => []IteratorsAreSound
<1>1. Sound(deque, it) => IteratorsAreSound
  <2> SUFFICES ASSUME Sound(deque, it), it # None
               PROVE  /\ ~it.freed
                      /\ it.cap = Cap(deque) /\ it.begin = deque.begin /\ it.end = deque.end
                      /\ CheckValidIndexOrEnd(deque, it.index)
    BY DEF IteratorsAreSound
  <2>1. PICK p : Points(it, deque, p)
    BY DEF Sound
  <2>2. Exact(deque)
    BY DEF Sound
  <2>3. it.cap = Cap(deque) /\ it.begin = deque.begin /\ it.end = deque.end /\ it.freed = FALSE
    BY <2>1, <2>2, PointsIs
  <2>4. CheckValidIndexOrEnd(deque, it.index)
    BY <2>1, <2>2, PointsAt
  <2> QED BY <2>3, <2>4
<1> QED BY <1>1, DequeSound, PTL

\* circular_deque is a sequence: every operation does to its elements, and to the
\* position of an iterator it returns, what the same operation of Deque does.
THEOREM DequeImplementsSequence == ASSUME KeepsIterators = FALSE PROVE DequeSpec => ImplementsSequence
<1>1. DequeInit => Sequence!Init
  BY DequeStart
<1>2. Sound(deque, it) /\ [DequeNext]_dequeVars => [Sequence!Next]_(Sequence!vars)
  BY DequeStep
<1> QED BY <1>1, <1>2, DequeSound, PTL DEF DequeSpec, ImplementsSequence, Sequence!Spec

-----------------------------------------------------------------------------
(* StringNumber: digits                                                    *)

Bases == {10, 16}

\* No two digits are written the same, and none as a blank or a sign.
LEMMA NumeralsDiffer ==
  /\ \A a, b \in 0 .. 15 : Numerals[a + 1] = Numerals[b + 1] => a = b
  /\ \A a \in 0 .. 15 : Numerals[a + 1] \notin {Space, "+", "-"}
<1>1. \A a \in 0 .. 15 : a = 0 \/ a = 1 \/ a = 2 \/ a = 3 \/ a = 4 \/ a = 5 \/ a = 6 \/ a = 7
        \/ a = 8 \/ a = 9 \/ a = 10 \/ a = 11 \/ a = 12 \/ a = 13 \/ a = 14 \/ a = 15
  OBVIOUS
<1>2. /\ Numerals[0 + 1] = "0" /\ Numerals[1 + 1] = "1" /\ Numerals[2 + 1] = "2" /\ Numerals[3 + 1] = "3"
      /\ Numerals[4 + 1] = "4" /\ Numerals[5 + 1] = "5" /\ Numerals[6 + 1] = "6" /\ Numerals[7 + 1] = "7"
      /\ Numerals[8 + 1] = "8" /\ Numerals[9 + 1] = "9" /\ Numerals[10 + 1] = "A" /\ Numerals[11 + 1] = "B"
      /\ Numerals[12 + 1] = "C" /\ Numerals[13 + 1] = "D" /\ Numerals[14 + 1] = "E" /\ Numerals[15 + 1] = "F"
  BY DEF Numerals
<1>3. ASSUME NEW a \in 0 .. 15 PROVE Numerals[a + 1] \notin {Space, "+", "-"}
  <2>1. Numerals[a + 1] \in {"0", "1", "2", "3", "4", "5", "6", "7", "8", "9", "A", "B", "C", "D", "E", "F"}
    BY <1>1, <1>2
  <2>2. \A c \in {"0", "1", "2", "3", "4", "5", "6", "7", "8", "9", "A", "B", "C", "D", "E", "F"} :
          c \notin {Space, "+", "-"}
    BY Zenon DEF Space
  <2> QED BY <2>1, <2>2
<1>4. \A a, b \in 0 .. 15 : Numerals[a + 1] = Numerals[b + 1] => a = b
  BY <1>1, <1>2
<1> QED BY <1>3, <1>4

\* A character is one digit at most.
LEMMA DigitFacts ==
  ASSUME NEW base \in Bases, NEW c, CharToDigit(base, c) # {}
  PROVE  /\ DigitOf(base, c) \in 0 .. (base - 1) /\ DigitOf(base, c) \in Nat
         /\ Numerals[DigitOf(base, c) + 1] = c
  BY DEF CharToDigit, DigitOf, Bases
LEMMA DigitIs ==
  ASSUME NEW base \in Bases, NEW d \in 0 .. (base - 1)
  PROVE  CharToDigit(base, Numerals[d + 1]) # {} /\ DigitOf(base, Numerals[d + 1]) = d
<1>1. CharToDigit(base, Numerals[d + 1]) # {}
  BY DEF CharToDigit
<1>2. DigitOf(base, Numerals[d + 1]) \in 0 .. 15 /\ d \in 0 .. 15
  BY <1>1, DigitFacts DEF Bases
<1>3. Numerals[DigitOf(base, Numerals[d + 1]) + 1] = Numerals[d + 1]
  BY <1>1, DigitFacts
<1> QED BY <1>1, <1>2, <1>3, NumeralsDiffer

\* The digits of s, up to the k-th character.
AllDigits(base, s, k) == \A i \in 1 .. k : CharToDigit(base, s[i]) # {}

-----------------------------------------------------------------------------
(* StringNumber: the check of bounds                                       *)

\* The largest magnitude that a number of this sign has in the type.
Limit(t, negative) == IF negative THEN -Lowest(t) ELSE MaxOf(t)
Signed(negative, a) == IF negative THEN -a ELSE a

LEMMA LimitFacts ==
  ASSUME NEW t \in Types, NEW negative \in BOOLEAN, negative => t.signed
  PROVE  /\ Limit(t, negative) \in Nat /\ 15 <= Limit(t, negative)
         /\ \A a \in Nat : InType(t, Signed(negative, a)) <=> a <= Limit(t, negative)
         /\ Lowest(t) \in Int /\ MaxOf(t) \in Int /\ Lowest(t) <= 0 /\ 0 <= MaxOf(t)
         /\ Signed(negative, Limit(t, negative)) = IF negative THEN Lowest(t) ELSE MaxOf(t)
<1>1. t.half \in Nat /\ 16 <= t.half
  BY TypeFacts, WidthsAssumption, DigitsAssumption
<1> QED BY <1>1, TypeFacts DEF Limit, Signed, InType, Lowest, MaxOf

\* CheckBounds compares with the quotient and the remainder of the limit, and never
\* computes what might overflow: it refuses the digit exactly if the number with the
\* digit is beyond the limit.
THEOREM BoundsAreChecked ==
  ASSUME NEW t \in Types, NEW base \in Bases, NEW negative \in BOOLEAN, negative => t.signed,
         NEW a \in Nat, NEW d \in 0 .. (base - 1)
  PROVE  OutOfBounds(t, base, negative, Signed(negative, a), d) <=> a * base + d > Limit(t, negative)
<1> DEFINE L == Limit(t, negative)
           q == L \div base
           r == L % base
<1>1. L \in Nat /\ 15 <= L
  BY LimitFacts
<1>2. q \in Nat /\ r \in 0 .. (base - 1) /\ L = q * base + r
  BY <1>1 DEF Bases
<1> HIDE DEF q, r
<1>3. a * base + d > L <=> a > q \/ (a = q /\ d > r)
  <2>1. CASE base = 10
    BY <1>1, <1>2, <2>1
  <2>2. CASE base = 16
    BY <1>1, <1>2, <2>2
  <2> QED BY <2>1, <2>2 DEF Bases
<1>4. CASE negative
  <2>1. Lowest(t) = -L /\ Lowest(t) < 0 /\ -Lowest(t) = L /\ Lowest(t) \in Int
    <3>1. Lowest(t) \in Int
      BY LimitFacts
    <3>2. L = -Lowest(t)
      BY <1>4 DEF Limit
    <3> QED BY <1>1, <3>1, <3>2
  <2>2. Quotient(Lowest(t), base) = -q
    BY <2>1 DEF Quotient, q
  <2>3. Remainder(Lowest(t), base) = -L - (-q) * base
    BY <2>1, <2>2 DEF Remainder
  <2>4. (-q) * base = -(q * base)
    BY <1>2 DEF Bases
  <2>5. -Remainder(Lowest(t), base) = r
    <3>1. q * base \in Nat
      BY <1>2 DEF Bases
    <3> QED BY <1>1, <1>2, <2>3, <2>4, <3>1
  <2>6. Signed(negative, a) = -a
    BY <1>4 DEF Signed
  <2>7. OutOfBounds(t, base, negative, Signed(negative, a), d) <=> -a < -q \/ (-a = -q /\ d > r)
    BY <1>4, <2>2, <2>5, <2>6 DEF OutOfBounds
  <2> QED BY <1>2, <1>3, <2>7
<1>5. CASE ~negative
  <2>1. MaxOf(t) = L /\ ~(MaxOf(t) < 0)
    BY <1>1, <1>5 DEF Limit
  <2>2. Quotient(MaxOf(t), base) = q
    BY <2>1 DEF Quotient, q
  <2>3. Remainder(MaxOf(t), base) = L - q * base
    BY <2>1, <2>2 DEF Remainder
  <2>4. Remainder(MaxOf(t), base) = r
    <3>1. q * base \in Nat
      BY <1>2 DEF Bases
    <3> QED BY <1>1, <1>2, <2>3, <3>1
  <2>5. Signed(negative, a) = a
    BY <1>5 DEF Signed
  <2> QED BY <1>3, <1>5, <2>2, <2>4, <2>5 DEF OutOfBounds
<1> QED BY <1>4, <1>5

-----------------------------------------------------------------------------
(* StringNumber: its folds                                                 *)

\* g has the number after each digit.
MagnitudeRun(g, base, s) ==
  /\ g[0] = 0
  /\ \A k \in 1 .. Len(s) : g[k] = g[k - 1] * base + DigitOf(base, s[k])
\* A number is made digit by digit.
LEMMA MagnitudeFold ==
  ASSUME NEW base \in Bases, NEW A, NEW s \in Seq(A), AllDigits(base, s, Len(s))
  PROVE  \E g \in [0 .. Len(s) -> Nat] : MagnitudeRun(g, base, s) /\ g[Len(s)] = Magnitude(base, s)
<1> DEFINE S == Nat
           seq == s
           n == Len(s)
           F == [p \in S \X (1 .. n) |-> p[1] * base + DigitOf(base, s[p[2]])]
<1>0. n \in Nat /\ DOMAIN seq = 1 .. n
  OBVIOUS
<1>s. \A k \in 1 .. n : seq[k] = s[k]
  OBVIOUS
<1>1. 0 \in S /\ \A x \in S, k \in 1 .. n : x * base + DigitOf(base, s[k]) \in S
  BY DigitFacts DEF AllDigits, Bases
<1>2. F \in [S \X (1 .. n) -> S] /\ \A x \in S, k \in 1 .. n : F[<<x, k>>] = x * base + DigitOf(base, s[k])
  <2> HIDE DEF S, n
  <2> QED BY <1>1
<1>3. PICK f \in [SUBSET (1 .. n) -> S] : Solves(f, n, 0, F)
  <2> HIDE DEF S, F, seq, n
  <2> QED BY <1>0, <1>1, <1>2, FoldSolution
<1>4. f = [s2 \in SUBSET DOMAIN seq |->
             IF s2 = {} THEN 0 ELSE f[s2 \ {Max(s2)}] * base + DigitOf(base, seq[Max(s2)])]
  <2>1. ASSUME NEW s2 \in SUBSET (1 .. n), s2 # {}
        PROVE  f[s2] = f[s2 \ {Max(s2)}] * base + DigitOf(base, seq[Max(s2)])
    <3>1. Max(s2) \in 1 .. n /\ f[s2 \ {Max(s2)}] \in S /\ f[s2] = F[<<f[s2 \ {Max(s2)}], Max(s2)>>]
      <4> HIDE DEF S, F, seq, n
      <4> QED BY <1>3, <2>1 DEF Solves
    <3>2. f[s2] = f[s2 \ {Max(s2)}] * base + DigitOf(base, s[Max(s2)])
      <4> HIDE DEF S, F, seq, n
      <4> QED BY <1>2, <3>1
    <3>3. seq[Max(s2)] = s[Max(s2)]
      <4> HIDE DEF S, F, seq, n
      <4> QED BY <1>s, <3>1
    <3> HIDE DEF S, F, seq, n
    <3> QED BY <3>2, <3>3
  <2>2. f[{}] = 0
    <3> HIDE DEF S, F, seq, n
    <3> QED BY <1>3 DEF Solves
  <2> HIDE DEF S, F, seq, n
  <2> QED BY <1>0, <1>3, <2>1, <2>2
<1>5. PICK h : /\ Magnitude(base, s) = h[1 .. n]
               /\ h = [s2 \in SUBSET (1 .. n) |->
                        IF s2 = {} THEN 0 ELSE h[s2 \ {Max(s2)}] * base + DigitOf(base, seq[Max(s2)])]
  <2>1. PICK h : h = CHOOSE z : z = [s2 \in SUBSET DOMAIN seq |->
             IF s2 = {} THEN 0 ELSE z[s2 \ {Max(s2)}] * base + DigitOf(base, seq[Max(s2)])]
    OBVIOUS
  <2>2. h = [s2 \in SUBSET DOMAIN seq |->
             IF s2 = {} THEN 0 ELSE h[s2 \ {Max(s2)}] * base + DigitOf(base, seq[Max(s2)])]
    <3> HIDE DEF seq, n
    <3> QED BY <1>4, <2>1
  <2>3. Magnitude(base, s) = h[DOMAIN seq]
    BY <2>1 DEF Magnitude, FoldLeft, MapThenFoldSet
  <2> HIDE DEF seq, n
  <2> QED BY <1>0, <2>2, <2>3
<1> HIDE DEF seq, F, S, n
<1>6. h[{}] = 0 /\ {} = 1 .. 0
  <2>1. {} \in SUBSET (1 .. n) /\ {} = 1 .. 0
    BY <1>0, UpTo
  <2> QED BY <1>5, <2>1
<1>7. ASSUME NEW k \in 1 .. n PROVE h[1 .. k] = h[1 .. (k - 1)] * base + DigitOf(base, s[k])
  <2>1. 1 .. k \in SUBSET (1 .. n) /\ 1 .. k # {} /\ (1 .. k) \ {k} = 1 .. (k - 1) /\ Max(1 .. k) = k
    BY <1>0, UpTo
  <2>3. seq[k] = s[k]
    BY <1>s
  <2>4. h[1 .. k] = h[1 .. (k - 1)] * base + DigitOf(base, seq[k])
    BY <1>5, <2>1
  <2> QED BY <2>3, <2>4
<1> DEFINE g == [k \in 0 .. n |-> h[1 .. k]]
<1>8. g[0] = 0 /\ g[n] = Magnitude(base, s)
  <2>1. 0 \in 0 .. n /\ n \in 0 .. n
    BY <1>0, UpTo
  <2> QED BY <1>5, <1>6, <2>1
<1>9. ASSUME NEW k \in 1 .. n PROVE k - 1 \in 0 .. n /\ g[k] = g[k - 1] * base + DigitOf(base, s[k])
  <2>1. k \in 0 .. n /\ k - 1 \in 0 .. n
    BY <1>0
  <2> QED BY <1>7, <2>1
<1>t. DOMAIN g = 0 .. n /\ g = [k \in 0 .. n |-> g[k]]
  OBVIOUS
<1> HIDE DEF g
<1>10. \A k \in 0 .. n : g[k] \in S
  <2> DEFINE T == {k \in Nat : k <= n => g[k] \in S}
  <2>1. 0 \in T
    BY <1>1, <1>8
  <2>2. ASSUME NEW k \in Nat, k \in T PROVE k + 1 \in T
    <3>1. CASE k + 1 <= n
      <4>1. k + 1 \in 1 .. n /\ (k + 1) - 1 = k /\ k <= n /\ k + 1 \in Nat
        BY <1>0, <3>1
      <4>2. g[k] \in S
        BY <2>2, <4>1
      <4>3. g[k + 1] = g[(k + 1) - 1] * base + DigitOf(base, s[(k + 1)])
        BY <1>9, <4>1
      <4>4. g[k + 1] = g[k] * base + DigitOf(base, s[(k + 1)])
        BY <4>1, <4>3
      <4>5. g[k + 1] \in S
        BY <1>1, <4>1, <4>2, <4>4
      <4> QED BY <4>1, <4>5
    <3>2. CASE ~(k + 1 <= n)
      BY <3>2
    <3> QED BY <3>1, <3>2
  <2> HIDE DEF T
  <2>3. \A k \in Nat : k \in T
    BY <2>1, <2>2, SetInduction
  <2> QED BY <1>0, <2>3 DEF T
<1>11. g \in [0 .. n -> S]
  BY <1>t, <1>10
<1>12. MagnitudeRun(g, base, s)
  <2> USE DEF n
  <2> QED BY <1>8, <1>9 DEF MagnitudeRun
<1> QED BY <1>8, <1>11, <1>12 DEF n, S

\* A turn of the loop gives a result.
ResultType == [value : Int, valid : BOOLEAN, any : BOOLEAN]
LEMMA ParseDigitType ==
  ASSUME NEW t \in Types, NEW base \in Bases, NEW negative \in BOOLEAN, NEW r \in ResultType, NEW c
  PROVE  ParseDigit(t, base, negative, r, c) \in ResultType
<1> DEFINE d == DigitOf(base, c)
           v == Cast(t, Cast(t, r.value * base) + IF negative THEN -d ELSE d)
<1>1. Lowest(t) \in Int /\ MaxOf(t) \in Int
  BY TypeFacts
<1>2. ASSUME CharToDigit(base, c) # {} PROVE v \in Int
  <2>1. d \in Nat
    BY <1>2, DigitFacts
  <2>2. r.value * base \in Int
    BY DEF ResultType, Bases
  <2>3. Cast(t, r.value * base) \in Int
    BY <2>2, CastNear
  <2>4. Cast(t, r.value * base) + (IF negative THEN -d ELSE d) \in Int
    BY <2>1, <2>3
  <2> QED BY <2>4, CastNear
<1> HIDE DEF v
<1>3. CASE ~r.valid
  BY <1>3 DEF ParseDigit
<1>4. CASE r.valid /\ CharToDigit(base, c) = {}
  BY <1>4 DEF ParseDigit, ResultType
<1>5. CASE r.valid /\ CharToDigit(base, c) # {} /\ r.any /\ OutOfBounds(t, base, negative, r.value, d)
  BY <1>1, <1>5 DEF ParseDigit, ResultType
<1>6. CASE r.valid /\ CharToDigit(base, c) # {} /\ ~(r.any /\ OutOfBounds(t, base, negative, r.value, d))
  <2>1. ParseDigit(t, base, negative, r, c) = [r EXCEPT !.any = TRUE, !.value = v]
    BY <1>6 DEF ParseDigit, v
  <2> QED BY <1>2, <1>6, <2>1 DEF ResultType
<1> QED BY <1>3, <1>4, <1>5, <1>6

\* What the loop of Invoke leaves.
LoopResult(t, base, negative, s) ==
  FoldLeft(LAMBDA r, c : ParseDigit(t, base, negative, r, c), NoDigits, s)
\* g has the result after each character.
ParseRun(g, t, base, negative, s) ==
  /\ g[0] = NoDigits
  /\ \A k \in 1 .. Len(s) : g[k] = ParseDigit(t, base, negative, g[k - 1], s[k])
\* The loop of Invoke, turn by turn.
LEMMA ParseFold ==
  ASSUME NEW t \in Types, NEW base \in Bases, NEW negative \in BOOLEAN, NEW A, NEW s \in Seq(A)
  PROVE  \E g \in [0 .. Len(s) -> ResultType] : ParseRun(g, t, base, negative, s) /\ g[Len(s)] = LoopResult(t, base, negative, s)
<1> DEFINE S == ResultType
           seq == s
           n == Len(s)
           F == [p \in S \X (1 .. n) |-> ParseDigit(t, base, negative, p[1], s[p[2]])]
<1>0. n \in Nat /\ DOMAIN seq = 1 .. n
  OBVIOUS
<1>s. \A k \in 1 .. n : seq[k] = s[k]
  OBVIOUS
<1>1. NoDigits \in S /\ \A x \in S, k \in 1 .. n : ParseDigit(t, base, negative, x, s[k]) \in S
  BY ParseDigitType DEF NoDigits, ResultType
<1>2. F \in [S \X (1 .. n) -> S] /\ \A x \in S, k \in 1 .. n : F[<<x, k>>] = ParseDigit(t, base, negative, x, s[k])
  <2> HIDE DEF S, n
  <2> QED BY <1>1
<1>3. PICK f \in [SUBSET (1 .. n) -> S] : Solves(f, n, NoDigits, F)
  <2> HIDE DEF S, F, seq, n
  <2> QED BY <1>0, <1>1, <1>2, FoldSolution
<1>4. f = [s2 \in SUBSET DOMAIN seq |->
             IF s2 = {} THEN NoDigits ELSE ParseDigit(t, base, negative, f[s2 \ {Max(s2)}], seq[Max(s2)])]
  <2>1. ASSUME NEW s2 \in SUBSET (1 .. n), s2 # {}
        PROVE  f[s2] = ParseDigit(t, base, negative, f[s2 \ {Max(s2)}], seq[Max(s2)])
    <3>1. Max(s2) \in 1 .. n /\ f[s2 \ {Max(s2)}] \in S /\ f[s2] = F[<<f[s2 \ {Max(s2)}], Max(s2)>>]
      <4> HIDE DEF S, F, seq, n
      <4> QED BY <1>3, <2>1 DEF Solves
    <3>2. f[s2] = ParseDigit(t, base, negative, f[s2 \ {Max(s2)}], s[Max(s2)])
      <4> HIDE DEF S, F, seq, n
      <4> QED BY <1>2, <3>1
    <3>3. seq[Max(s2)] = s[Max(s2)]
      <4> HIDE DEF S, F, seq, n
      <4> QED BY <1>s, <3>1
    <3> HIDE DEF S, F, seq, n
    <3> QED BY <3>2, <3>3
  <2>2. f[{}] = NoDigits
    <3> HIDE DEF S, F, seq, n
    <3> QED BY <1>3 DEF Solves
  <2> HIDE DEF S, F, seq, n
  <2> QED BY <1>0, <1>3, <2>1, <2>2
<1>5. PICK h : /\ LoopResult(t, base, negative, s) = h[1 .. n]
               /\ h = [s2 \in SUBSET (1 .. n) |->
                        IF s2 = {} THEN NoDigits ELSE ParseDigit(t, base, negative, h[s2 \ {Max(s2)}], seq[Max(s2)])]
  <2>1. PICK h : h = CHOOSE z : z = [s2 \in SUBSET DOMAIN seq |->
             IF s2 = {} THEN NoDigits ELSE ParseDigit(t, base, negative, z[s2 \ {Max(s2)}], seq[Max(s2)])]
    OBVIOUS
  <2>2. h = [s2 \in SUBSET DOMAIN seq |->
             IF s2 = {} THEN NoDigits ELSE ParseDigit(t, base, negative, h[s2 \ {Max(s2)}], seq[Max(s2)])]
    <3> HIDE DEF seq, n
    <3> QED BY <1>4, <2>1
  <2>3. LoopResult(t, base, negative, s) = h[DOMAIN seq]
    BY <2>1 DEF LoopResult, FoldLeft, MapThenFoldSet
  <2> HIDE DEF seq, n
  <2> QED BY <1>0, <2>2, <2>3
<1> HIDE DEF seq, F, S, n
<1>6. h[{}] = NoDigits /\ {} = 1 .. 0
  <2>1. {} \in SUBSET (1 .. n) /\ {} = 1 .. 0
    BY <1>0, UpTo
  <2> QED BY <1>5, <2>1
<1>7. ASSUME NEW k \in 1 .. n PROVE h[1 .. k] = ParseDigit(t, base, negative, h[1 .. (k - 1)], s[k])
  <2>1. 1 .. k \in SUBSET (1 .. n) /\ 1 .. k # {} /\ (1 .. k) \ {k} = 1 .. (k - 1) /\ Max(1 .. k) = k
    BY <1>0, UpTo
  <2>3. seq[k] = s[k]
    BY <1>s
  <2>4. h[1 .. k] = ParseDigit(t, base, negative, h[1 .. (k - 1)], seq[k])
    BY <1>5, <2>1
  <2> QED BY <2>3, <2>4
<1> DEFINE g == [k \in 0 .. n |-> h[1 .. k]]
<1>8. g[0] = NoDigits /\ g[n] = LoopResult(t, base, negative, s)
  <2>1. 0 \in 0 .. n /\ n \in 0 .. n
    BY <1>0, UpTo
  <2> QED BY <1>5, <1>6, <2>1
<1>9. ASSUME NEW k \in 1 .. n PROVE k - 1 \in 0 .. n /\ g[k] = ParseDigit(t, base, negative, g[k - 1], s[k])
  <2>1. k \in 0 .. n /\ k - 1 \in 0 .. n
    BY <1>0
  <2> QED BY <1>7, <2>1
<1>t. DOMAIN g = 0 .. n /\ g = [k \in 0 .. n |-> g[k]]
  OBVIOUS
<1> HIDE DEF g
<1>10. \A k \in 0 .. n : g[k] \in S
  <2> DEFINE T == {k \in Nat : k <= n => g[k] \in S}
  <2>1. 0 \in T
    BY <1>1, <1>8
  <2>2. ASSUME NEW k \in Nat, k \in T PROVE k + 1 \in T
    <3>1. CASE k + 1 <= n
      <4>1. k + 1 \in 1 .. n /\ (k + 1) - 1 = k /\ k <= n /\ k + 1 \in Nat
        BY <1>0, <3>1
      <4>2. g[k] \in S
        BY <2>2, <4>1
      <4>3. g[k + 1] = ParseDigit(t, base, negative, g[(k + 1) - 1], s[(k + 1)])
        BY <1>9, <4>1
      <4>4. g[k + 1] = ParseDigit(t, base, negative, g[k], s[(k + 1)])
        BY <4>1, <4>3
      <4>5. g[k + 1] \in S
        BY <1>1, <4>1, <4>2, <4>4
      <4> QED BY <4>1, <4>5
    <3>2. CASE ~(k + 1 <= n)
      BY <3>2
    <3> QED BY <3>1, <3>2
  <2> HIDE DEF T
  <2>3. \A k \in Nat : k \in T
    BY <2>1, <2>2, SetInduction
  <2> QED BY <1>0, <2>3 DEF T
<1>11. g \in [0 .. n -> S]
  BY <1>t, <1>10
<1>12. ParseRun(g, t, base, negative, s)
  <2> USE DEF n
  <2> QED BY <1>8, <1>9 DEF ParseRun
<1> QED BY <1>8, <1>11, <1>12 DEF n, S

-----------------------------------------------------------------------------
(* StringNumber: parsing                                                   *)

\* A digit makes the number that it should, or the end of the type.
LEMMA TurnReads ==
  ASSUME NEW t \in Types, NEW base \in Bases, NEW negative \in BOOLEAN, negative => t.signed,
         NEW a \in Nat, a <= Limit(t, negative), NEW c, CharToDigit(base, c) # {},
         NEW r \in ResultType, r.valid, r.value = Signed(negative, a), ~r.any => a = 0,
         NEW b, b = a * base + DigitOf(base, c)
  PROVE  /\ b \in Nat /\ a <= b
         /\ b <= Limit(t, negative) =>
              /\ ParseDigit(t, base, negative, r, c).valid /\ ParseDigit(t, base, negative, r, c).any
              /\ ParseDigit(t, base, negative, r, c).value = Signed(negative, b)
         /\ b > Limit(t, negative) =>
              /\ ~ParseDigit(t, base, negative, r, c).valid
              /\ ParseDigit(t, base, negative, r, c).value = Signed(negative, Limit(t, negative))
<1> DEFINE L == Limit(t, negative)
           d == DigitOf(base, c)
<1>1. d \in 0 .. (base - 1) /\ d \in Nat /\ d <= 15
  BY DigitFacts DEF Bases
<1>2. L \in Nat /\ 15 <= L /\ Signed(negative, L) = (IF negative THEN Lowest(t) ELSE MaxOf(t))
  BY LimitFacts
<1>3. a * base \in Nat /\ b \in Nat /\ a <= a * base /\ a * base <= b /\ b = a * base + d
  BY <1>1 DEF Bases
<1>4. r.any /\ OutOfBounds(t, base, negative, r.value, d) <=> b > L
  <2>1. OutOfBounds(t, base, negative, r.value, d) <=> b > L
    BY <1>1, <1>3, BoundsAreChecked
  <2>2. ~r.any => ~(b > L)
    <3>1. ~r.any => a * base = 0
      BY DEF Bases
    <3> QED BY <1>1, <1>2, <1>3, <3>1
  <2> QED BY <2>1, <2>2
<1>5. ASSUME b <= L
      PROVE  /\ ParseDigit(t, base, negative, r, c).valid /\ ParseDigit(t, base, negative, r, c).any
             /\ ParseDigit(t, base, negative, r, c).value = Signed(negative, b)
  <2>1. ~(b > L) /\ a * base <= L
    BY <1>2, <1>3, <1>5
  <2>2. Signed(negative, a) * base = Signed(negative, a * base)
    BY DEF Signed, Bases
  <2>3. Signed(negative, a * base) \in Int /\ InType(t, Signed(negative, a * base))
        /\ Signed(negative, b) \in Int /\ InType(t, Signed(negative, b))
    <3>1. InType(t, Signed(negative, a * base)) /\ InType(t, Signed(negative, b))
      BY <1>3, <1>5, <2>1, LimitFacts
    <3> QED BY <1>3, <3>1 DEF Signed
  <2>4. Cast(t, r.value * base) = Signed(negative, a * base)
    BY <2>2, <2>3, CastNear
  <2>5. Signed(negative, a * base) + (IF negative THEN -d ELSE d) = Signed(negative, b)
    BY <1>1, <1>3 DEF Signed
  <2>6. Cast(t, Cast(t, r.value * base) + IF negative THEN -d ELSE d) = Signed(negative, b)
    BY <2>3, <2>4, <2>5, CastNear
  <2>7. ParseDigit(t, base, negative, r, c)
          = [r EXCEPT !.any = TRUE, !.value = Cast(t, Cast(t, r.value * base) + IF negative THEN -d ELSE d)]
    BY <1>4, <2>1 DEF ParseDigit
  <2> QED BY <2>6, <2>7 DEF ResultType
<1>6. ASSUME b > L
      PROVE  /\ ~ParseDigit(t, base, negative, r, c).valid
             /\ ParseDigit(t, base, negative, r, c).value = Signed(negative, L)
  <2>1. ParseDigit(t, base, negative, r, c)
          = [r EXCEPT !.value = IF negative THEN Lowest(t) ELSE MaxOf(t), !.valid = FALSE]
    BY <1>4, <1>6 DEF ParseDigit
  <2> QED BY <1>2, <2>1 DEF ResultType
<1> QED BY <1>3, <1>5, <1>6

\* The result r when the k digits so far make the number a.
ReadsSoFar(r, t, negative, a, k) ==
  IF a <= Limit(t, negative)
  THEN r.valid /\ (r.any <=> k > 0) /\ r.value = Signed(negative, a)
  ELSE ~r.valid /\ r.value = Signed(negative, Limit(t, negative))
\* And behind the digits.
Clamped(t, negative, a) ==
  Signed(negative, IF a <= Limit(t, negative) THEN a ELSE Limit(t, negative))

LoopIs(t, base, negative, s, e, m, last) ==
  /\ m \in Nat /\ last \in ResultType
  /\ last.value = Clamped(t, negative, m)
  /\ last.valid <=> e = Len(s) /\ m <= Limit(t, negative)
\* The loop of Invoke reads the digits at the beginning of s, the first e characters.
LEMMA LoopReads ==
  ASSUME NEW t \in Types, NEW base \in Bases, NEW negative \in BOOLEAN, negative => t.signed,
         NEW A, NEW s \in Seq(A), NEW e \in 0 .. Len(s), AllDigits(base, s, e),
         e < Len(s) => CharToDigit(base, s[e + 1]) = {},
         NEW m, m = Magnitude(base, SubSeq(s, 1, e)),
         NEW last, last = LoopResult(t, base, negative, s)
  PROVE  LoopIs(t, base, negative, s, e, m, last)
<1> DEFINE n == Len(s)
           p == SubSeq(s, 1, e)
           L == Limit(t, negative)
<1>1. n \in Nat /\ e \in Nat /\ e <= n /\ L \in Nat
  BY LimitFacts
<1>2. p \in Seq(A) /\ Len(p) = e /\ \A k \in 1 .. e : p[k] = s[k]
  <2>1. p = [k \in 1 .. e |-> s[k]]
    BY <1>1
  <2>2. \A k \in 1 .. e : s[k] \in A
    BY <1>1
  <2> QED BY <1>1, <2>1, <2>2
<1>3. AllDigits(base, p, Len(p))
  BY <1>2 DEF AllDigits
<1> HIDE DEF p
<1>4. PICK g \in [0 .. e -> Nat] : MagnitudeRun(g, base, p) /\ g[e] = m
  BY <1>2, <1>3, MagnitudeFold DEF p
<1>5. g[0] = 0 /\ \A k \in 1 .. e : g[k] = g[k - 1] * base + DigitOf(base, s[k])
  BY <1>2, <1>4 DEF MagnitudeRun
<1>6. PICK h \in [0 .. n -> ResultType] : ParseRun(h, t, base, negative, s) /\ h[n] = last
  BY ParseFold
<1>7. h[0] = NoDigits /\ \A k \in 1 .. n : h[k] = ParseDigit(t, base, negative, h[k - 1], s[k])
  BY <1>6 DEF ParseRun
<1>8. \A k \in 0 .. e : ReadsSoFar(h[k], t, negative, g[k], k)
  <2> DEFINE T == {k \in Nat : k <= e => ReadsSoFar(h[k], t, negative, g[k], k)}
  <2>1. 0 \in T
    <3>1. NoDigits.value = Signed(negative, 0) /\ NoDigits.valid /\ ~NoDigits.any
      <4>1. NoDigits.value = 0 /\ NoDigits.valid /\ ~NoDigits.any
        BY DEF NoDigits
      <4>2. Signed(negative, 0) = 0
        <5>1. \A x \in Int : x = 0 => -x = 0
          OBVIOUS
        <5>2. -0 = 0
          BY <5>1
        <5> QED BY <5>2 DEF Signed
      <4> QED BY <4>1, <4>2
    <3> QED BY <1>1, <1>5, <1>7, <3>1 DEF ReadsSoFar
  <2>2. ASSUME NEW k \in Nat, k \in T PROVE k + 1 \in T
    <3>1. SUFFICES ASSUME k + 1 <= e PROVE ReadsSoFar(h[k + 1], t, negative, g[k + 1], k + 1)
      OBVIOUS
    <3>2. k \in 0 .. e /\ k + 1 \in 1 .. e /\ k + 1 \in 1 .. n /\ (k + 1) - 1 = k /\ k + 1 > 0
          /\ k + 1 \in 0 .. e
      BY <1>1, <3>1
    <3>3. ReadsSoFar(h[k], t, negative, g[k], k)
      BY <1>1, <2>2, <3>1
    <3>4. g[k] \in Nat /\ g[k + 1] \in Nat /\ g[k + 1] = g[k] * base + DigitOf(base, s[k + 1])
      BY <1>5, <3>2
    <3>5. h[k + 1] = ParseDigit(t, base, negative, h[k], s[k + 1])
      BY <1>7, <3>2
    <3>6. CharToDigit(base, s[k + 1]) # {}
      BY <3>2 DEF AllDigits
    <3>7. CASE g[k] <= L
      <4>1. h[k].valid /\ (h[k].any <=> k > 0) /\ h[k].value = Signed(negative, g[k])
        BY <3>3, <3>7 DEF ReadsSoFar
      <4>2. (~h[k].any => g[k] = 0) /\ h[k] \in ResultType
        <5>1. k \in 0 .. n
          BY <1>1, <3>2
        <5>2. ~(k > 0) => k = 0
          BY <3>2
        <5> QED BY <1>5, <4>1, <5>1, <5>2
      <4>4. /\ g[k + 1] <= L => h[k + 1].valid /\ h[k + 1].any /\ h[k + 1].value = Signed(negative, g[k + 1])
            /\ g[k + 1] > L => ~h[k + 1].valid /\ h[k + 1].value = Signed(negative, L)
        <5>1. PICK a, b, r, c : a = g[k] /\ b = g[k + 1] /\ r = h[k] /\ c = s[k + 1]
          OBVIOUS
        <5>2. /\ a \in Nat /\ a <= L /\ CharToDigit(base, c) # {} /\ r \in ResultType
              /\ r.valid /\ r.value = Signed(negative, a) /\ (~r.any => a = 0)
              /\ b = a * base + DigitOf(base, c)
          BY <3>4, <3>6, <3>7, <4>1, <4>2, <5>1
        <5>3. /\ b <= L =>
                   /\ ParseDigit(t, base, negative, r, c).valid /\ ParseDigit(t, base, negative, r, c).any
                   /\ ParseDigit(t, base, negative, r, c).value = Signed(negative, b)
              /\ b > L =>
                   /\ ~ParseDigit(t, base, negative, r, c).valid
                   /\ ParseDigit(t, base, negative, r, c).value = Signed(negative, L)
          BY <5>2, TurnReads
        <5> QED BY <3>5, <5>1, <5>3
      <4> QED BY <1>1, <3>2, <3>4, <4>4 DEF ReadsSoFar
    <3>8. CASE ~(g[k] <= L)
      <4>1. ~h[k].valid /\ h[k].value = Signed(negative, L)
        BY <3>3, <3>8 DEF ReadsSoFar
      <4>2. h[k + 1] = h[k]
        BY <3>5, <4>1 DEF ParseDigit
      <4>3. DigitOf(base, s[k + 1]) \in Nat
        BY <3>6, DigitFacts
      <4>4. ~(g[k + 1] <= L)
        BY SMTT(30), <1>1, <3>4, <3>8, <4>3 DEF Bases
      <4> QED BY <4>1, <4>2, <4>4 DEF ReadsSoFar
    <3> QED BY <3>7, <3>8
  <2> HIDE DEF T
  <2>3. \A k \in Nat : k \in T
    BY <2>1, <2>2, SetInduction
  <2> QED BY <1>1, <2>3 DEF T
<1>9. ReadsSoFar(h[e], t, negative, m, e) /\ m \in Nat
  <2>1. e \in 0 .. e
    BY <1>1
  <2> QED BY <1>4, <1>8, <2>1
<1>10. h[e].value = Clamped(t, negative, m) /\ (h[e].valid <=> m <= L)
  BY <1>9 DEF ReadsSoFar, Clamped
<1>11. CASE e = n
  BY <1>1, <1>6, <1>9, <1>10, <1>11 DEF LoopIs
<1>12. CASE e < n
  <2> DEFINE T == {k \in Nat : e + 1 + k <= n => /\ ~h[e + 1 + k].valid
                                                 /\ h[e + 1 + k].value = Clamped(t, negative, m)}
  <2>1. 0 \in T
    <3>1. e + 1 + 0 = e + 1 /\ e + 1 \in 1 .. n /\ (e + 1) - 1 = e /\ e \in 0 .. n
      BY <1>1, <1>12
    <3>2. h[e + 1] = ParseDigit(t, base, negative, h[e], s[e + 1])
      BY <1>7, <3>1
    <3>3. CharToDigit(base, s[e + 1]) = {}
      BY <1>12
    <3>4. h[e] \in ResultType
      BY <3>1
    <3>5. ~h[e + 1].valid /\ h[e + 1].value = h[e].value
      BY <3>2, <3>3, <3>4 DEF ParseDigit, ResultType
    <3> QED BY <1>10, <3>1, <3>5
  <2>2. ASSUME NEW k \in Nat, k \in T PROVE k + 1 \in T
    <3>1. SUFFICES ASSUME e + 1 + (k + 1) <= n
                   PROVE  /\ ~h[e + 1 + (k + 1)].valid
                          /\ h[e + 1 + (k + 1)].value = Clamped(t, negative, m)
      OBVIOUS
    <3>2. PICK j : j = e + 1 + k
      OBVIOUS
    <3>3. e + 1 + (k + 1) = j + 1 /\ j + 1 \in 1 .. n /\ (j + 1) - 1 = j /\ j <= n
      BY <1>1, <3>1, <3>2
    <3>4. h[j + 1] = ParseDigit(t, base, negative, h[j], s[j + 1])
      BY <1>7, <3>3
    <3>5. ~h[j].valid /\ h[j].value = Clamped(t, negative, m)
      BY <2>2, <3>2, <3>3
    <3>6. h[j + 1] = h[j]
      BY <3>4, <3>5 DEF ParseDigit
    <3> QED BY <3>3, <3>5, <3>6
  <2> HIDE DEF T
  <2>3. n - e - 1 \in T
    <3>1. \A k \in Nat : k \in T
      BY <2>1, <2>2, SetInduction
    <3>2. n - e - 1 \in Nat
      BY <1>1, <1>12
    <3> QED BY <3>1, <3>2
  <2>4. e + 1 + (n - e - 1) = n /\ n <= n
    BY <1>1
  <2>5. ~h[n].valid /\ h[n].value = Clamped(t, negative, m)
    BY <2>3, <2>4 DEF T
  <2>6. n \in 0 .. n
    BY <1>1
  <2> QED BY <1>1, <1>6, <1>9, <1>12, <2>5, <2>6 DEF LoopIs
<1> QED BY <1>1, <1>11, <1>12

\* The rest of a string, and parts of the rest.
LEMMA Slices ==
  ASSUME NEW A, NEW s \in Seq(A), NEW a \in 1 .. (Len(s) + 1)
  PROVE  LET rest == SubSeq(s, a, Len(s))
         IN /\ rest \in Seq(A) /\ Len(rest) = Len(s) - a + 1
            /\ \A i \in 1 .. (Len(s) - a + 1) : rest[i] = s[a + i - 1]
            /\ a <= Len(s) => Tail(rest) = SubSeq(s, a + 1, Len(s))
            /\ a + 1 <= Len(s) => SubSeq(rest, 3, Len(rest)) = SubSeq(s, a + 2, Len(s))
            /\ \A e \in 0 .. (Len(s) - a + 1) : SubSeq(rest, 1, e) = SubSeq(s, a, a + e - 1)
<1> DEFINE n == Len(s)
           rest == SubSeq(s, a, n)
<1>1. n \in Nat /\ a \in Nat
  OBVIOUS
<1>2. rest = [i \in 1 .. (n - a + 1) |-> s[a + i - 1]]
  BY <1>1
<1>3. \A i \in 1 .. (n - a + 1) : s[a + i - 1] \in A
  BY <1>1
<1>4. rest \in Seq(A) /\ Len(rest) = n - a + 1
  BY <1>1, <1>2, <1>3
<1>5. a <= n => Tail(rest) = SubSeq(s, a + 1, n)
  BY <1>1, <1>4
<1>6. a + 1 <= n => SubSeq(rest, 3, Len(rest)) = SubSeq(s, a + 2, n)
  BY <1>1, <1>4
<1>7. \A e \in 0 .. (n - a + 1) : SubSeq(rest, 1, e) = SubSeq(s, a, a + e - 1)
  BY <1>1, <1>4
<1> QED BY <1>2, <1>4, <1>5, <1>6, <1>7

\* A set of natural numbers has a smallest one.
LEMMA MinIs ==
  ASSUME NEW S \in SUBSET Nat, S # {}
  PROVE  Min(S) \in S /\ \A y \in S : Min(S) <= y
<1> DEFINE T == {n \in Nat : \A m \in S : m <= n => \E x \in S : \A y \in S : x <= y}
<1>1. 0 \in T
  <2>1. ASSUME NEW m \in S, m <= 0 PROVE \A y \in S : m <= y
    BY <2>1
  <2> QED BY <2>1
<1>2. ASSUME NEW n \in Nat, n \in T PROVE n + 1 \in T
  <2>1. ASSUME NEW m \in S, m <= n + 1 PROVE \E x \in S : \A y \in S : x <= y
    <3>1. CASE \E y \in S : y <= n
      BY <1>2, <3>1
    <3>2. CASE ~\E y \in S : y <= n
      <4>1. \A y \in S : m <= y
        BY <2>1, <3>2
      <4> QED BY <4>1
    <3> QED BY <3>1, <3>2
  <2> QED BY <2>1
<1>3. \A n \in Nat : n \in T
  <2> HIDE DEF T
  <2> QED BY <1>1, <1>2, SetInduction
<1>4. \E x \in S : \A y \in S : x <= y
  <2>1. PICK m \in S : TRUE
    OBVIOUS
  <2>2. m \in T /\ m <= m
    BY <1>3
  <2> QED BY <2>2
<1> QED BY <1>4 DEF Min

\* Of the set S of numbers from lo to hi the smallest.
LEMMA FirstOf ==
  ASSUME NEW lo \in Nat, NEW hi \in Nat, NEW S \in SUBSET (lo .. hi), hi \in S
  PROVE  Min(S) \in S /\ Min(S) \in lo .. hi /\ \A i \in lo .. (Min(S) - 1) : i \notin S
<1>1. Min(S) \in S /\ \A y \in S : Min(S) <= y
  BY MinIs
<1>2. Min(S) \in lo .. hi
  BY <1>1
<1>3. ASSUME NEW i \in lo .. (Min(S) - 1), i \in S PROVE FALSE
  BY <1>1, <1>2, <1>3
<1> QED BY <1>1, <1>2, <1>3

\* The digits of s from a on: where they begin behind a prefix, and where they end.
RestOf(s, a) == SubSeq(s, a, Len(s))
Beginning(base, s, a) ==
  IF base = 16 /\ Len(s) > a + 1 /\ s[a] = "0" /\ s[a + 1] = "x" THEN a + 2 ELSE a
Ending(base, s, a) == Min({i \in a .. (Len(s) + 1) : i > Len(s) \/ CharToDigit(base, s[i]) = {}})

EndsAt(base, s, a, end) ==
  /\ end \in a .. (Len(s) + 1) /\ (end > Len(s) \/ CharToDigit(base, s[end]) = {})
  /\ \A i \in a .. (end - 1) : i <= Len(s) /\ CharToDigit(base, s[i]) # {}
LEMMA DigitsEnd ==
  ASSUME NEW base \in Bases, NEW A, NEW s \in Seq(A), NEW a \in 1 .. (Len(s) + 1)
  PROVE  EndsAt(base, s, a, Ending(base, s, a))
<1> DEFINE end == Ending(base, s, a)
           S == {i \in a .. (Len(s) + 1) : i > Len(s) \/ CharToDigit(base, s[i]) = {}}
<1>1. a \in Nat /\ Len(s) + 1 \in Nat /\ S \in SUBSET (a .. (Len(s) + 1)) /\ Len(s) + 1 \in S
  OBVIOUS
<1>2. end = Min(S)
  BY DEF Ending
<1>3. end \in S /\ end \in a .. (Len(s) + 1) /\ \A i \in a .. (end - 1) : i \notin S
  <2> HIDE DEF S
  <2> QED BY <1>1, <1>2, FirstOf
<1>4. ASSUME NEW i \in a .. (end - 1) PROVE i <= Len(s) /\ CharToDigit(base, s[i]) # {}
  <2>1. i \in a .. (Len(s) + 1)
    BY <1>1, <1>3
  <2> QED BY <1>3, <2>1
<1> QED BY <1>3, <1>4 DEF EndsAt

\* They are the beginning of the rest.
HasDigits(base, A, s, a, end, ds, e) ==
  /\ ds \in Seq(A) /\ Len(ds) = Len(s) - a + 1 /\ e \in 0 .. Len(ds) /\ end \in a .. (Len(s) + 1)
  /\ AllDigits(base, ds, e) /\ (e < Len(ds) => CharToDigit(base, ds[e + 1]) = {})
  /\ SubSeq(ds, 1, e) = SubSeq(s, a, end - 1)
LEMMA DigitsFrom ==
  ASSUME NEW base \in Bases, NEW A, NEW s \in Seq(A), NEW a \in 1 .. (Len(s) + 1),
         NEW end, end = Ending(base, s, a), NEW ds, ds = RestOf(s, a), NEW e, e = end - a
  PROVE  HasDigits(base, A, s, a, end, ds, e)
<1> DEFINE n == Len(s)
<1>1. n \in Nat /\ a \in Nat /\ a <= n + 1
  OBVIOUS
<1>2. /\ end \in a .. (n + 1) /\ (end > n \/ CharToDigit(base, s[end]) = {})
      /\ \A i \in a .. (end - 1) : i <= n /\ CharToDigit(base, s[i]) # {}
  <2>1. EndsAt(base, s, a, end)
    BY DigitsEnd
  <2> QED BY <2>1 DEF EndsAt
<1>3. ds \in Seq(A) /\ Len(ds) = n - a + 1 /\ \A i \in 1 .. (n - a + 1) : ds[i] = s[a + i - 1]
  BY Slices DEF RestOf
<1>4. e \in 0 .. Len(ds) /\ e \in Nat /\ end \in Nat /\ a + e - 1 = end - 1
  BY <1>1, <1>2, <1>3
<1>5. AllDigits(base, ds, e)
  <2>1. ASSUME NEW i \in 1 .. e PROVE CharToDigit(base, ds[i]) # {}
    <3>1. a + i - 1 \in a .. (end - 1) /\ i \in 1 .. (n - a + 1)
      <4>1. i \in Nat /\ 1 <= i /\ i <= end - a /\ end - a <= n - a + 1 /\ end \in Nat
        BY <1>1, <1>3, <1>4
      <4> QED BY <1>1, <4>1
    <3> QED BY <1>2, <1>3, <3>1
  <2> QED BY <2>1 DEF AllDigits
<1>6. ASSUME e < Len(ds) PROVE CharToDigit(base, ds[e + 1]) = {}
  <2>1. e + 1 \in 1 .. (n - a + 1) /\ a + (e + 1) - 1 = end /\ ~(end > n)
    <3>1. end \in Nat /\ e = end - a /\ e < n - a + 1 /\ e \in Nat
      BY <1>3, <1>4, <1>6
    <3> HIDE DEF n
    <3> QED BY <1>1, <3>1
  <2> QED BY <1>2, <1>3, <2>1
<1>7. SubSeq(ds, 1, e) = SubSeq(s, a, end - 1)
  <2>1. e \in 0 .. (n - a + 1)
    BY <1>3, <1>4
  <2>2. SubSeq(RestOf(s, a), 1, e) = SubSeq(s, a, a + e - 1)
    BY <2>1, Slices DEF RestOf
  <2> QED BY <1>4, <2>2
<1> QED BY <1>2, <1>3, <1>4, <1>5, <1>6, <1>7 DEF HasDigits

\* Invoke leaves a prefix out.
LEMMA PrefixIs ==
  ASSUME NEW base \in Bases, NEW A, NEW s \in Seq(A), NEW a \in 1 .. (Len(s) + 1),
         NEW first, first = Beginning(base, s, a), NEW rest, rest = RestOf(s, a)
  PROVE  /\ first \in a .. (Len(s) + 1) /\ first \in 1 .. (Len(s) + 1)
         /\ rest # <<>> <=> a <= Len(s)
         /\ first = a \/ (first = a + 2 /\ a + 2 <= Len(s))
         /\ RestOf(s, first) = IF HasPrefix(base, rest) THEN SubSeq(rest, 3, Len(rest)) ELSE rest
<1> DEFINE n == Len(s)
<1>1. n \in Nat /\ a \in Nat /\ a <= n + 1
  OBVIOUS
<1>2. first = a \/ (first = a + 2 /\ a + 2 <= n)
  BY <1>1 DEF Beginning
<1>3. rest \in Seq(A) /\ Len(rest) = n - a + 1 /\ \A i \in 1 .. (n - a + 1) : rest[i] = s[a + i - 1]
  BY Slices DEF RestOf
<1>4. rest # <<>> <=> a <= n
  BY <1>1, <1>3
<1>5. Len(rest) > 2 <=> n > a + 1
  BY <1>1, <1>3
<1>6. ASSUME n > a + 1 PROVE rest[1] = s[a] /\ rest[2] = s[a + 1]
  <2>1. 1 \in 1 .. (n - a + 1) /\ 2 \in 1 .. (n - a + 1) /\ a + 1 - 1 = a /\ a + 2 - 1 = a + 1
    BY <1>1, <1>6
  <2> QED BY <1>3, <2>1
<1>7. HasPrefix(base, rest) <=> base = 16 /\ n > a + 1 /\ s[a] = "0" /\ s[a + 1] = "x"
  BY <1>5, <1>6 DEF HasPrefix
<1>8. CASE HasPrefix(base, rest)
  <2>1. first = a + 2 /\ a + 1 <= n
    BY <1>1, <1>7, <1>8 DEF Beginning
  <2>2. SubSeq(rest, 3, Len(rest)) = RestOf(s, a + 2)
    BY <2>1, Slices DEF RestOf
  <2> QED BY <1>1, <1>2, <1>4, <1>8, <2>1, <2>2
<1>9. CASE ~HasPrefix(base, rest)
  <2>1. first = a
    BY <1>7, <1>9 DEF Beginning
  <2> QED BY <1>1, <1>2, <1>4, <1>9, <2>1
<1> QED BY <1>8, <1>9

\* The value and whether it is valid.
NumberResult == [value : Int, valid : BOOLEAN]

\* Invoke from the character at a on, of which the first ones may be a prefix.
Invoked(t, base, negative, s, a, first, end, m, r) ==
  /\ first \in a .. (Len(s) + 1) /\ end \in first .. (Len(s) + 1) /\ m \in Nat
  /\ r \in NumberResult
  /\ r.value = Clamped(t, negative, m)
  /\ r.valid <=> end > first /\ end = Len(s) + 1 /\ m <= Limit(t, negative)
LEMMA InvokeReads ==
  ASSUME NEW t \in Types, NEW base \in Bases, NEW negative \in BOOLEAN, negative => t.signed,
         NEW A, NEW s \in Seq(A), NEW a \in 1 .. (Len(s) + 1),
         NEW first, first = Beginning(base, s, a), NEW end, end = Ending(base, s, first),
         NEW m, m = Magnitude(base, SubSeq(s, first, end - 1)),
         NEW r, r = Invoke(t, base, negative, RestOf(s, a))
  PROVE  Invoked(t, base, negative, s, a, first, end, m, r)
<1>1. PICK n, ds, e, rest : n = Len(s) /\ ds = RestOf(s, first) /\ e = end - first /\ rest = RestOf(s, a)
  OBVIOUS
<1>2. /\ n \in Nat /\ a \in Nat /\ first \in a .. (n + 1) /\ first \in 1 .. (n + 1)
      /\ rest # <<>> <=> a <= n
      /\ first = a \/ (first = a + 2 /\ a + 2 <= n)
      /\ ds = IF HasPrefix(base, rest) THEN SubSeq(rest, 3, Len(rest)) ELSE rest
  <2>1. n \in Nat /\ a \in Nat
    BY <1>1
  <2> QED BY <1>1, <2>1, PrefixIs
<1>3. /\ ds \in Seq(A) /\ Len(ds) = n - first + 1 /\ e \in 0 .. Len(ds) /\ end \in first .. (n + 1)
      /\ AllDigits(base, ds, e) /\ (e < Len(ds) => CharToDigit(base, ds[e + 1]) = {})
      /\ SubSeq(ds, 1, e) = SubSeq(s, first, end - 1)
  <2>1. HasDigits(base, A, s, first, end, ds, e)
    BY <1>1, <1>2, DigitsFrom
  <2> QED BY <1>1, <2>1 DEF HasDigits
<1>4. PICK last : last = LoopResult(t, base, negative, ds)
  OBVIOUS
<1>5. /\ m \in Nat /\ last \in ResultType
      /\ last.value = Clamped(t, negative, m)
      /\ last.valid <=> e = Len(ds) /\ m <= Limit(t, negative)
  <2>1. m = Magnitude(base, SubSeq(ds, 1, e))
    BY <1>3
  <2>2. LoopIs(t, base, negative, ds, e, m, last)
    BY <1>3, <1>4, <2>1, LoopReads
  <2> QED BY <2>2 DEF LoopIs
<1>6. Invoke(t, base, negative, rest) = [value |-> last.value, valid |-> rest # <<>> /\ last.valid]
  BY <1>2, <1>4 DEF Invoke, LoopResult
<1>7. r.value = last.value /\ (r.valid <=> rest # <<>> /\ last.valid) /\ r \in [value : Int, valid : BOOLEAN]
  <2>1. last.value \in Int
    BY <1>5 DEF ResultType
  <2>2. PICK v \in BOOLEAN : v = (rest # <<>> /\ last.valid)
    OBVIOUS
  <2>3. r = [value |-> last.value, valid |-> v]
    BY <1>1, <1>6, <2>2, Zenon
  <2>4. r.value = last.value /\ (r.valid <=> v) /\ r \in [value : Int, valid : BOOLEAN]
    BY <2>1, <2>3
  <2> QED BY <2>2, <2>4
<1>8. rest # <<>> /\ e = Len(ds) <=> end > first /\ end = n + 1
  <2>0. n \in Nat /\ a \in Nat /\ (first = a \/ (first = a + 2 /\ a + 2 <= n)) /\ first \in Nat
    <3>1. n \in Nat /\ a \in Nat /\ (first = a \/ (first = a + 2 /\ a + 2 <= n))
      BY <1>2
    <3> QED BY <3>1
  <2>1. end \in Nat
    BY <1>3, <2>0
  <2>2. e = Len(ds) <=> end = n + 1
    <3>1. PICK l : l = Len(ds)
      OBVIOUS
    <3>2. l = n - first + 1 /\ e = end - first
      BY <1>1, <1>3, <3>1
    <3>3. \A x, y, z \in Nat : x - y = z - y + 1 <=> x = z + 1
      OBVIOUS
    <3>4. end - first = n - first + 1 <=> end = n + 1
      <4>1. end \in Nat /\ n \in Nat /\ first \in Nat
        BY <2>0, <2>1
      <4> QED BY SMTT(30), <3>3, <4>1
    <3>5. e = l <=> end = n + 1
      BY <3>2, <3>4, Zenon
    <3> QED BY <3>1, <3>5, Zenon
  <2>3. end = n + 1 => (end > first <=> a <= n)
    BY <2>0, <2>1
  <2> QED BY <1>2, <2>2, <2>3
<1> QED BY <1>1, <1>2, <1>3, <1>5, <1>7, <1>8 DEF Invoked, NumberResult

\* The end of the type, as the smaller and the larger of two numbers.
LEMMA ClampIs ==
  ASSUME NEW t \in Types, NEW negative \in BOOLEAN, negative => t.signed, NEW m \in Nat
  PROVE  Max({Lowest(t), Min({MaxOf(t), Signed(negative, m)})}) = Clamped(t, negative, m)
<1>1. /\ Lowest(t) \in Int /\ MaxOf(t) \in Int /\ Lowest(t) <= MaxOf(t)
      /\ Limit(t, negative) \in Nat /\ Limit(t, negative) = IF negative THEN -Lowest(t) ELSE MaxOf(t)
      /\ Lowest(t) <= 0 /\ 0 <= MaxOf(t)
  BY LimitFacts DEF Limit
<1>2. \A a, b \in Int : Min({a, b}) = (IF a <= b THEN a ELSE b) /\ Max({a, b}) = (IF a <= b THEN b ELSE a)
  <2>1. ASSUME NEW a \in Int, NEW b \in Int
        PROVE  Min({a, b}) = (IF a <= b THEN a ELSE b) /\ Max({a, b}) = (IF a <= b THEN b ELSE a)
    <3>1. \E x \in {a, b} : \A y \in {a, b} : x <= y
      BY <2>1
    <3>2. Min({a, b}) \in {a, b} /\ \A y \in {a, b} : Min({a, b}) <= y
      BY <3>1 DEF Min
    <3>3. \E x \in {a, b} : \A y \in {a, b} : x >= y
      BY <2>1
    <3>4. Max({a, b}) \in {a, b} /\ \A y \in {a, b} : Max({a, b}) >= y
      BY <3>3 DEF Max
    <3> QED BY <3>2, <3>4
  <2> QED BY <2>1
<1>3. Signed(negative, m) \in Int
  BY DEF Signed
<1>4. Min({MaxOf(t), Signed(negative, m)})
        = (IF MaxOf(t) <= Signed(negative, m) THEN MaxOf(t) ELSE Signed(negative, m))
  BY <1>1, <1>2, <1>3
<1>5. \A x \in Int : Max({Lowest(t), x}) = (IF Lowest(t) <= x THEN x ELSE Lowest(t))
  BY <1>1, <1>2
<1>6. CASE negative
  <2>1. Signed(negative, m) = -m /\ Limit(t, negative) = -Lowest(t)
    BY <1>1, <1>6 DEF Signed
  <2>2. Min({MaxOf(t), Signed(negative, m)}) = -m
    BY <1>1, <1>4, <2>1
  <2>3. Max({Lowest(t), -m}) = (IF Lowest(t) <= -m THEN -m ELSE Lowest(t))
    BY <1>5
  <2>4. Clamped(t, negative, m) = IF m <= -Lowest(t) THEN -m ELSE -(-Lowest(t))
    BY <1>6, <2>1 DEF Clamped, Signed
  <2> QED BY <1>1, <2>2, <2>3, <2>4
<1>7. CASE ~negative
  <2>1. Signed(negative, m) = m /\ Limit(t, negative) = MaxOf(t)
    BY <1>1, <1>7 DEF Signed
  <2>2. Min({MaxOf(t), Signed(negative, m)}) = (IF MaxOf(t) <= m THEN MaxOf(t) ELSE m)
    BY <1>4, <2>1
  <2>3. Clamped(t, negative, m) = IF m <= MaxOf(t) THEN m ELSE MaxOf(t)
    BY <1>7, <2>1 DEF Clamped, Signed
  <2>4. PICK x \in Int : x = (IF MaxOf(t) <= m THEN MaxOf(t) ELSE m)
    BY <1>1
  <2>5. Max({Lowest(t), x}) = x
    BY <1>1, <1>5, <2>4
  <2> QED BY <1>1, <2>2, <2>3, <2>4, <2>5
<1> QED BY <1>6, <1>7

\* What the calls of StringToNumber and Reading come to, with the place after
\* whitespace and the place after a sign.
SignOf(s) == Min({i \in 1 .. (Len(s) + 1) : i > Len(s) \/ s[i] # Space})
DigitsOf(s, sign) == IF sign <= Len(s) /\ s[sign] \in {"-", "+"} THEN sign + 1 ELSE sign

SignAt(s, sign) == sign \in 1 .. (Len(s) + 1) /\ (sign <= Len(s) => s[sign] # Space)
LEMMA SignIs ==
  ASSUME NEW A, NEW s \in Seq(A), NEW sign, sign = SignOf(s)
  PROVE  SignAt(s, sign)
<1>1. PICK n \in Nat : n = Len(s)
  OBVIOUS
<1>2. PICK S : S = {i \in 1 .. (n + 1) : i > n \/ s[i] # Space}
  OBVIOUS
<1>3. sign = Min(S)
  BY <1>1, <1>2 DEF SignOf
<1>4. S \in SUBSET (1 .. (n + 1)) /\ n + 1 \in S
  <2>1. n + 1 \in 1 .. (n + 1) /\ n + 1 > n
    OBVIOUS
  <2> QED BY <1>2, <2>1
<1>5. sign \in S
  <2>1. 1 \in Nat /\ n + 1 \in Nat
    OBVIOUS
  <2> QED BY <1>3, <1>4, <2>1, FirstOf
<1>6. sign \in 1 .. (n + 1) /\ (sign > n \/ s[sign] # Space)
  BY <1>2, <1>5
<1>7. sign > n => ~(sign <= n)
  <2>1. sign \in 1 .. (n + 1)
    BY <1>6
  <2>2. \A x \in 1 .. (n + 1) : x > n => ~(x <= n)
    OBVIOUS
  <2> QED BY <2>1, <2>2
<1> QED BY <1>1, <1>6, <1>7 DEF SignAt

ParseAt(t, base, s, sign, digits, result) ==
  /\ sign \in 1 .. (Len(s) + 1) /\ digits \in 1 .. (Len(s) + 1) /\ digits \in sign .. (sign + 1)
  /\ digits > sign => s[sign] \in {"-", "+"}
  /\ sign <= Len(s) /\ s[sign] = "-" => digits > sign
  /\ (sign <= Len(s) /\ s[sign] = "-" /\ t.signed) =>
       result = [Invoke(t, base, TRUE, RestOf(s, digits)) EXCEPT !.valid = @ /\ sign = 1]
  /\ (sign <= Len(s) /\ s[sign] = "-" /\ ~t.signed) => result = [value |-> 0, valid |-> FALSE]
  /\ ~(sign <= Len(s) /\ s[sign] = "-") =>
       result = [Invoke(t, base, FALSE, RestOf(s, digits)) EXCEPT !.valid = @ /\ sign = 1]
LEMMA ParseIs ==
  ASSUME NEW t \in Types, NEW base \in Bases, NEW A, NEW s \in Seq(A),
         NEW sign, sign = SignOf(s), NEW digits, digits = DigitsOf(s, sign)
  PROVE  ParseAt(t, base, s, sign, digits, StringToNumber(t, base, s))
<1> DEFINE rest == RestOf(s, sign)
<1>0. PICK n \in Nat : n = Len(s)
  OBVIOUS
<1>1. sign \in 1 .. (n + 1) /\ sign \in Nat
  <2>1. SignAt(s, sign)
    BY SignIs
  <2> QED BY <1>0, <2>1 DEF SignAt
<1>2. digits \in 1 .. (n + 1) /\ digits \in sign .. (sign + 1) /\ (digits > sign => s[sign] \in {"-", "+"})
      /\ (sign <= n /\ s[sign] = "-" => digits > sign)
  BY <1>0, <1>1 DEF DigitsOf
<1>s. /\ rest \in Seq(A) /\ Len(rest) = n - sign + 1
      /\ \A i \in 1 .. (n - sign + 1) : rest[i] = s[sign + i - 1]
      /\ sign <= n => Tail(rest) = RestOf(s, sign + 1)
  BY <1>0, <1>1, Slices DEF RestOf
<1> HIDE DEF rest
<1>3. rest # <<>> <=> sign <= n
  <2>1. rest # <<>> <=> Len(rest) # 0
    BY <1>s
  <2> QED BY <1>1, <1>s, <2>1
<1>4. sign <= n => rest[1] = s[sign] /\ Tail(rest) = RestOf(s, sign + 1)
  <2>1. sign <= n => 1 \in 1 .. (n - sign + 1) /\ sign + 1 - 1 = sign
    BY <1>1
  <2> QED BY <1>s, <2>1
<1>5. (IF rest # <<>> /\ rest[1] \in {"-", "+"} THEN Tail(rest) ELSE rest) = RestOf(s, digits)
  BY <1>0, <1>3, <1>4 DEF DigitsOf, rest
<1>6. rest # <<>> /\ rest[1] \in {"-"} <=> sign <= n /\ s[sign] = "-"
  BY <1>3, <1>4
<1>7. StringToNumber(t, base, s) =
        [(IF rest # <<>> /\ rest[1] \in {"-"} /\ ~t.signed THEN [value |-> 0, valid |-> FALSE]
          ELSE Invoke(t, base, rest # <<>> /\ rest[1] \in {"-"},
                      IF rest # <<>> /\ rest[1] \in {"-", "+"} THEN Tail(rest) ELSE rest))
         EXCEPT !.valid = @ /\ sign = 1]
  BY DEF StringToNumber, RestOf, SignOf, rest
<1>8. CASE sign <= n /\ s[sign] = "-"
  <2>1. (rest # <<>> /\ rest[1] \in {"-"}) = TRUE
    BY <1>6, <1>8
  <2>2. CASE t.signed
    <3>1. StringToNumber(t, base, s) = [Invoke(t, base, TRUE, RestOf(s, digits)) EXCEPT !.valid = @ /\ sign = 1]
      BY <1>5, <1>7, <2>1, <2>2
    <3> QED BY <1>0, <1>1, <1>2, <1>8, <2>2, <3>1 DEF ParseAt
  <2>3. CASE ~t.signed
    <3>1. StringToNumber(t, base, s) = [[value |-> 0, valid |-> FALSE] EXCEPT !.valid = @ /\ sign = 1]
      BY <1>7, <2>1, <2>3
    <3>2. StringToNumber(t, base, s) = [value |-> 0, valid |-> FALSE]
      BY <3>1
    <3> QED BY <1>0, <1>1, <1>2, <1>8, <2>3, <3>2 DEF ParseAt
  <2> QED BY <2>2, <2>3
<1>9. CASE ~(sign <= n /\ s[sign] = "-")
  <2>1. (rest # <<>> /\ rest[1] \in {"-"}) = FALSE
    BY <1>6, <1>9
  <2>2. StringToNumber(t, base, s) = [Invoke(t, base, FALSE, RestOf(s, digits)) EXCEPT !.valid = @ /\ sign = 1]
    BY <1>5, <1>7, <2>1
  <2> QED BY <1>0, <1>1, <1>2, <1>9, <2>2 DEF ParseAt
<1> QED BY <1>8, <1>9


\* What Reading reads.
ReadingFields(base, s, r, sign, digits, first, end) ==
  /\ r.negative \in BOOLEAN /\ r.whole \in BOOLEAN
  /\ r.negative <=> digits > sign /\ s[sign] = "-"
  /\ r.magnitude = Magnitude(base, SubSeq(s, first, end - 1))
  /\ r.whole <=> sign = 1 /\ end > first /\ end = Len(s) + 1
LEMMA ReadingIs ==
  ASSUME NEW base, NEW s, NEW sign, sign = SignOf(s), NEW digits, digits = DigitsOf(s, sign),
         NEW first, first = Beginning(base, s, digits), NEW end, end = Ending(base, s, first)
  PROVE  ReadingFields(base, s, Reading(base, s), sign, digits, first, end)
<1>1. Reading(base, s) =
        [negative |-> digits > sign /\ s[sign] = "-",
         magnitude |-> Magnitude(base, SubSeq(s, first, end - 1)),
         whole |-> sign = 1 /\ end > first /\ end = Len(s) + 1]
  BY Zenon DEF Reading, SignOf, DigitsOf, Beginning, Ending
<1>2. PICK n \in BOOLEAN, w \in BOOLEAN :
        /\ n = (digits > sign /\ s[sign] = "-") /\ w = (sign = 1 /\ end > first /\ end = Len(s) + 1)
  OBVIOUS
<1>3. PICK m : m = Magnitude(base, SubSeq(s, first, end - 1))
  OBVIOUS
<1>4. Reading(base, s) = [negative |-> n, magnitude |-> m, whole |-> w]
  BY <1>1, <1>2, <1>3, Zenon
<1>5. Reading(base, s).negative = n /\ Reading(base, s).magnitude = m /\ Reading(base, s).whole = w
  BY <1>4
<1> QED BY <1>2, <1>3, <1>5, Zenon DEF ReadingFields

\* The result of StringToNumber is not valid behind whitespace.
Unspaced(i, sign) == [i EXCEPT !.valid = @ /\ sign = 1]
LEMMA ResultOf ==
  ASSUME NEW i \in NumberResult, NEW sign, NEW r, r = Unspaced(i, sign)
  PROVE  r \in NumberResult /\ r.value = i.value /\ (r.valid <=> i.valid /\ sign = 1)
<1>1. PICK v \in BOOLEAN : v = (i.valid /\ sign = 1)
  OBVIOUS
<1>2. r = [i EXCEPT !.valid = v]
  BY <1>1, Zenon DEF Unspaced
<1>3. r \in NumberResult /\ r.value = i.value /\ (r.valid <=> v)
  BY <1>2 DEF NumberResult
<1> QED BY <1>1, <1>3

\* StringToNumber reads exactly what its input says, for every type and input.
THEOREM ParseReads ==
  ASSUME NEW t \in Types, NEW base \in Bases, NEW A, NEW s \in Seq(A)
  PROVE  /\ StringToNumber(t, base, s) \in NumberResult
         /\ ReadsExactly(t, StringToNumber(t, base, s), Reading(base, s))
         /\ StringToNumber(t, base, s).valid => InType(t, StringToNumber(t, base, s).value)
<1>1. PICK result, r, sign, digits, first, end, m :
        /\ result = StringToNumber(t, base, s) /\ r = Reading(base, s)
        /\ sign = SignOf(s) /\ digits = DigitsOf(s, sign)
        /\ first = Beginning(base, s, digits) /\ end = Ending(base, s, first)
        /\ m = Magnitude(base, SubSeq(s, first, end - 1))
  OBVIOUS
<1>2. ReadingFields(base, s, r, sign, digits, first, end)
  BY <1>1, ReadingIs
<1>3. ParseAt(t, base, s, sign, digits, result)
  BY <1>1, ParseIs
<1>4. PICK negative \in BOOLEAN : negative <=> sign <= Len(s) /\ s[sign] = "-"
  OBVIOUS
<1>5. (r.negative <=> negative) /\ r.magnitude = m /\ digits \in 1 .. (Len(s) + 1)
      /\ (r.whole <=> sign = 1 /\ end > first /\ end = Len(s) + 1)
  <2>1. Len(s) \in Nat /\ sign \in 1 .. (Len(s) + 1) /\ digits \in 1 .. (Len(s) + 1) /\ digits \in sign .. (sign + 1)
        /\ (sign <= Len(s) /\ s[sign] = "-" => digits > sign)
    BY <1>3 DEF ParseAt
  <2>2. digits > sign => sign <= Len(s)
    BY <2>1
  <2>3. r.negative <=> digits > sign /\ s[sign] = "-"
    BY <1>2 DEF ReadingFields
  <2> QED BY <1>1, <1>2, <1>4, <2>1, <2>2, <2>3 DEF ReadingFields
<1>6. CASE negative /\ ~t.signed
  <2>1. result = [value |-> 0, valid |-> FALSE]
    BY <1>3, <1>4, <1>6 DEF ParseAt
  <2>2. result.value = 0 /\ ~result.valid /\ result \in NumberResult
    BY <2>1 DEF NumberResult
  <2> QED BY <1>1, <1>5, <1>6, <2>2 DEF ReadsExactly
<1>7. CASE ~(negative /\ ~t.signed)
  <2>0. negative => t.signed
    BY <1>7
  <2>1. PICK i : i = Invoke(t, base, negative, RestOf(s, digits))
    OBVIOUS
  <2>2. Invoked(t, base, negative, s, digits, first, end, m, i)
    BY <1>1, <1>5, <2>0, <2>1, InvokeReads
  <2>3. result = Unspaced(i, sign)
    <3>1. CASE negative
      <4>1. negative = TRUE
        BY <3>1
      <4> QED BY <1>3, <1>4, <2>0, <2>1, <3>1, <4>1 DEF ParseAt, Unspaced
    <3>2. CASE ~negative
      <4>1. negative = FALSE
        BY <3>2
      <4> QED BY <1>3, <1>4, <2>1, <3>2, <4>1 DEF ParseAt, Unspaced
    <3> QED BY <3>1, <3>2
  <2>4. result \in NumberResult /\ result.value = i.value /\ (result.valid <=> i.valid /\ sign = 1)
    <3>1. i \in NumberResult
      BY <2>2 DEF Invoked
    <3> QED BY <2>3, <3>1, ResultOf
  <2>5. /\ m \in Nat /\ result.value = Clamped(t, negative, m)
        /\ result.valid <=> r.whole /\ m <= Limit(t, negative)
    BY <1>5, <2>2, <2>4 DEF Invoked
  <2>6. PICK value : value = Signed(negative, m)
    OBVIOUS
  <2>7. Max({Lowest(t), Min({MaxOf(t), value})}) = Clamped(t, negative, m)
    BY <2>0, <2>5, <2>6, ClampIs
  <2>8. InType(t, value) <=> m <= Limit(t, negative)
    BY <2>0, <2>5, <2>6, LimitFacts
  <2>9. (IF r.negative THEN -r.magnitude ELSE r.magnitude) = value /\ ~(r.negative /\ ~t.signed)
    BY <1>5, <1>7, <2>6 DEF Signed
  <2>10. ReadsExactly(t, result, r)
    BY <2>5, <2>7, <2>8, <2>9 DEF ReadsExactly
  <2>11. result.valid => result.value = value /\ InType(t, value)
    BY <2>5, <2>6, <2>8 DEF Clamped
  <2> QED BY <1>1, <2>4, <2>10, <2>11
<1> QED BY <1>6, <1>7

-----------------------------------------------------------------------------
(* StringNumber: writing                                                   *)

DecimalDigits == {Numerals[d + 1] : d \in 0 .. 9}
\* u is the number a, the last digit first.
Written(u, a) == u \in Seq(DecimalDigits) /\ Len(u) > 0 /\ Magnitude(10, Reverse(u)) = a

\* One more digit.
LEMMA MagnitudeEnds ==
  ASSUME NEW base \in Bases, NEW A, NEW s \in Seq(A), AllDigits(base, s, Len(s)),
         NEW c \in A, CharToDigit(base, c) # {}
  PROVE  /\ Magnitude(base, s) \in Nat
         /\ Magnitude(base, Append(s, c)) = Magnitude(base, s) * base + DigitOf(base, c)
<1>1. PICK n \in Nat : n = Len(s)
  OBVIOUS
<1>2. PICK q : q = Append(s, c)
  OBVIOUS
<1>3. q \in Seq(A) /\ Len(q) = n + 1 /\ q[n + 1] = c /\ \A k \in 1 .. n : q[k] = s[k]
  BY <1>1, <1>2
<1>4. AllDigits(base, q, Len(q))
  <2>1. ASSUME NEW k \in 1 .. (n + 1) PROVE CharToDigit(base, q[k]) # {}
    <3>1. CASE k = n + 1
      BY <1>3, <3>1
    <3>2. CASE k # n + 1
      <4>1. k \in 1 .. n
        BY <3>2
      <4> QED BY <1>1, <1>3, <4>1 DEF AllDigits
    <3> QED BY <3>1, <3>2
  <2> QED BY <1>3, <2>1 DEF AllDigits
<1>5. PICK g \in [0 .. n -> Nat] : MagnitudeRun(g, base, s) /\ g[n] = Magnitude(base, s)
  BY <1>1, MagnitudeFold
<1>6. PICK h \in [0 .. (n + 1) -> Nat] : MagnitudeRun(h, base, q) /\ h[n + 1] = Magnitude(base, q)
  BY <1>3, <1>4, MagnitudeFold
<1>7. g[0] = 0 /\ \A k \in 1 .. n : g[k] = g[k - 1] * base + DigitOf(base, s[k])
  BY <1>1, <1>5 DEF MagnitudeRun
<1>8. h[0] = 0 /\ \A k \in 1 .. (n + 1) : h[k] = h[k - 1] * base + DigitOf(base, q[k])
  BY <1>3, <1>6 DEF MagnitudeRun
<1>9. g[n] = h[n]
  <2> DEFINE T == {k \in Nat : k <= n => g[k] = h[k]}
  <2>1. 0 \in T
    BY <1>7, <1>8
  <2>2. ASSUME NEW k \in Nat, k \in T PROVE k + 1 \in T
    <3>1. SUFFICES ASSUME k + 1 <= n PROVE g[k + 1] = h[k + 1]
      OBVIOUS
    <3>2. k + 1 \in 1 .. n /\ k + 1 \in 1 .. (n + 1) /\ (k + 1) - 1 = k /\ k <= n
      BY <3>1
    <3>3. g[k] = h[k] /\ q[k + 1] = s[k + 1]
      BY <1>3, <2>2, <3>2
    <3> QED BY <1>7, <1>8, <3>2, <3>3
  <2> HIDE DEF T
  <2>3. n \in T
    BY <2>1, <2>2, SetInduction
  <2> QED BY <2>3 DEF T
<1>10. h[n + 1] = h[n] * base + DigitOf(base, c)
  <2>1. n + 1 \in 1 .. (n + 1) /\ (n + 1) - 1 = n
    OBVIOUS
  <2> QED BY <1>3, <1>8, <2>1
<1>11. g[n] \in Nat
  BY <1>5
<1> QED BY <1>2, <1>5, <1>6, <1>9, <1>10, <1>11

LEMMA MagnitudeEmpty ==
  ASSUME NEW base \in Bases
  PROVE  Magnitude(base, <<>>) = 0
<1>0. <<>> \in Seq(Nat)
  OBVIOUS
<1>1. PICK s \in Seq(Nat) : s = <<>>
  BY <1>0
<1>2. Len(s) = 0 /\ AllDigits(base, s, Len(s))
  BY <1>1 DEF AllDigits
<1>3. PICK g : MagnitudeRun(g, base, s) /\ g[Len(s)] = Magnitude(base, s)
  BY <1>2, MagnitudeFold
<1>4. g[0] = 0
  BY <1>3 DEF MagnitudeRun
<1> QED BY <1>1, <1>2, <1>3, <1>4

\* Putting a digit in front is appending it, backwards.
LEMMA Backwards ==
  ASSUME NEW A, NEW u \in Seq(A), NEW c \in A
  PROVE  /\ Reverse(u) \in Seq(A) /\ Len(Reverse(u)) = Len(u)
         /\ <<c>> \o u \in Seq(A) /\ Len(<<c>> \o u) = Len(u) + 1
         /\ Reverse(<<c>> \o u) = Append(Reverse(u), c)
<1>1. PICK n \in Nat : n = Len(u)
  OBVIOUS
<1>2. PICK w : w = <<c>> \o u
  OBVIOUS
<1>3. w \in Seq(A) /\ Len(w) = n + 1 /\ w[1] = c /\ \A i \in 1 .. n : w[i + 1] = u[i]
  <2>1. w \in Seq(A) /\ Len(w) = n + 1 /\ w[1] = c
    BY <1>1, <1>2
  <2>2. ASSUME NEW i \in 1 .. n PROVE w[i + 1] = u[i]
    BY <1>1, <1>2
  <2> QED BY <2>1, <2>2
<1>4. PICK ru : ru = Reverse(u)
  OBVIOUS
<1>5. ru = [i \in 1 .. n |-> u[(n - i) + 1]]
  BY <1>1, <1>4 DEF Reverse
<1>6. \A i \in 1 .. n : u[(n - i) + 1] \in A
  <2>1. \A i \in 1 .. n : (n - i) + 1 \in 1 .. n
    OBVIOUS
  <2> QED BY <1>1, <2>1
<1>7. ru \in Seq(A) /\ Len(ru) = n
  BY <1>5, <1>6
<1>8. Reverse(w) = [i \in 1 .. (n + 1) |-> w[(n + 1 - i) + 1]]
  BY <1>3 DEF Reverse
<1>9. ASSUME NEW i \in 1 .. (n + 1) PROVE w[(n + 1 - i) + 1] = Append(ru, c)[i]
  <2>1. CASE i = n + 1
    <3>1. (n + 1 - i) + 1 = 1
      BY <2>1
    <3> QED BY <1>3, <1>7, <2>1, <3>1
  <2>2. CASE i # n + 1
    <3>1. i \in 1 .. n /\ (n - i) + 1 \in 1 .. n /\ (n + 1 - i) + 1 = ((n - i) + 1) + 1
      BY <2>2
    <3>2. w[(n + 1 - i) + 1] = u[(n - i) + 1]
      BY <1>3, <3>1
    <3>3. ru[i] = u[(n - i) + 1]
      BY <1>5, <3>1
    <3>4. Append(ru, c)[i] = ru[i]
      BY <1>7, <3>1
    <3> QED BY <3>2, <3>3, <3>4
  <2> QED BY <2>1, <2>2
<1>10. Append(ru, c) = [i \in 1 .. (n + 1) |-> Append(ru, c)[i]]
  <2>0. Append(ru, c) \in Seq(A)
    BY <1>7
  <2>1. PICK q \in Seq(A) : q = Append(ru, c)
    BY <2>0
  <2>2. Len(q) = n + 1
    BY <1>7, <2>1
  <2>3. q = [i \in 1 .. Len(q) |-> q[i]]
    OBVIOUS
  <2> QED BY <2>1, <2>2, <2>3
<1>11. Reverse(w) = Append(ru, c)
  BY <1>8, <1>9, <1>10
<1> QED BY <1>1, <1>2, <1>3, <1>4, <1>7, <1>11

LEMMA LastDigit ==
  /\ 10 \in Bases /\ \A d \in 0 .. 9 : d \in 0 .. (10 - 1)
  /\ \A a \in Nat : a % 10 \in 0 .. 9 /\ a \div 10 \in Nat /\ (a \div 10) * 10 + (a % 10) = a
<1>1. 10 \in Bases
  BY DEF Bases
<1>2. \A a \in Nat : a % 10 \in 0 .. 9 /\ a \div 10 \in Nat /\ (a \div 10) * 10 + (a % 10) = a
  OBVIOUS
<1> QED BY <1>1, <1>2
LEMMA DigitWritten ==
  ASSUME NEW a \in Nat, NEW u \in Seq(DecimalDigits), Magnitude(10, Reverse(u)) = a \div 10
  PROVE  Written(<<Numerals[(a % 10) + 1]>> \o u, a)
<1>1. PICK d \in 0 .. 9, c \in DecimalDigits : d = a % 10 /\ c = Numerals[d + 1]
  BY DEF DecimalDigits
<1>2. CharToDigit(10, c) # {} /\ DigitOf(10, c) = d
  BY <1>1, LastDigit, DigitIs
<1>3. PICK r \in Seq(DecimalDigits) : r = Reverse(u)
  BY <1>1, Backwards
<1>4. /\ <<c>> \o u \in Seq(DecimalDigits) /\ Len(<<c>> \o u) > 0
      /\ Reverse(<<c>> \o u) = Append(r, c)
  <2>1. Len(u) \in Nat
    OBVIOUS
  <2> QED BY <1>1, <1>3, <2>1, Backwards
<1>5. AllDigits(10, r, Len(r))
  <2>1. ASSUME NEW i \in 1 .. Len(r) PROVE CharToDigit(10, r[i]) # {}
    <3>1. r[i] \in DecimalDigits
      OBVIOUS
    <3>2. PICK b \in 0 .. 9 : r[i] = Numerals[b + 1]
      BY <3>1 DEF DecimalDigits
    <3> QED BY <3>2, LastDigit, DigitIs
  <2> QED BY <2>1 DEF AllDigits
<1>6. Magnitude(10, Append(r, c)) = (a \div 10) * 10 + d
  <2>1. 10 \in Bases
    BY DEF Bases
  <2>2. Magnitude(10, Append(r, c)) = Magnitude(10, r) * 10 + DigitOf(10, c)
    BY <1>1, <1>2, <1>5, <2>1, MagnitudeEnds
  <2> QED BY <1>2, <1>3, <2>2
<1>7. (a \div 10) * 10 + d = a
  BY <1>1, LastDigit
<1>8. Written(<<c>> \o u, a)
  BY <1>4, <1>6, <1>7 DEF Written
<1> QED BY <1>1, <1>8

\* The digits that are left, when there are none, and when there are.
Writes(f, n) ==
  \A res \in 0 .. n :
    f[res] = <<Numerals[(res % 10) + 1]>> \o IF res \div 10 = 0 THEN <<>> ELSE f[res \div 10]
\* A number is written to the last digit: the recursion of IntToString.
LEMMA WritingEnds ==
  ASSUME NEW n \in Nat
  PROVE  \E f \in [0 .. n -> Seq(DecimalDigits)] : Writes(f, n) /\ \A a \in 0 .. n : Written(f[a], a)
<1> DEFINE Good(f, k) == Writes(f, k) /\ \A a \in 0 .. k : Written(f[a], a)
           T == {k \in Nat : \E f \in [0 .. k -> Seq(DecimalDigits)] : Good(f, k)}
<1>e. Magnitude(10, Reverse(<<>>)) = 0 /\ <<>> \in Seq(DecimalDigits)
  <2>1. Reverse(<<>>) = <<>>
    BY DEF Reverse
  <2> QED BY <2>1, MagnitudeEmpty DEF Bases
<1>1. 0 \in T
  <2>1. PICK u : u = <<Numerals[(0 % 10) + 1]>> \o <<>>
    OBVIOUS
  <2>2. 0 \div 10 = 0
    OBVIOUS
  <2>3. Written(u, 0)
    BY <1>e, <2>1, <2>2, DigitWritten
  <2>4. PICK f \in [0 .. 0 -> Seq(DecimalDigits)] : f = [a \in 0 .. 0 |-> u]
    BY <2>3 DEF Written
  <2>5. 0 .. 0 = {0} /\ f[0] = u
    BY <2>4
  <2>6. Writes(f, 0)
    BY <2>1, <2>2, <2>5 DEF Writes
  <2> QED BY <2>3, <2>5, <2>6
<1>2. ASSUME NEW k \in Nat, k \in T PROVE k + 1 \in T
  <2>1. PICK f \in [0 .. k -> Seq(DecimalDigits)] : Good(f, k)
    BY <1>2
  <2>2. (k + 1) \div 10 \in 0 .. k
    OBVIOUS
  <2>3. PICK w : w = IF (k + 1) \div 10 = 0 THEN <<>> ELSE f[(k + 1) \div 10]
    OBVIOUS
  <2>4. w \in Seq(DecimalDigits) /\ Magnitude(10, Reverse(w)) = (k + 1) \div 10
    <3>1. CASE (k + 1) \div 10 = 0
      BY <1>e, <2>3, <3>1
    <3>2. CASE (k + 1) \div 10 # 0
      <4>1. w = f[(k + 1) \div 10]
        BY <2>3, <3>2
      <4>2. Written(w, (k + 1) \div 10)
        BY <2>1, <2>2, <4>1
      <4> QED BY <4>2 DEF Written
    <3> QED BY <3>1, <3>2
  <2>5. PICK u : u = <<Numerals[((k + 1) % 10) + 1]>> \o w
    OBVIOUS
  <2>6. Written(u, k + 1)
    BY <2>4, <2>5, DigitWritten
  <2>7. PICK h : h = [a \in 0 .. (k + 1) |-> IF a = k + 1 THEN u ELSE f[a]]
    OBVIOUS
  <2>8. h \in [0 .. (k + 1) -> Seq(DecimalDigits)]
    <3>1. u \in Seq(DecimalDigits)
      BY <2>6 DEF Written
    <3>2. \A a \in 0 .. (k + 1) : a # k + 1 => a \in 0 .. k
      OBVIOUS
    <3> HIDE DEF Good
    <3> QED BY <2>1, <2>7, <3>1, <3>2
  <2>9. h[k + 1] = u /\ \A a \in 0 .. k : h[a] = f[a]
    BY <2>7
  <2>10. \A a \in 0 .. (k + 1) : a = k + 1 \/ a \in 0 .. k
    OBVIOUS
  <2>11. Writes(h, k + 1)
    <3>1. h[k + 1] = <<Numerals[((k + 1) % 10) + 1]>>
                       \o IF (k + 1) \div 10 = 0 THEN <<>> ELSE h[(k + 1) \div 10]
      BY <2>2, <2>3, <2>5, <2>9
    <3>2. ASSUME NEW a \in 0 .. k
          PROVE  h[a] = <<Numerals[(a % 10) + 1]>> \o IF a \div 10 = 0 THEN <<>> ELSE h[a \div 10]
      <4>1. a \div 10 \in 0 .. k
        OBVIOUS
      <4>2. f[a] = <<Numerals[(a % 10) + 1]>> \o IF a \div 10 = 0 THEN <<>> ELSE f[a \div 10]
        BY <2>1 DEF Writes
      <4> QED BY <2>9, <4>1, <4>2
    <3> QED BY <2>10, <3>1, <3>2 DEF Writes
  <2>12. \A a \in 0 .. (k + 1) : Written(h[a], a)
    BY <2>1, <2>6, <2>9, <2>10
  <2>13. Good(h, k + 1) /\ k + 1 \in Nat
    BY <2>11, <2>12
  <2> HIDE DEF Good
  <2> QED BY <2>8, <2>13
<1> HIDE DEF T
<1>3. n \in T
  BY <1>1, <1>2, SetInduction
<1> QED BY <1>3 DEF T

\* What IntToString writes.
LEMMA WrittenIs ==
  ASSUME NEW t \in Types, NEW v \in Int, InType(t, v), NEW a \in Nat, a = IF v < 0 THEN -v ELSE v
  PROVE  \E u : /\ Written(u, a)
                /\ IntToString(t, v) = (IF v < 0 THEN <<"-">> ELSE <<>>) \o Reverse(u)
<1>1. IsNegative(t, v) <=> v < 0
  BY TypeFacts DEF IsNegative, InType, Lowest
<1>2. Cast(MakeUnsigned(t), a) = a
  <2>1. /\ MakeUnsigned(t) \in Types /\ MakeUnsigned(t).half = t.half /\ ~MakeUnsigned(t).signed
    BY UnsignedFacts
  <2>2. t.half \in Nat \ {0}
    BY TypeFacts
  <2>3. -t.half <= v /\ v <= 2 * t.half - 1
    BY <2>2 DEF InType, Lowest, MaxOf
  <2>4. InType(MakeUnsigned(t), a)
    BY <2>1, <2>2, <2>3 DEF InType, Lowest, MaxOf
  <2> QED BY <2>1, <2>4, CastNear
<1>3. PICK abs \in Nat : abs = a
  OBVIOUS
<1>4. PICK f \in [0 .. abs -> Seq(DecimalDigits)] : Writes(f, abs) /\ \A k \in 0 .. abs : Written(f[k], k)
  BY WritingEnds
<1>5. f = [res \in 0 .. abs |->
             <<Numerals[(res % 10) + 1]>> \o IF res \div 10 = 0 THEN <<>> ELSE f[res \div 10]]
  <2>1. f = [res \in 0 .. abs |-> f[res]]
    BY <1>4
  <2>2. \A res \in 0 .. abs :
          f[res] = <<Numerals[(res % 10) + 1]>> \o IF res \div 10 = 0 THEN <<>> ELSE f[res \div 10]
    BY <1>4 DEF Writes
  <2> QED BY <2>1, <2>2, Zenon
<1>6. PICK h : h = CHOOSE z : z = [res \in 0 .. abs |->
             <<Numerals[(res % 10) + 1]>> \o IF res \div 10 = 0 THEN <<>> ELSE z[res \div 10]]
  OBVIOUS
<1>7. h = [res \in 0 .. abs |->
             <<Numerals[(res % 10) + 1]>> \o IF res \div 10 = 0 THEN <<>> ELSE h[res \div 10]]
  BY <1>5, <1>6, Zenon
<1>8. IntToString(t, v) = (IF v < 0 THEN <<"-">> ELSE <<>>) \o Reverse(h[abs])
  BY <1>1, <1>2, <1>3, <1>6, Zenon DEF IntToString
<1>9. \A res \in 0 .. abs : h[res] = f[res]
  <2> DEFINE T == {k \in Nat : \A res \in 0 .. abs : res <= k => h[res] = f[res]}
  <2>0. ASSUME NEW res \in 0 .. abs, res \div 10 # 0 => h[res \div 10] = f[res \div 10]
        PROVE  h[res] = f[res]
    <3>1. h[res] = <<Numerals[(res % 10) + 1]>> \o IF res \div 10 = 0 THEN <<>> ELSE h[res \div 10]
      BY <1>7, Zenon
    <3>2. f[res] = <<Numerals[(res % 10) + 1]>> \o IF res \div 10 = 0 THEN <<>> ELSE f[res \div 10]
      BY <1>4 DEF Writes
    <3>3. CASE res \div 10 = 0
      BY <3>1, <3>2, <3>3, Zenon
    <3>4. CASE res \div 10 # 0
      BY <2>0, <3>1, <3>2, <3>4, Zenon
    <3> QED BY <3>3, <3>4
  <2>1. 0 \in T
    <3>1. 0 \div 10 = 0
      OBVIOUS
    <3>2. ASSUME NEW res \in 0 .. abs, res <= 0 PROVE h[res] = f[res]
      <4>1. res = 0
        BY <3>2
      <4> QED BY <2>0, <3>1, <4>1
    <3> QED BY <3>2
  <2>2. ASSUME NEW k \in Nat, k \in T PROVE k + 1 \in T
    <3>1. ASSUME NEW res \in 0 .. abs, res <= k + 1, res \div 10 # 0 PROVE h[res \div 10] = f[res \div 10]
      <4>1. res \div 10 \in 0 .. abs /\ res \div 10 <= k
        BY <3>1
      <4> QED BY <2>2, <4>1
    <3>2. ASSUME NEW res \in 0 .. abs, res <= k + 1 PROVE h[res] = f[res]
      BY <2>0, <3>1, <3>2
    <3> QED BY <3>2
  <2> HIDE DEF T
  <2>3. abs \in T
    BY <2>1, <2>2, SetInduction
  <2> QED BY <2>3 DEF T
<1>10. abs \in 0 .. abs
  OBVIOUS
<1> QED BY <1>3, <1>4, <1>8, <1>9, <1>10

\* What is written of the number v, behind its sign.
NumeralOf(s, v, w, p) ==
  /\ w \in Seq(DecimalDigits) /\ Len(w) > 0 /\ Magnitude(10, w) = IF v < 0 THEN -v ELSE v
  /\ s \in Seq(DecimalDigits \cup {"-"}) /\ p = (IF v < 0 THEN 1 ELSE 0) /\ Len(s) = p + Len(w)
  /\ v < 0 => s[1] = "-"
  /\ \A i \in 1 .. Len(w) : s[p + i] = w[i]
LEMMA NumeralIs ==
  ASSUME NEW t \in Types, NEW v \in Int, InType(t, v), NEW s, s = IntToString(t, v)
  PROVE  \E w, p : NumeralOf(s, v, w, p)
<1>1. PICK a \in Nat : a = IF v < 0 THEN -v ELSE v
  OBVIOUS
<1>2. PICK u : Written(u, a) /\ s = (IF v < 0 THEN <<"-">> ELSE <<>>) \o Reverse(u)
  BY <1>1, WrittenIs
<1>3. u \in Seq(DecimalDigits) /\ Len(u) > 0 /\ Magnitude(10, Reverse(u)) = a
  BY <1>2 DEF Written
<1>4. PICK d \in DecimalDigits : TRUE
  BY DEF DecimalDigits
<1>5. PICK w \in Seq(DecimalDigits) : w = Reverse(u) /\ Len(w) = Len(u)
  BY <1>3, <1>4, Backwards
<1>6. PICK h, A : h = (IF v < 0 THEN <<"-">> ELSE <<>>) /\ A = DecimalDigits \cup {"-"}
  OBVIOUS
<1>7. PICK p \in 0 .. 1 : p = IF v < 0 THEN 1 ELSE 0
  OBVIOUS
<1>8. h \in Seq(A) /\ Len(h) = p /\ (v < 0 => h[1] = "-")
  <2>1. CASE v < 0
    BY <1>6, <1>7, <2>1
  <2>2. CASE ~(v < 0)
    BY <1>6, <1>7, <2>2
  <2> QED BY <2>1, <2>2
<1>9. w \in Seq(A) /\ s = h \o w /\ Len(w) \in Nat /\ Len(w) > 0 /\ Magnitude(10, w) = a
  BY <1>2, <1>3, <1>5, <1>6
<1>10. s \in Seq(A) /\ Len(s) = p + Len(w) /\ \A i \in 1 .. Len(w) : s[p + i] = w[i]
  <2>1. s \in Seq(A) /\ Len(s) = p + Len(w)
    BY <1>8, <1>9
  <2>2. ASSUME NEW i \in 1 .. Len(w) PROVE s[p + i] = w[i]
    <3>1. p + i \in 1 .. Len(s) /\ p + i > Len(h) /\ p + i - Len(h) = i
      BY <1>8, <1>9, <2>1
    <3> QED BY <1>8, <1>9, <3>1
  <2> QED BY <2>1, <2>2
<1>11. v < 0 => s[1] = "-"
  <2>1. v < 0 => 1 \in 1 .. Len(h)
    BY <1>7, <1>8
  <2>2. v < 0 => s[1] = h[1]
    BY <1>8, <1>9, <2>1
  <2> QED BY <1>8, <2>2
<1> QED BY ZenonT(30), <1>1, <1>6, <1>7, <1>9, <1>10, <1>11 DEF NumeralOf

\* A digit is no blank and no sign.
LEMMA DecimalIs ==
  ASSUME NEW c \in DecimalDigits
  PROVE  CharToDigit(10, c) # {} /\ c # Space /\ c # "+" /\ c # "-"
<1>1. PICK d \in 0 .. 9 : c = Numerals[d + 1]
  BY DEF DecimalDigits
<1>2. d \in 0 .. 15 /\ d \in 0 .. (10 - 1) /\ 10 \in Bases
  BY LastDigit
<1>3. c \notin {Space, "+", "-"}
  BY <1>1, <1>2, NumeralsDiffer
<1> QED BY <1>1, <1>2, <1>3, DigitIs

\* What IntToString writes of a number of its type is read back, and has no "+".
THEOREM IntegersReadBack ==
  ASSUME NEW t \in Types, NEW v \in Int, InType(t, v)
  PROVE  ReadsBack(t, v) /\ IntToString(t, v)[1] # "+" /\ IntToString(t, v) # <<>>
<1>1. PICK s, w, p : s = IntToString(t, v) /\ NumeralOf(s, v, w, p)
  BY NumeralIs
<1>2. PICK l \in Nat, a \in Nat : l = Len(w) /\ a = IF v < 0 THEN -v ELSE v
  <2>1. Len(w) \in Nat
    BY <1>1 DEF NumeralOf
  <2>2. (IF v < 0 THEN -v ELSE v) \in Nat
    OBVIOUS
  <2> QED BY <2>1, <2>2
<1>A. PICK A : A = DecimalDigits \cup {"-"}
  OBVIOUS
<1>3. /\ w \in Seq(DecimalDigits) /\ l > 0 /\ Magnitude(10, w) = a
      /\ s \in Seq(A) /\ p = (IF v < 0 THEN 1 ELSE 0) /\ p \in 0 .. 1 /\ Len(s) = p + l
      /\ v < 0 => s[1] = "-"
      /\ \A i \in 1 .. l : s[p + i] = w[i]
  BY <1>1, <1>2, <1>A DEF NumeralOf
<1>4. \A i \in 1 .. l : w[i] \in DecimalDigits
  BY <1>2, <1>3
<1>5. \A i \in (p + 1) .. (p + l) : s[i] \in DecimalDigits
  <2>1. ASSUME NEW i \in (p + 1) .. (p + l) PROVE s[i] \in DecimalDigits
    <3>1. i - p \in 1 .. l /\ p + (i - p) = i
      BY <1>3
    <3> QED BY <1>3, <1>4, <3>1
  <2> QED BY <2>1
<1>6. (~(v < 0) => s[1] \in DecimalDigits) /\ s[1] # Space /\ s[1] # "+" /\ (s[1] = "-" <=> v < 0)
  <2>1. CASE v < 0
    BY <1>3, <2>1, Zenon DEF Space
  <2>2. CASE ~(v < 0)
    <3>1. 1 \in (p + 1) .. (p + l)
      BY <1>3, <2>2
    <3> QED BY <1>5, <2>2, <3>1, DecimalIs
  <2> QED BY <2>1, <2>2
<1>7. PICK sign, digits, first, end, r, result :
        /\ sign = SignOf(s) /\ digits = DigitsOf(s, sign) /\ first = Beginning(10, s, digits)
        /\ end = Ending(10, s, first) /\ r = Reading(10, s) /\ result = StringToNumber(t, 10, s)
  OBVIOUS
<1>8. sign = 1
  <2>1. PICK S : S = {i \in 1 .. (p + l + 1) : i > p + l \/ s[i] # Space}
    OBVIOUS
  <2>2. sign = Min(S)
    BY <1>3, <1>7, <2>1 DEF SignOf
  <2>3. 1 \in Nat /\ p + l + 1 \in Nat /\ 1 \in S /\ p + l + 1 \in S /\ S \in SUBSET (1 .. (p + l + 1))
    <3>1. 1 \in 1 .. (p + l + 1) /\ p + l + 1 \in 1 .. (p + l + 1) /\ p + l + 1 > p + l /\ p + l + 1 \in Nat
      BY <1>3
    <3> QED BY <1>6, <2>1, <3>1
  <2>4. Min(S) \in 1 .. (p + l + 1) /\ \A i \in 1 .. (Min(S) - 1) : i \notin S
    BY <2>3, FirstOf
  <2>5. sign \in 1 .. (p + l + 1) /\ 1 \notin 1 .. (sign - 1)
    BY <2>2, <2>3, <2>4
  <2> QED BY <2>5
<1>9. digits = p + 1
  <2>1. sign <= Len(s)
    BY <1>3, <1>8
  <2>2. s[sign] \in {"-", "+"} <=> v < 0
    BY <1>6, <1>8
  <2> QED BY <1>3, <1>7, <1>8, <2>1, <2>2 DEF DigitsOf
<1>10. first = p + 1 /\ first \in 1 .. (Len(s) + 1)
  <2>1. first = digits
    BY <1>7 DEF Beginning
  <2> QED BY <1>3, <1>9, <2>1
<1>11. end = p + l + 1
  <2>1. EndsAt(10, s, first, end)
    BY <1>3, <1>7, <1>10, LastDigit, DigitsEnd
  <2>2. end \in (p + 1) .. (p + l + 1) /\ (end > p + l \/ CharToDigit(10, s[end]) = {})
    BY <1>3, <1>10, <2>1 DEF EndsAt
  <2>3. end \in (p + 1) .. (p + l) => CharToDigit(10, s[end]) # {}
    BY <1>5, DecimalIs
  <2>4. end \notin (p + 1) .. (p + l)
    BY <1>3, <2>2, <2>3
  <2> QED BY <1>3, <2>2, <2>4
<1>12. SubSeq(s, first, end - 1) = w
  <2>1. end - 1 = Len(s) /\ first = p + 1 /\ first \in 1 .. (Len(s) + 1)
    BY <1>3, <1>10, <1>11
  <2>2. PICK rest : rest = SubSeq(s, first, Len(s))
    OBVIOUS
  <2>3. rest \in Seq(A) /\ Len(rest) = Len(s) - first + 1
        /\ \A i \in 1 .. (Len(s) - first + 1) : rest[i] = s[first + i - 1]
    BY <1>3, <2>1, <2>2, Slices
  <2>4. Len(rest) = l /\ \A i \in 1 .. l : rest[i] = w[i]
    <3>1. Len(s) - first + 1 = l
      BY <1>3, <2>1
    <3>2. ASSUME NEW i \in 1 .. l PROVE rest[i] = w[i]
      <4>1. first + i - 1 = p + i
        BY <1>3, <2>1
      <4> QED BY <1>3, <2>3, <3>1, <4>1
    <3> QED BY <2>3, <3>1, <3>2
  <2>5. w = [i \in 1 .. l |-> w[i]] /\ rest = [i \in 1 .. l |-> rest[i]]
    BY <1>2, <1>3, <2>3, <2>4
  <2>6. rest = w
    BY <2>4, <2>5
  <2> QED BY <2>1, <2>2, <2>6
<1>13. (r.negative <=> v < 0) /\ r.magnitude = a /\ r.whole
  <2>1. ReadingFields(10, s, r, sign, digits, first, end)
    BY <1>7, ReadingIs
  <2>2. digits > sign <=> v < 0
    BY <1>3, <1>8, <1>9
  <2>3. r.negative <=> v < 0
    BY <1>6, <1>8, <2>1, <2>2 DEF ReadingFields
  <2>4. r.magnitude = a
    BY <1>3, <1>12, <2>1 DEF ReadingFields
  <2>5. end > first /\ end = Len(s) + 1
    BY <1>3, <1>10, <1>11
  <2> QED BY <1>8, <2>1, <2>3, <2>4, <2>5 DEF ReadingFields
<1>14. result \in NumberResult /\ ReadsExactly(t, result, r)
  BY <1>3, <1>7, LastDigit, ParseReads
<1>15. (IF r.negative THEN -r.magnitude ELSE r.magnitude) = v
  BY <1>2, <1>13
<1>16. ~(r.negative /\ ~t.signed)
  BY <1>13, TypeFacts DEF InType, Lowest
<1>17. Max({Lowest(t), Min({MaxOf(t), v})}) = v
  <2>1. PICK negative \in BOOLEAN : negative <=> v < 0
    OBVIOUS
  <2>2. Signed(negative, a) = v
    BY <1>2, <2>1 DEF Signed
  <2>3. negative => t.signed
    BY <1>13, <1>16, <2>1
  <2>4. Max({Lowest(t), Min({MaxOf(t), v})}) = Clamped(t, negative, a)
    BY <2>2, <2>3, ClampIs
  <2>5. a <= Limit(t, negative)
    BY <2>2, <2>3, LimitFacts
  <2> QED BY <2>2, <2>4, <2>5 DEF Clamped
<1>18. result.value = v /\ result.valid
  BY <1>13, <1>14, <1>15, <1>16, <1>17 DEF ReadsExactly
<1>19. result = [value |-> v, valid |-> TRUE]
  BY <1>14, <1>18 DEF NumberResult
<1>20. s # <<>>
  BY <1>3
<1> QED BY <1>1, <1>6, <1>7, <1>19, <1>20 DEF ReadsBack


-----------------------------------------------------------------------------
(* StringNumber: versions                                                  *)

\* The numbers of a version, and what is a string of characters.
ComponentSet == {c \in Nat : InType(Uint32, c)}
IsText(s) == s \in Seq(Range(s))
AllText(pieces) == \A k \in DOMAIN pieces : IsText(pieces[k])
NumbersType == [parsed : Seq(ComponentSet), success : BOOLEAN]
NoNumbers(pieces) == [parsed |-> <<>>, success |-> pieces # <<>>]
\* A round of the loop of ParseVersionNumbers, and what a piece must be in it.
Round(acc, pieces, k) == AppendNumber(acc, k, pieces[k], StringToNumber(Uint32, 10, pieces[k]))
Accepts(pieces, k) ==
  /\ StringToNumber(Uint32, 10, pieces[k]).valid /\ pieces[k][1] # "+"
  /\ k = 1 => IsCanonical(StringToNumber(Uint32, 10, pieces[k]).value, pieces[k])
NumberOf(pieces, k) == StringToNumber(Uint32, 10, pieces[k]).value

LEMMA TextIs ==
  ASSUME NEW A, NEW s \in Seq(A)
  PROVE  IsText(s)
<1>1. \A i \in 1 .. Len(s) : s[i] \in Range(s)
  BY DEF Range
<1>2. s = [i \in 1 .. Len(s) |-> s[i]] /\ Len(s) \in Nat
  OBVIOUS
<1> QED BY <1>1, <1>2 DEF IsText
LEMMA PieceIs ==
  ASSUME NEW s, IsText(s)
  PROVE  /\ StringToNumber(Uint32, 10, s) \in NumberResult
         /\ StringToNumber(Uint32, 10, s).valid => StringToNumber(Uint32, 10, s).value \in ComponentSet
<1>1. Uint32 \in Types /\ ~Uint32.signed
  BY DEF Uint32, Types
<1>2. StringToNumber(Uint32, 10, s) \in NumberResult
      /\ (StringToNumber(Uint32, 10, s).valid => InType(Uint32, StringToNumber(Uint32, 10, s).value))
  BY <1>1, LastDigit, ParseReads DEF IsText
<1>3. Lowest(Uint32) = 0
  BY <1>1 DEF Lowest
<1>4. ASSUME StringToNumber(Uint32, 10, s).valid PROVE StringToNumber(Uint32, 10, s).value \in ComponentSet
  <2>1. StringToNumber(Uint32, 10, s).value \in Int /\ InType(Uint32, StringToNumber(Uint32, 10, s).value)
    BY <1>2, <1>4 DEF NumberResult
  <2>2. 0 <= StringToNumber(Uint32, 10, s).value
    BY <1>3, <2>1 DEF InType
  <2> QED BY <2>1, <2>2 DEF ComponentSet
<1> QED BY <1>2, <1>4

\* A round accepts the piece and appends its number, or fails.
LEMMA RoundIs ==
  ASSUME NEW acc \in NumbersType, NEW pieces, NEW k \in DOMAIN pieces, AllText(pieces)
  PROVE  /\ Round(acc, pieces, k) \in NumbersType
         /\ acc.success /\ Accepts(pieces, k) =>
              /\ Round(acc, pieces, k).success /\ NumberOf(pieces, k) \in ComponentSet
              /\ Round(acc, pieces, k).parsed = Append(acc.parsed, NumberOf(pieces, k))
         /\ ~(acc.success /\ Accepts(pieces, k)) => ~Round(acc, pieces, k).success
<1>1. PICK n : n = StringToNumber(Uint32, 10, pieces[k])
  OBVIOUS
<1>2. n.valid => n.value \in ComponentSet
  BY <1>1, PieceIs DEF AllText
<1>3. CASE acc.success /\ Accepts(pieces, k)
  <2>1. n.value \in ComponentSet
    BY <1>1, <1>2, <1>3 DEF Accepts
  <2>2. Round(acc, pieces, k) = [acc EXCEPT !.parsed = Append(@, n.value)]
    BY <1>1, <1>3 DEF Round, AppendNumber, Accepts
  <2>3. Append(acc.parsed, n.value) \in Seq(ComponentSet)
    BY <2>1 DEF NumbersType
  <2>4. Round(acc, pieces, k) \in NumbersType /\ Round(acc, pieces, k).success
        /\ Round(acc, pieces, k).parsed = Append(acc.parsed, n.value)
    BY <1>3, <2>2, <2>3 DEF NumbersType
  <2> QED BY <1>1, <1>3, <2>1, <2>4 DEF NumberOf
<1>4. CASE ~(acc.success /\ Accepts(pieces, k))
  <2>1. Round(acc, pieces, k) = [acc EXCEPT !.success = FALSE]
    BY <1>1, <1>4 DEF Round, AppendNumber, Accepts
  <2>2. Round(acc, pieces, k) \in NumbersType /\ ~Round(acc, pieces, k).success
    BY <2>1 DEF NumbersType
  <2> QED BY <1>4, <2>2
<1> QED BY <1>3, <1>4

\* g has the numbers after each piece.
VersionRun(g, pieces) ==
  /\ g[0] = NoNumbers(pieces)
  /\ \A k \in 1 .. Len(pieces) : g[k] = Round(g[k - 1], pieces, k)
\* The loop of ParseVersionNumbers, piece by piece.
LEMMA VersionFold ==
  ASSUME NEW P, NEW pieces \in Seq(P), AllText(pieces)
  PROVE  \E g \in [0 .. Len(pieces) -> NumbersType] : VersionRun(g, pieces) /\ g[Len(pieces)] = ParseVersionNumbers(pieces)
<1> DEFINE S == NumbersType
           seq == [k \in 1 .. Len(pieces) |-> k]
           n == Len(pieces)
           F == [p \in S \X (1 .. n) |-> Round(p[1], pieces, p[2])]
<1>0. n \in Nat /\ DOMAIN seq = 1 .. n
  OBVIOUS
<1>s. \A k \in 1 .. n : seq[k] = k
  OBVIOUS
<1>1. NoNumbers(pieces) \in S /\ \A x \in S, k \in 1 .. n : Round(x, pieces, k) \in S
  <2>1. NoNumbers(pieces) \in S
    <3>1. PICK b \in BOOLEAN : b = (pieces # <<>>)
      OBVIOUS
    <3>2. NoNumbers(pieces) = [parsed |-> <<>>, success |-> b]
      BY <3>1, Zenon DEF NoNumbers
    <3>3. <<>> \in Seq(ComponentSet)
      OBVIOUS
    <3> QED BY <3>2, <3>3 DEF NumbersType
  <2>2. ASSUME NEW x \in S, NEW k \in 1 .. n PROVE Round(x, pieces, k) \in S
    BY RoundIs
  <2> QED BY <2>1, <2>2
<1>2. F \in [S \X (1 .. n) -> S] /\ \A x \in S, k \in 1 .. n : F[<<x, k>>] = Round(x, pieces, k)
  <2> HIDE DEF S, n
  <2> QED BY <1>1
<1>3. PICK f \in [SUBSET (1 .. n) -> S] : Solves(f, n, NoNumbers(pieces), F)
  <2> HIDE DEF S, F, seq, n
  <2> QED BY <1>0, <1>1, <1>2, FoldSolution
<1>4. f = [s2 \in SUBSET DOMAIN seq |->
             IF s2 = {} THEN NoNumbers(pieces) ELSE Round(f[s2 \ {Max(s2)}], pieces, seq[Max(s2)])]
  <2>1. ASSUME NEW s2 \in SUBSET (1 .. n), s2 # {}
        PROVE  f[s2] = Round(f[s2 \ {Max(s2)}], pieces, seq[Max(s2)])
    <3>1. Max(s2) \in 1 .. n /\ f[s2 \ {Max(s2)}] \in S /\ f[s2] = F[<<f[s2 \ {Max(s2)}], Max(s2)>>]
      <4> HIDE DEF S, F, seq, n
      <4> QED BY <1>3, <2>1 DEF Solves
    <3>2. f[s2] = Round(f[s2 \ {Max(s2)}], pieces, Max(s2))
      <4> HIDE DEF S, F, seq, n
      <4> QED BY <1>2, <3>1
    <3>3. seq[Max(s2)] = Max(s2)
      <4> HIDE DEF S, F, seq, n
      <4> QED BY <1>s, <3>1
    <3> HIDE DEF S, F, seq, n
    <3> QED BY <3>2, <3>3
  <2>2. f[{}] = NoNumbers(pieces)
    <3> HIDE DEF S, F, seq, n
    <3> QED BY <1>3 DEF Solves
  <2> HIDE DEF S, F, seq, n
  <2> QED BY <1>0, <1>3, <2>1, <2>2
<1>5. PICK h : /\ ParseVersionNumbers(pieces) = h[1 .. n]
               /\ h = [s2 \in SUBSET (1 .. n) |->
                        IF s2 = {} THEN NoNumbers(pieces) ELSE Round(h[s2 \ {Max(s2)}], pieces, seq[Max(s2)])]
  <2>1. PICK h : h = CHOOSE z : z = [s2 \in SUBSET DOMAIN seq |->
             IF s2 = {} THEN NoNumbers(pieces) ELSE Round(z[s2 \ {Max(s2)}], pieces, seq[Max(s2)])]
    OBVIOUS
  <2>2. h = [s2 \in SUBSET DOMAIN seq |->
             IF s2 = {} THEN NoNumbers(pieces) ELSE Round(h[s2 \ {Max(s2)}], pieces, seq[Max(s2)])]
    <3> HIDE DEF seq, n
    <3> QED BY <1>4, <2>1
  <2>3. ParseVersionNumbers(pieces) = h[DOMAIN seq]
    BY <2>1 DEF ParseVersionNumbers, NoNumbers, Round, FoldLeft, MapThenFoldSet
  <2> HIDE DEF seq, n
  <2> QED BY <1>0, <2>2, <2>3
<1> HIDE DEF seq, F, S, n
<1>6. h[{}] = NoNumbers(pieces) /\ {} = 1 .. 0
  <2>1. {} \in SUBSET (1 .. n) /\ {} = 1 .. 0
    BY <1>0, UpTo
  <2> QED BY <1>5, <2>1
<1>7. ASSUME NEW k \in 1 .. n PROVE h[1 .. k] = Round(h[1 .. (k - 1)], pieces, k)
  <2>1. 1 .. k \in SUBSET (1 .. n) /\ 1 .. k # {} /\ (1 .. k) \ {k} = 1 .. (k - 1) /\ Max(1 .. k) = k
    BY <1>0, UpTo
  <2>3. seq[k] = k
    BY <1>s
  <2>4. h[1 .. k] = Round(h[1 .. (k - 1)], pieces, seq[k])
    BY <1>5, <2>1
  <2> QED BY <2>3, <2>4
<1> DEFINE g == [k \in 0 .. n |-> h[1 .. k]]
<1>8. g[0] = NoNumbers(pieces) /\ g[n] = ParseVersionNumbers(pieces)
  <2>1. 0 \in 0 .. n /\ n \in 0 .. n
    BY <1>0, UpTo
  <2> QED BY <1>5, <1>6, <2>1
<1>9. ASSUME NEW k \in 1 .. n PROVE k - 1 \in 0 .. n /\ g[k] = Round(g[k - 1], pieces, k)
  <2>1. k \in 0 .. n /\ k - 1 \in 0 .. n
    BY <1>0
  <2> QED BY <1>7, <2>1
<1>t. DOMAIN g = 0 .. n /\ g = [k \in 0 .. n |-> g[k]]
  OBVIOUS
<1> HIDE DEF g
<1>10. \A k \in 0 .. n : g[k] \in S
  <2> DEFINE T == {k \in Nat : k <= n => g[k] \in S}
  <2>1. 0 \in T
    BY <1>1, <1>8
  <2>2. ASSUME NEW k \in Nat, k \in T PROVE k + 1 \in T
    <3>1. CASE k + 1 <= n
      <4>1. k + 1 \in 1 .. n /\ (k + 1) - 1 = k /\ k <= n /\ k + 1 \in Nat
        BY <1>0, <3>1
      <4>2. g[k] \in S
        BY <2>2, <4>1
      <4>3. g[k + 1] = Round(g[(k + 1) - 1], pieces, (k + 1))
        BY <1>9, <4>1
      <4>4. g[k + 1] = Round(g[k], pieces, (k + 1))
        BY <4>1, <4>3
      <4>5. g[k + 1] \in S
        BY <1>1, <4>1, <4>2, <4>4
      <4> QED BY <4>1, <4>5
    <3>2. CASE ~(k + 1 <= n)
      BY <3>2
    <3> QED BY <3>1, <3>2
  <2> HIDE DEF T
  <2>3. \A k \in Nat : k \in T
    BY <2>1, <2>2, SetInduction
  <2> QED BY <1>0, <2>3 DEF T
<1>11. g \in [0 .. n -> S]
  BY <1>t, <1>10
<1>12. VersionRun(g, pieces)
  <2> USE DEF n
  <2> QED BY <1>8, <1>9 DEF VersionRun
<1> QED BY <1>8, <1>11, <1>12 DEF n, S

\* The pieces before k make numbers, or the parse has failed.
NumbersSoFar(r, pieces, k) ==
  /\ r.success => /\ Len(r.parsed) = k
                  /\ \A j \in 1 .. k : Accepts(pieces, j) /\ r.parsed[j] = NumberOf(pieces, j)
  /\ pieces # <<>> /\ (\A j \in 1 .. k : Accepts(pieces, j)) => r.success
\* What ParseVersionNumbers returns.
Numbered(pieces, r) ==
  /\ r \in NumbersType
  /\ r.success => /\ pieces # <<>> /\ Len(r.parsed) = Len(pieces)
                  /\ \A j \in 1 .. Len(pieces) : Accepts(pieces, j) /\ r.parsed[j] = NumberOf(pieces, j)
  /\ pieces # <<>> /\ (\A j \in 1 .. Len(pieces) : Accepts(pieces, j)) => r.success
LEMMA NumbersAre ==
  ASSUME NEW P, NEW pieces \in Seq(P), AllText(pieces), NEW r, r = ParseVersionNumbers(pieces)
  PROVE  Numbered(pieces, r)
<1>1. PICK n \in Nat : n = Len(pieces)
  OBVIOUS
<1>2. PICK g \in [0 .. n -> NumbersType] : VersionRun(g, pieces) /\ g[n] = r
  BY <1>1, VersionFold
<1>3. g[0] = NoNumbers(pieces) /\ \A k \in 1 .. n : g[k] = Round(g[k - 1], pieces, k)
  BY <1>1, <1>2 DEF VersionRun
<1>4. g[0].parsed = <<>> /\ (g[0].success <=> pieces # <<>>)
  <2>1. PICK b \in BOOLEAN : b = (pieces # <<>>)
    OBVIOUS
  <2>2. g[0] = [parsed |-> <<>>, success |-> b]
    BY <1>3, <2>1, Zenon DEF NoNumbers
  <2> QED BY <2>1, <2>2
<1>5. \A k \in 0 .. n : NumbersSoFar(g[k], pieces, k) /\ (g[k].success => pieces # <<>>)
  <2> DEFINE T == {k \in Nat : k <= n => NumbersSoFar(g[k], pieces, k) /\ (g[k].success => pieces # <<>>)}
  <2>1. 0 \in T
    <3>1. Len(<<>>) = 0 /\ \A j \in 1 .. 0 : FALSE
      OBVIOUS
    <3> QED BY <1>4, <3>1 DEF NumbersSoFar
  <2>2. ASSUME NEW k \in Nat, k \in T PROVE k + 1 \in T
    <3>1. SUFFICES ASSUME k + 1 <= n
                   PROVE  NumbersSoFar(g[k + 1], pieces, k + 1) /\ (g[k + 1].success => pieces # <<>>)
      OBVIOUS
    <3>2. k \in 0 .. n /\ k + 1 \in 1 .. n /\ (k + 1) - 1 = k /\ k + 1 \in DOMAIN pieces
      BY <1>1, <3>1
    <3>3. NumbersSoFar(g[k], pieces, k) /\ (g[k].success => pieces # <<>>)
      BY <2>2, <3>2
    <3>4. PICK acc \in NumbersType, b \in {g[k + 1]} : acc = g[k] /\ b = g[k + 1]
      BY <1>2, <3>2
    <3>5. b = Round(acc, pieces, k + 1)
      BY <1>3, <3>2, <3>4
    <3>6. \A j \in 1 .. (k + 1) : j = k + 1 \/ j \in 1 .. k
      OBVIOUS
    <3>7. CASE acc.success /\ Accepts(pieces, k + 1)
      <4>1. /\ b.success /\ NumberOf(pieces, k + 1) \in ComponentSet
            /\ b.parsed = Append(acc.parsed, NumberOf(pieces, k + 1))
        BY <3>2, <3>5, <3>7, RoundIs
      <4>2. /\ Len(acc.parsed) = k /\ acc.parsed \in Seq(ComponentSet)
            /\ \A j \in 1 .. k : Accepts(pieces, j) /\ acc.parsed[j] = NumberOf(pieces, j)
        BY <3>3, <3>4, <3>7 DEF NumbersSoFar, NumbersType
      <4>3. Len(b.parsed) = k + 1 /\ b.parsed[k + 1] = NumberOf(pieces, k + 1)
            /\ \A j \in 1 .. k : b.parsed[j] = acc.parsed[j]
        BY <4>1, <4>2
      <4>4. \A j \in 1 .. (k + 1) : Accepts(pieces, j) /\ b.parsed[j] = NumberOf(pieces, j)
        BY <3>6, <3>7, <4>2, <4>3
      <4> QED BY <3>3, <3>4, <3>7, <4>1, <4>3, <4>4 DEF NumbersSoFar
    <3>8. CASE ~(acc.success /\ Accepts(pieces, k + 1))
      <4>1. ~b.success
        BY <3>2, <3>5, <3>8, RoundIs
      <4>2. ~(pieces # <<>> /\ \A j \in 1 .. (k + 1) : Accepts(pieces, j))
        <5>1. k + 1 \in 1 .. (k + 1) /\ \A j \in 1 .. k : j \in 1 .. (k + 1)
          OBVIOUS
        <5> QED BY <3>3, <3>4, <3>8, <5>1 DEF NumbersSoFar
      <4> QED BY <3>4, <4>1, <4>2 DEF NumbersSoFar
    <3> QED BY <3>7, <3>8
  <2> HIDE DEF T
  <2>3. \A k \in Nat : k \in T
    BY <2>1, <2>2, SetInduction
  <2> QED BY <2>3 DEF T
<1>6. NumbersSoFar(r, pieces, n) /\ (r.success => pieces # <<>>) /\ r \in NumbersType
  <2>1. n \in 0 .. n
    OBVIOUS
  <2> QED BY <1>2, <1>5, <2>1
<1> QED BY <1>1, <1>6 DEF NumbersSoFar, Numbered

\* The components of a version: none, or as many as the string has pieces.
LEMMA VersionIs ==
  ASSUME NEW P, NEW pieces \in Seq(P), AllText(pieces)
  PROVE  /\ VersionOf(pieces) \in Seq(ComponentSet) /\ ParseVersionNumbers(pieces).parsed \in Seq(ComponentSet)
         /\ VersionOf(pieces) # <<>> =>
              /\ VersionOf(pieces) = ParseVersionNumbers(pieces).parsed
              /\ Len(VersionOf(pieces)) = Len(pieces) /\ pieces # <<>>
              /\ \A j \in 1 .. Len(pieces) : Accepts(pieces, j) /\ VersionOf(pieces)[j] = NumberOf(pieces, j)
<1>1. PICK r, c : r = ParseVersionNumbers(pieces) /\ c = VersionOf(pieces)
  OBVIOUS
<1>2. Numbered(pieces, r)
  BY <1>1, NumbersAre
<1>3. c = IF r.success THEN r.parsed ELSE <<>>
  BY <1>1 DEF VersionOf
<1>4. r.parsed \in Seq(ComponentSet) /\ <<>> \in Seq(ComponentSet)
  BY <1>2 DEF Numbered, NumbersType
<1>5. CASE r.success
  BY <1>1, <1>2, <1>3, <1>4, <1>5 DEF Numbered
<1>6. CASE ~r.success
  BY <1>1, <1>3, <1>4, <1>6
<1> QED BY <1>5, <1>6

\* A version is read back from what GetString writes of it.
THEOREM VersionsReadBack ==
  ASSUME NEW P, NEW pieces \in Seq(P), AllText(pieces), NEW c, c = VersionOf(pieces), c # <<>>
  PROVE  /\ VersionOf(GetString(c)) = c
         /\ Len(GetString(c)) = Len(pieces) /\ GetString(c)[1] = pieces[1]
<1>1. PICK n \in Nat : n = Len(pieces)
  OBVIOUS
<1>2. /\ c \in Seq(ComponentSet) /\ Len(c) = n /\ pieces # <<>>
      /\ \A j \in 1 .. n : Accepts(pieces, j) /\ c[j] = NumberOf(pieces, j)
  BY <1>1, VersionIs
<1>3. PICK string : string = GetString(c)
  OBVIOUS
<1>4. string = [i \in 1 .. n |-> IntToString(Uint32, c[i])]
  BY <1>2, <1>3 DEF GetString
<1>5. Uint32 \in Types
  BY DEF Uint32, Types
<1>6. \A i \in 1 .. n : c[i] \in Nat /\ InType(Uint32, c[i])
  BY <1>2 DEF ComponentSet
<1>7. ASSUME NEW i \in 1 .. n
      PROVE  /\ IsText(string[i]) /\ Accepts(string, i) /\ NumberOf(string, i) = c[i]
  <2>1. PICK v \in Nat : v = c[i] /\ InType(Uint32, v)
    BY <1>6
  <2>2. string[i] = IntToString(Uint32, v)
    BY <1>4, <2>1
  <2>3. ReadsBack(Uint32, v) /\ IntToString(Uint32, v)[1] # "+"
    BY <1>5, <2>1, IntegersReadBack
  <2>4. StringToNumber(Uint32, 10, string[i]) = [value |-> v, valid |-> TRUE]
    BY <2>2, <2>3 DEF ReadsBack
  <2>5. PICK m : m = StringToNumber(Uint32, 10, string[i])
    OBVIOUS
  <2>6. m.value = v /\ m.valid
    BY <2>4, <2>5
  <2>7. Accepts(string, i) /\ NumberOf(string, i) = c[i]
    BY <2>1, <2>2, <2>3, <2>5, <2>6 DEF Accepts, NumberOf, IsCanonical
  <2>8. IsText(string[i])
    <3>1. PICK w, p : NumeralOf(string[i], v, w, p)
      BY <1>5, <2>1, <2>2, NumeralIs
    <3>2. string[i] \in Seq(DecimalDigits \cup {"-"})
      BY <3>1 DEF NumeralOf
    <3> QED BY <3>2, TextIs
  <2> QED BY <2>7, <2>8
<1>8. string \in Seq(Range(string)) /\ Len(string) = n /\ string # <<>> /\ DOMAIN string = 1 .. n
  <2>1. n # 0
    BY <1>1, <1>2
  <2>2. \A i \in 1 .. n : string[i] \in Range(string)
    BY <1>4 DEF Range
  <2>3. string = [i \in 1 .. n |-> string[i]]
    BY <1>4
  <2>4. string \in Seq(Range(string))
    BY <2>2, <2>3
  <2>5. Len(string) = n /\ DOMAIN string = 1 .. n
    BY <1>4, <2>4
  <2> QED BY <2>1, <2>4, <2>5
<1>9. AllText(string)
  BY <1>7, <1>8 DEF AllText
<1>10. PICK r : r = ParseVersionNumbers(string)
  OBVIOUS
<1>11. Numbered(string, r)
  BY <1>8, <1>9, <1>10, NumbersAre
<1>12. r.success /\ r.parsed = VersionOf(string)
  <2>1. r.success
    BY <1>7, <1>8, <1>11 DEF Numbered
  <2> QED BY <1>10, <2>1 DEF VersionOf
<1>13. VersionOf(string) = c
  <2>1. /\ r.parsed \in Seq(ComponentSet) /\ Len(r.parsed) = n
        /\ \A j \in 1 .. n : r.parsed[j] = NumberOf(string, j)
    BY <1>8, <1>11, <1>12 DEF Numbered, NumbersType
  <2>2. \A j \in 1 .. n : r.parsed[j] = c[j]
    BY <1>7, <2>1
  <2>3. r.parsed = [j \in 1 .. n |-> r.parsed[j]] /\ c = [j \in 1 .. n |-> c[j]]
    BY SMTT(30), <1>2, <2>1
  <2> QED BY <1>12, <2>2, <2>3
<1>14. string[1] = pieces[1]
  <2>1. 1 \in 1 .. n
    BY <1>1, <1>2
  <2>2. IsCanonical(NumberOf(pieces, 1), pieces[1]) /\ c[1] = NumberOf(pieces, 1)
    BY <1>2, <2>1 DEF Accepts, NumberOf
  <2> QED BY <1>4, <2>1, <2>2 DEF IsCanonical
<1> QED BY <1>1, <1>3, <1>8, <1>13, <1>14

-----------------------------------------------------------------------------
(* StringNumber: comparing versions                                        *)

\* The sizes of two sequences, and an entry with those that are missing.
LeastLength(a, b) == Min({Len(a), Len(b)})
GreatestLength(a, b) == Max({Len(a), Len(b)})
Padded(c, i) == IF i <= Len(c) THEN c[i] ELSE 0
LEMMA Lengths ==
  ASSUME NEW a \in Seq(Nat), NEW b \in Seq(Nat)
  PROVE  /\ LeastLength(a, b) \in Nat /\ GreatestLength(a, b) \in Nat
         /\ LeastLength(a, b) <= Len(a) /\ LeastLength(a, b) <= Len(b)
         /\ LeastLength(a, b) = Len(a) \/ LeastLength(a, b) = Len(b)
         /\ Len(a) <= GreatestLength(a, b) /\ Len(b) <= GreatestLength(a, b)
         /\ GreatestLength(a, b) = Len(a) \/ GreatestLength(a, b) = Len(b)
<1>1. PICK x \in Nat, y \in Nat : x = Len(a) /\ y = Len(b)
  OBVIOUS
<1>2. {x, y} \in SUBSET Nat /\ {x, y} # {}
  OBVIOUS
<1>3. Min({x, y}) \in {x, y} /\ \A z \in {x, y} : Min({x, y}) <= z
  BY <1>2, MinIs
<1>4. Max({x, y}) \in {x, y} /\ \A z \in {x, y} : Max({x, y}) >= z
  <2>1. \E z \in {x, y} : \A w \in {x, y} : z >= w
    OBVIOUS
  <2> QED BY <2>1 DEF Max
<1> QED BY <1>1, <1>3, <1>4 DEF LeastLength, GreatestLength
LEMMA PaddedFacts ==
  ASSUME NEW c \in Seq(Nat)
  PROVE  /\ \A i \in Nat : i > 0 => Padded(c, i) \in Nat
         /\ \A i \in Nat : i > Len(c) => Padded(c, i) = 0
         /\ \A i \in 1 .. Len(c) : Padded(c, i) = c[i]
  BY DEF Padded

\* a is less than b in the first component in which they differ.
Less(a, b) ==
  \E i \in 1 .. GreatestLength(a, b) :
    Padded(a, i) < Padded(b, i) /\ \A k \in 1 .. (i - 1) : Padded(a, k) = Padded(b, k)
LEMMA SignIsLess ==
  ASSUME NEW a \in Seq(Nat), NEW b \in Seq(Nat)
  PROVE  Sign(a, b) = IF Less(a, b) THEN -1 ELSE IF Less(b, a) THEN 1 ELSE 0
<1>1. PICK n \in Nat : n = GreatestLength(a, b) /\ n = GreatestLength(b, a)
  <2>1. {Len(a), Len(b)} = {Len(b), Len(a)}
    OBVIOUS
  <2> QED BY <2>1, Lengths DEF GreatestLength
<1>2. PICK x, y : x = Sized(a, n) /\ y = Sized(b, n)
  OBVIOUS
<1>3. \A i \in 1 .. n : x[i] = Padded(a, i) /\ y[i] = Padded(b, i)
  BY <1>2 DEF Sized, Padded
<1>4. (\E i \in 1 .. n : x[i] < y[i] /\ \A k \in 1 .. (i - 1) : x[k] = y[k]) <=> Less(a, b)
  <2>1. \A i \in 1 .. n : \A k \in 1 .. (i - 1) : k \in 1 .. n
    OBVIOUS
  <2> QED BY <1>1, <1>3, <2>1 DEF Less
<1>5. (\E i \in 1 .. n : y[i] < x[i] /\ \A k \in 1 .. (i - 1) : y[k] = x[k]) <=> Less(b, a)
  <2>1. \A i \in 1 .. n : \A k \in 1 .. (i - 1) : k \in 1 .. n
    OBVIOUS
  <2> QED BY <1>1, <1>3, <2>1 DEF Less
<1>6. Sign(a, b) =
        IF \E i \in 1 .. n : x[i] < y[i] /\ \A k \in 1 .. (i - 1) : x[k] = y[k] THEN -1
        ELSE IF \E i \in 1 .. n : y[i] < x[i] /\ \A k \in 1 .. (i - 1) : y[k] = x[k] THEN 1 ELSE 0
  BY <1>1, <1>2, Zenon DEF Sign, GreatestLength
<1> QED BY <1>4, <1>5, <1>6

\* Both are known from the first component in which they differ, if there is one.
LEMMA SignAtFirst ==
  ASSUME NEW a \in Seq(Nat), NEW b \in Seq(Nat), NEW i \in Nat, 0 < i,
         Padded(a, i) # Padded(b, i), \A k \in 1 .. (i - 1) : Padded(a, k) = Padded(b, k)
  PROVE  Sign(a, b) = IF Padded(a, i) > Padded(b, i) THEN 1 ELSE -1
<1>1. PICK n \in Nat : n = GreatestLength(a, b) /\ n = GreatestLength(b, a)
  <2>1. {Len(a), Len(b)} = {Len(b), Len(a)}
    OBVIOUS
  <2> QED BY <2>1, Lengths DEF GreatestLength
<1>2. i \in 1 .. n
  <2>1. Len(a) <= n /\ Len(b) <= n /\ Len(a) \in Nat /\ Len(b) \in Nat
    BY <1>1, Lengths
  <2>2. ASSUME i > n PROVE FALSE
    <3>1. i > Len(a) /\ i > Len(b)
      BY <2>1, <2>2
    <3> QED BY <3>1, PaddedFacts
  <2> QED BY <2>2
<1>3. Padded(a, i) \in Nat /\ Padded(b, i) \in Nat
  BY PaddedFacts
<1>4. Padded(a, i) < Padded(b, i) => Less(a, b)
  BY <1>1, <1>2 DEF Less
<1>5. Padded(b, i) < Padded(a, i) => Less(b, a) /\ ~Less(a, b)
  <2>1. ASSUME Padded(b, i) < Padded(a, i) PROVE Less(b, a)
    BY <1>1, <1>2, <2>1 DEF Less
  <2>2. ASSUME Padded(b, i) < Padded(a, i), Less(a, b) PROVE FALSE
    <3>1. PICK j \in 1 .. n : Padded(a, j) < Padded(b, j) /\ \A k \in 1 .. (j - 1) : Padded(a, k) = Padded(b, k)
      BY <1>1, <2>2 DEF Less
    <3>2. Padded(a, j) \in Nat /\ Padded(b, j) \in Nat
      BY PaddedFacts
    <3>3. CASE j < i
      <4>1. j \in 1 .. (i - 1)
        BY <3>3
      <4>2. Padded(a, j) = Padded(b, j)
        BY <4>1
      <4> QED BY <3>1, <3>2, <4>2
    <3>4. CASE j = i
      BY <1>3, <2>2, <3>1, <3>4
    <3>5. CASE i < j
      <4>1. i \in 1 .. (j - 1)
        BY <3>5
      <4> QED BY <3>1, <4>1
    <3> QED BY <3>3, <3>4, <3>5
  <2> QED BY <2>1, <2>2
<1>6. Padded(a, i) < Padded(b, i) \/ Padded(b, i) < Padded(a, i)
  BY <1>3
<1>7. Sign(a, b) = IF Less(a, b) THEN -1 ELSE IF Less(b, a) THEN 1 ELSE 0
  BY SignIsLess
<1> QED BY <1>3, <1>4, <1>5, <1>6, <1>7
LEMMA SignNone ==
  ASSUME NEW a \in Seq(Nat), NEW b \in Seq(Nat), \A i \in Nat : i > 0 => Padded(a, i) = Padded(b, i)
  PROVE  Sign(a, b) = 0
<1>1. ASSUME NEW i \in Nat, i > 0 PROVE ~(Padded(a, i) < Padded(b, i)) /\ ~(Padded(b, i) < Padded(a, i))
  <2>1. Padded(a, i) \in Nat /\ Padded(a, i) = Padded(b, i)
    BY <1>1, PaddedFacts
  <2> QED BY <2>1
<1>2. ~Less(a, b) /\ ~Less(b, a)
  <2>1. \A n \in Nat : \A i \in 1 .. n : i \in Nat /\ i > 0
    OBVIOUS
  <2>2. GreatestLength(a, b) \in Nat /\ GreatestLength(b, a) \in Nat
    BY Lengths
  <2> QED BY <1>1, <2>1, <2>2 DEF Less
<1> QED BY <1>2, SignIsLess

\* The components in which two versions differ, as far as both go.
Differ(a, b) == {i \in 1 .. LeastLength(a, b) : a[i] # b[i]}
LEMMA CompareIs ==
  ASSUME NEW a, NEW b
  PROVE  CompareVersionComponents(a, b) =
           IF Differ(a, b) # {} THEN IF a[Min(Differ(a, b))] > b[Min(Differ(a, b))] THEN 1 ELSE -1
           ELSE IF MoreThan(a, LeastLength(a, b)) THEN 1
           ELSE IF MoreThan(b, LeastLength(a, b)) THEN -1 ELSE 0
  BY DEF CompareVersionComponents, Differ, LeastLength

\* What is more than the other has is zero, or the first that is not makes the difference.
LEMMA MoreIs ==
  ASSUME NEW a \in Seq(Nat), NEW b \in Seq(Nat), NEW m \in Nat, m = LeastLength(a, b),
         \A i \in 1 .. m : a[i] = b[i]
  PROVE  /\ MoreThan(a, m) => Sign(a, b) = 1 /\ ~MoreThan(b, m)
         /\ ~MoreThan(a, m) /\ ~MoreThan(b, m) => Sign(a, b) = 0
<1>1. m <= Len(a) /\ m <= Len(b) /\ (m = Len(a) \/ m = Len(b)) /\ Len(a) \in Nat /\ Len(b) \in Nat
  BY Lengths
<1>2. \A i \in 1 .. m : Padded(a, i) = Padded(b, i)
  <2>1. ASSUME NEW i \in 1 .. m PROVE Padded(a, i) = Padded(b, i)
    <3>1. i \in 1 .. Len(a) /\ i \in 1 .. Len(b)
      BY <1>1
    <3> QED BY <3>1, PaddedFacts
  <2> QED BY <2>1
<1>3. ASSUME MoreThan(a, m) PROVE Sign(a, b) = 1 /\ ~MoreThan(b, m)
  <2>1. PICK j \in (m + 1) .. Len(a) : a[j] > 0
    BY <1>3 DEF MoreThan
  <2>2. m = Len(b)
    BY <1>1, <2>1
  <2>3. PICK S : S = {i \in (m + 1) .. Len(a) : a[i] > 0}
    OBVIOUS
  <2>4. S \in SUBSET Nat /\ S # {} /\ j \in S
    BY <2>1, <2>3
  <2>5. PICK i \in S : i = Min(S) /\ \A y \in S : i <= y
    BY <2>4, MinIs
  <2>6. i \in (m + 1) .. Len(a) /\ a[i] > 0 /\ i \in Nat /\ i > 0
    BY <2>3, <2>5
  <2>7. Padded(a, i) > 0 /\ Padded(b, i) = 0 /\ Padded(a, i) \in Nat
    <3>1. i \in 1 .. Len(a) /\ i > Len(b)
      BY <2>2, <2>6
    <3> QED BY <2>6, <3>1, PaddedFacts
  <2>8. ASSUME NEW k \in 1 .. (i - 1) PROVE Padded(a, k) = Padded(b, k)
    <3>1. CASE k <= m
      <4>1. k \in 1 .. m
        BY <3>1
      <4> QED BY <1>2, <4>1
    <3>2. CASE k > m
      <4>1. k \in (m + 1) .. Len(a) /\ k \in 1 .. Len(a) /\ ~(i <= k) /\ k > Len(b) /\ k \in Nat
        BY <2>2, <2>6, <3>2
      <4>2. ~(a[k] > 0) /\ a[k] \in Nat
        BY SMTT(30), <2>3, <2>5, <4>1
      <4>3. Padded(a, k) = a[k] /\ Padded(b, k) = 0
        BY <4>1, PaddedFacts
      <4> QED BY <4>2, <4>3
    <3> QED BY <1>1, <3>1, <3>2
  <2>9. Sign(a, b) = IF Padded(a, i) > Padded(b, i) THEN 1 ELSE -1
    <3>1. Padded(a, i) # Padded(b, i)
      BY <2>7
    <3> QED BY <2>6, <2>8, <3>1, SignAtFirst
  <2>10. ~MoreThan(b, m)
    BY <1>1, <2>2 DEF MoreThan
  <2> QED BY <2>7, <2>9, <2>10
<1>4. ASSUME ~MoreThan(a, m), ~MoreThan(b, m) PROVE Sign(a, b) = 0
  <2>1. ASSUME NEW i \in Nat, i > 0 PROVE Padded(a, i) = Padded(b, i)
    <3>1. CASE i <= m
      <4>1. i \in 1 .. m
        BY <2>1, <3>1
      <4> QED BY <1>2, <4>1
    <3>2. CASE i > m
      <4>1. \A c \in {a, b} : Padded(c, i) = 0
        <5>1. SUFFICES ASSUME NEW c \in Seq(Nat), ~MoreThan(c, m) PROVE Padded(c, i) = 0
          BY <1>4
        <5>2. CASE i <= Len(c)
          <6>1. i \in (m + 1) .. Len(c) /\ i \in 1 .. Len(c)
            BY <2>1, <3>2, <5>2
          <6>2. ~(c[i] > 0) /\ c[i] \in Nat
            BY <5>1, <6>1 DEF MoreThan
          <6> QED BY SMTT(30), <6>1, <6>2, PaddedFacts
        <5>3. CASE i > Len(c)
          BY <5>3, PaddedFacts
        <5>4. Len(c) \in Nat
          OBVIOUS
        <5> QED BY <5>2, <5>3, <5>4
      <4> QED BY <4>1
    <3> QED BY <3>1, <3>2
  <2> QED BY <2>1, SignNone
<1> QED BY <1>3, <1>4

\* Versions swapped compare the other way round.
LEMMA SignSwapped ==
  ASSUME NEW a \in Seq(Nat), NEW b \in Seq(Nat), Sign(b, a) = 1
  PROVE  Sign(a, b) = -1
<1>1. Less(a, b)
  BY SignIsLess
<1> QED BY <1>1, SignIsLess

\* CompareVersionComponents compares as if the missing components were zeros.
THEOREM VersionsComparePadded ==
  ASSUME NEW a \in Seq(Nat), NEW b \in Seq(Nat)
  PROVE  CompareVersionComponents(a, b) = Sign(a, b)
<1>1. PICK m \in Nat : m = LeastLength(a, b) /\ m = LeastLength(b, a)
  <2>1. {Len(a), Len(b)} = {Len(b), Len(a)}
    OBVIOUS
  <2> QED BY <2>1, Lengths DEF LeastLength
<1>2. PICK S : S = Differ(a, b)
  OBVIOUS
<1>3. S = {i \in 1 .. m : a[i] # b[i]}
  BY <1>1, <1>2 DEF Differ
<1>4. m <= Len(a) /\ m <= Len(b) /\ Len(a) \in Nat /\ Len(b) \in Nat
  BY <1>1, Lengths
<1>5. CASE S # {}
  <2>1. S \in SUBSET Nat
    BY <1>3
  <2>2. PICK i \in S : i = Min(S) /\ \A y \in S : i <= y
    BY <1>5, <2>1, MinIs
  <2>3. i \in 1 .. m /\ a[i] # b[i] /\ i \in 1 .. Len(a) /\ i \in 1 .. Len(b) /\ i \in Nat /\ 0 < i
    BY <1>3, <1>4, <2>2
  <2>4. Padded(a, i) = a[i] /\ Padded(b, i) = b[i]
    BY <2>3, PaddedFacts
  <2>5. ASSUME NEW k \in 1 .. (i - 1) PROVE Padded(a, k) = Padded(b, k)
    <3>1. k \in 1 .. m /\ k \in 1 .. Len(a) /\ k \in 1 .. Len(b) /\ ~(i <= k)
      <4>1. i \in Nat /\ i <= m /\ k \in Nat /\ 1 <= k /\ k <= i - 1
        BY <2>3
      <4>2. k <= m /\ ~(i <= k)
        BY <4>1
      <4> QED BY <1>4, <4>1, <4>2
    <3>2. a[k] = b[k]
      BY <1>3, <2>2, <3>1
    <3> QED BY <3>1, <3>2, PaddedFacts
  <2>6. Sign(a, b) = IF Padded(a, i) > Padded(b, i) THEN 1 ELSE -1
    BY <2>3, <2>4, <2>5, SignAtFirst
  <2>7. CompareVersionComponents(a, b) = IF a[i] > b[i] THEN 1 ELSE -1
    BY <1>2, <1>5, <2>2, CompareIs
  <2> QED BY <2>4, <2>6, <2>7
<1>6. CASE S = {}
  <2>1. \A i \in 1 .. m : a[i] = b[i]
    BY <1>3, <1>6
  <2>2. CompareVersionComponents(a, b) =
          IF MoreThan(a, m) THEN 1 ELSE IF MoreThan(b, m) THEN -1 ELSE 0
    BY <1>1, <1>2, <1>6, CompareIs
  <2>3. /\ MoreThan(a, m) => Sign(a, b) = 1
        /\ ~MoreThan(a, m) /\ ~MoreThan(b, m) => Sign(a, b) = 0
    BY <1>1, <2>1, MoreIs
  <2>4. MoreThan(b, m) => Sign(b, a) = 1
    <3>1. \A i \in 1 .. m : b[i] = a[i]
      BY <2>1
    <3> QED BY <1>1, <3>1, MoreIs
  <2>5. MoreThan(b, m) => Sign(a, b) = -1
    BY <2>4, SignSwapped
  <2>6. MoreThan(b, m) => ~MoreThan(a, m)
    BY <1>1, <2>1, MoreIs
  <2> QED BY <2>2, <2>3, <2>5, <2>6
<1> QED BY <1>5, <1>6

\* A version that begins with the numbers before a wildcard matches it, and compares
\* as its beginning does otherwise.
THEOREM WildcardsCompareBeginnings ==
  ASSUME NEW c \in Seq(Nat), NEW numbers \in Seq(Nat), NEW l \in Nat, l = Len(numbers),
         NEW result, result = (IF CompareVersionComponents(c, numbers) = 1 /\ BeginsWith(c, numbers) THEN 0
                               ELSE CompareVersionComponents(c, numbers))
  PROVE  result = Sign(Sized(c, l), numbers)
<1>1. PICK m \in Nat : m = LeastLength(c, numbers)
  BY Lengths
<1>2. m <= Len(c) /\ m <= l /\ (m = Len(c) \/ m = l) /\ Len(c) \in Nat
  BY <1>1, Lengths
<1>3. PICK z : z = Sized(c, l)
  OBVIOUS
<1>4. z = [i \in 1 .. l |-> Padded(c, i)]
  BY <1>3 DEF Sized, Padded
<1>5. z \in Seq(Nat) /\ Len(z) = l
  <2>1. \A i \in 1 .. l : Padded(c, i) \in Nat
    BY PaddedFacts
  <2> QED BY <1>4, <2>1
<1>6. \A i \in 1 .. l : Padded(z, i) = Padded(c, i)
  BY <1>4, <1>5, PaddedFacts
<1>7. BeginsWith(c, numbers) <=> \A i \in 1 .. m : c[i] = numbers[i]
  BY <1>1 DEF BeginsWith, LeastLength
<1>8. PICK S : S = Differ(c, numbers)
  OBVIOUS
<1>9. S = {i \in 1 .. m : c[i] # numbers[i]}
  BY <1>1, <1>8 DEF Differ
<1>10. CASE S # {}
  <2>1. S \in SUBSET Nat
    BY <1>9
  <2>2. PICK i \in S : i = Min(S) /\ \A y \in S : i <= y
    BY <1>10, <2>1, MinIs
  <2>3. i \in 1 .. m /\ c[i] # numbers[i] /\ i \in 1 .. Len(c) /\ i \in 1 .. l /\ i \in Nat /\ 0 < i
    BY <1>2, <1>9, <2>2
  <2>4. ~BeginsWith(c, numbers)
    BY <1>7, <2>3
  <2>5. CompareVersionComponents(c, numbers) = IF c[i] > numbers[i] THEN 1 ELSE -1
    BY <1>8, <1>10, <2>2, CompareIs
  <2>6. Padded(z, i) = c[i] /\ Padded(numbers, i) = numbers[i]
    BY <1>6, <2>3, PaddedFacts
  <2>7. ASSUME NEW k \in 1 .. (i - 1) PROVE Padded(z, k) = Padded(numbers, k)
    <3>1. k \in 1 .. m /\ k \in 1 .. Len(c) /\ k \in 1 .. l /\ ~(i <= k)
      <4>1. i \in Nat /\ i <= m /\ k \in Nat /\ 1 <= k /\ k <= i - 1
        BY <2>3
      <4>2. k <= m /\ ~(i <= k)
        BY <4>1
      <4> QED BY <1>2, <4>1, <4>2
    <3>2. c[k] = numbers[k]
      BY <1>9, <2>2, <3>1
    <3> QED BY SMTT(30), <1>6, <3>1, <3>2, PaddedFacts
  <2>8. Sign(z, numbers) = IF Padded(z, i) > Padded(numbers, i) THEN 1 ELSE -1
    BY <1>5, <2>3, <2>6, <2>7, SignAtFirst
  <2> QED BY <1>3, <2>4, <2>5, <2>6, <2>8
<1>11. CASE S = {} /\ m = l
  <2>1. \A i \in 1 .. m : c[i] = numbers[i]
    BY <1>9, <1>11
  <2>2. ASSUME NEW i \in Nat, i > 0 PROVE Padded(z, i) = Padded(numbers, i)
    <3>1. CASE i <= l
      <4>1. i \in 1 .. l /\ i \in 1 .. m /\ i \in 1 .. Len(c)
        BY <1>2, <1>11, <2>2, <3>1
      <4> QED BY <1>6, <2>1, <4>1, PaddedFacts
    <3>2. CASE i > l
      BY <1>5, <3>2, PaddedFacts
    <3> QED BY <3>1, <3>2
  <2>3. Sign(z, numbers) = 0
    BY <1>5, <2>2, SignNone
  <2>4. CompareVersionComponents(c, numbers) =
          IF MoreThan(c, m) THEN 1 ELSE IF MoreThan(numbers, m) THEN -1 ELSE 0
    BY <1>1, <1>8, <1>11, CompareIs
  <2>5. ~MoreThan(numbers, m)
    BY <1>11 DEF MoreThan
  <2>6. BeginsWith(c, numbers)
    BY <1>7, <2>1
  <2> QED BY <1>3, <2>3, <2>4, <2>5, <2>6
<1>12. CASE S = {} /\ m = Len(c)
  <2>1. CompareVersionComponents(c, numbers) =
          IF MoreThan(c, m) THEN 1 ELSE IF MoreThan(numbers, m) THEN -1 ELSE 0
    BY <1>1, <1>8, <1>12, CompareIs
  <2>2. ~MoreThan(c, m)
    BY <1>12 DEF MoreThan
  <2>3. result = Sign(c, numbers)
    <3>1. CompareVersionComponents(c, numbers) = Sign(c, numbers)
      BY VersionsComparePadded
    <3>2. CompareVersionComponents(c, numbers) # 1
      BY <2>1, <2>2
    <3> QED BY <3>1, <3>2
  <2>4. ASSUME NEW i \in Nat, i > 0 PROVE Padded(z, i) = Padded(c, i)
    <3>1. CASE i <= l
      <4>1. i \in 1 .. l
        BY <2>4, <3>1
      <4> QED BY <1>6, <4>1
    <3>2. CASE i > l
      <4>1. i > Len(c)
        BY <1>2, <1>12, <3>2
      <4> QED BY <1>5, <3>2, <4>1, PaddedFacts
    <3> QED BY <3>1, <3>2
  <2>5. Sign(z, numbers) = Sign(c, numbers)
    <3>1. GreatestLength(z, numbers) = l /\ GreatestLength(c, numbers) = l
          /\ GreatestLength(numbers, z) = l /\ GreatestLength(numbers, c) = l
      <4>1. Len(c) <= l /\ Len(z) = l /\ Len(numbers) = l /\ l \in Nat
        BY <1>2, <1>5, <1>12
      <4>2. ASSUME NEW a \in Seq(Nat), NEW b \in Seq(Nat), Len(a) <= l, Len(b) <= l, Len(a) = l \/ Len(b) = l
            PROVE  GreatestLength(a, b) = l
        <5>1. /\ GreatestLength(a, b) = Len(a) \/ GreatestLength(a, b) = Len(b)
              /\ Len(a) <= GreatestLength(a, b) /\ Len(b) <= GreatestLength(a, b)
              /\ Len(a) \in Nat /\ Len(b) \in Nat
          BY Lengths
        <5> QED BY <4>2, <5>1
      <4>3. Len(numbers) <= l /\ Len(z) <= l
        BY <4>1
      <4> QED BY <1>5, <4>1, <4>2, <4>3
    <3>2. \A i \in 1 .. l : i \in Nat /\ i > 0 /\ \A k \in 1 .. (i - 1) : k \in Nat /\ k > 0
      OBVIOUS
    <3>3. Less(z, numbers) <=> Less(c, numbers)
      BY <2>4, <3>1, <3>2 DEF Less
    <3>4. Less(numbers, z) <=> Less(numbers, c)
      BY <2>4, <3>1, <3>2 DEF Less
    <3> QED BY <1>5, <3>3, <3>4, SignIsLess
  <2> QED BY <1>3, <2>3, <2>5
<1> QED BY <1>2, <1>10, <1>11, <1>12

-----------------------------------------------------------------------------
(* StringNumber: its invariant                                             *)

\* What was parsed and the version are what the code makes of their strings.
NumberInv ==
  /\ parsed.type \in Types /\ parsed.base \in Bases /\ parsed.input \in Inputs \cup {<<>>}
  /\ [value |-> parsed.value, valid |-> parsed.valid]
       = StringToNumber(parsed.type, parsed.base, parsed.input)
  /\ version.string \in Strings \cup {<<>>} /\ version.components = VersionOf(version.string)

NumberCleared ==
  /\ NoParse.type \in Types /\ NoParse.base \in Bases /\ NoParse.input = <<>>
  /\ [value |-> NoParse.value, valid |-> NoParse.valid]
       = StringToNumber(NoParse.type, NoParse.base, NoParse.input)
  /\ VersionOf(<<>>) = <<>>

\* The strings of VersionPieces.
LEMMA StringsAre ==
  /\ \A pieces \in Strings \cup {<<>>} : pieces \in Seq(VersionPieces) /\ AllText(pieces)
  /\ \A s \in Inputs \cup {<<>>} : IsText(s)
<1>1. ASSUME NEW pieces \in Strings PROVE pieces \in Seq(VersionPieces)
  BY <1>1, DigitsAssumption DEF Strings, SeqOf
<1>2. \A s \in Inputs \cup VersionPieces : IsText(s)
  BY DigitsAssumption DEF IsText
<1>3. ASSUME NEW pieces \in Seq(VersionPieces) PROVE AllText(pieces)
  <2>1. \A k \in DOMAIN pieces : pieces[k] \in VersionPieces
    OBVIOUS
  <2> QED BY <1>2, <2>1 DEF AllText
<1>4. <<>> \in Seq(VersionPieces)
  OBVIOUS
<1>5. IsText(<<>>)
  BY <1>4, TextIs
<1> QED BY <1>1, <1>2, <1>3, <1>4, <1>5

LEMMA NothingParsed ==
  /\ StringToNumber(Uint32, 10, <<>>) = [value |-> 0, valid |-> FALSE]
  /\ VersionOf(<<>>) = <<>>
<1>1. PICK s \in Seq(Nat) : s = <<>> /\ Len(s) = 0
  <2>1. <<>> \in Seq(Nat) /\ Len(<<>>) = 0
    OBVIOUS
  <2> QED BY <2>1
<1>2. Uint32 \in Types /\ ~Uint32.signed /\ 10 \in Bases
  BY DEF Uint32, Types, Bases
<1>3. PICK sign, digits, first, end, r, result :
        /\ sign = SignOf(s) /\ digits = DigitsOf(s, sign) /\ first = Beginning(10, s, digits)
        /\ end = Ending(10, s, first) /\ r = Reading(10, s) /\ result = StringToNumber(Uint32, 10, s)
  OBVIOUS
<1>4. result \in NumberResult /\ ReadsExactly(Uint32, result, r)
  BY <1>2, <1>3, ParseReads
<1>5. ParseAt(Uint32, 10, s, sign, digits, result)
  BY <1>2, <1>3, ParseIs
<1>6. sign = 1 /\ digits = 1
  BY <1>1, <1>5 DEF ParseAt
<1>7. first = 1
  BY <1>3, <1>6 DEF Beginning
<1>8. end = 1
  <2>1. 1 \in 1 .. (Len(s) + 1)
    BY <1>1
  <2>2. EndsAt(10, s, 1, end)
    BY <1>2, <1>3, <1>7, <2>1, DigitsEnd
  <2> QED BY <1>1, <2>2 DEF EndsAt
<1>9. ReadingFields(10, s, r, sign, digits, first, end)
  BY <1>3, ReadingIs
<1>10. ~r.negative /\ ~r.whole /\ r.magnitude = 0
  <2>1. SubSeq(s, 1, 1 - 1) = <<>>
    BY <1>1
  <2>2. r.magnitude = Magnitude(10, SubSeq(s, 1, 1 - 1))
    BY <1>7, <1>8, <1>9 DEF ReadingFields
  <2>3. Magnitude(10, <<>>) = 0
    BY <1>2, MagnitudeEmpty
  <2>4. ~r.whole /\ ~r.negative
    BY <1>6, <1>7, <1>8, <1>9 DEF ReadingFields
  <2> QED BY <2>1, <2>2, <2>3, <2>4
<1>11. Max({Lowest(Uint32), Min({MaxOf(Uint32), 0})}) = 0
  <2>0. PICK negative \in BOOLEAN : ~negative
    OBVIOUS
  <2>1. Limit(Uint32, negative) \in Nat
    BY <1>2, <2>0, LimitFacts
  <2>2. Signed(negative, 0) = 0 /\ Clamped(Uint32, negative, 0) = 0
    BY <2>0, <2>1 DEF Clamped, Signed
  <2>3. Max({Lowest(Uint32), Min({MaxOf(Uint32), Signed(negative, 0)})}) = Clamped(Uint32, negative, 0)
    BY <1>2, <2>0, ClampIs
  <2> QED BY <2>2, <2>3
<1>12. result.value = 0 /\ ~result.valid
  BY <1>4, <1>10, <1>11 DEF ReadsExactly
<1>13. result = [value |-> 0, valid |-> FALSE]
  BY <1>4, <1>12 DEF NumberResult
<1>14. VersionOf(<<>>) = <<>>
  <2>1. <<>> \in Seq(Nat) /\ AllText(<<>>)
    BY <1>1 DEF AllText
  <2> QED BY <2>1, VersionIs
<1> QED BY <1>1, <1>3, <1>13, <1>14

\* A parse and an assignment are what the code makes of a string, and stay so.
LEMMA NumberInitInv == NumberInit => NumberInv
<1>1. Uint32 \in Types /\ 10 \in Bases
  BY DEF Uint32, Types, Bases
<1>2. NumberCleared
  BY <1>1, NothingParsed DEF NumberCleared, NoParse
<1> QED BY <1>2 DEF NumberInit, NumberCleared, NumberInv

LEMMA NumberNextInv == NumberInv /\ [NumberNext]_numberVars => NumberInv'
<1> SUFFICES ASSUME NumberInv, [NumberNext]_numberVars PROVE NumberInv'
  OBVIOUS
<1>1. ASSUME NEW t \in Types, NEW base \in {10, 16}, NEW input \in Inputs, Parse(t, base, input)
      PROVE  NumberInv'
  <2>1. PICK n : n = StringToNumber(t, base, input)
    OBVIOUS
  <2>2. n \in NumberResult
    <3>1. IsText(input)
      BY StringsAre
    <3> QED BY <2>1, <3>1, ParseReads DEF IsText, Bases
  <2>3. parsed' = [type |-> t, base |-> base, input |-> input, value |-> n.value, valid |-> n.valid]
    BY <1>1, <2>1 DEF Parse
  <2>4. parsed'.type = t /\ parsed'.base = base /\ parsed'.input = input
        /\ parsed'.value = n.value /\ parsed'.valid = n.valid
    BY <2>3
  <2>5. [value |-> parsed'.value, valid |-> parsed'.valid] = n
    BY <2>2, <2>4 DEF NumberResult
  <2>6. version' = version
    BY <1>1 DEF Parse
  <2> QED BY <2>1, <2>4, <2>5, <2>6 DEF NumberInv, Bases
<1>2. ASSUME NEW pieces \in Strings, AssignVersion(pieces) PROVE NumberInv'
  BY <1>2 DEF AssignVersion, NumberInv
<1>3. ASSUME ClearNumber PROVE NumberInv'
  <2>1. NumberInit'
    BY <1>3 DEF ClearNumber, NumberInit
  <2>2. NumberCleared
    BY NothingParsed DEF NumberCleared, NoParse, Uint32, Types, Bases
  <2> QED BY <2>1, <2>2 DEF NumberInit, NumberCleared, NumberInv
<1>4. ASSUME UNCHANGED numberVars PROVE NumberInv'
  BY <1>4 DEF numberVars, NumberInv
<1> QED BY <1>1, <1>2, <1>3, <1>4 DEF NumberNext, Strings

\* Of numbers and versions that are what the code makes of their strings all four
\* parts of NumeralsAreExact hold.
LEMMA NumeralsExact ==
  ASSUME NumberInv
  PROVE  NumeralsAreExact
<1>1. ParsesExactly
  <2>1. PICK t \in Types, base \in Bases, s \in Inputs \cup {<<>>} :
          t = parsed.type /\ base = parsed.base /\ s = parsed.input
    BY DEF NumberInv
  <2>2. PICK n : n = StringToNumber(t, base, s)
    OBVIOUS
  <2>3. n \in NumberResult /\ ReadsExactly(t, n, Reading(base, s)) /\ (n.valid => InType(t, n.value))
    <3>1. IsText(s)
      BY StringsAre
    <3> QED BY <2>2, <3>1, ParseReads DEF IsText
  <2>4. [value |-> parsed.value, valid |-> parsed.valid] = n
    BY <2>1, <2>2 DEF NumberInv
  <2>5. parsed.value = n.value /\ parsed.valid = n.valid
    <3>1. PICK a, b : a = parsed.value /\ b = parsed.valid
      OBVIOUS
    <3>2. n = [value |-> a, valid |-> b]
      BY <2>4, <3>1
    <3>3. n.value = a /\ n.valid = b
      BY <3>2
    <3> QED BY <3>1, <3>3
  <2>6. ASSUME parsed.valid PROVE ReadsBack(parsed.type, parsed.value)
    <3>1. n.value \in Int /\ InType(t, n.value)
      BY <2>3, <2>5, <2>6 DEF NumberResult
    <3> QED BY <2>1, <2>5, <3>1, IntegersReadBack
  <2> QED BY <2>1, <2>3, <2>4, <2>6 DEF ParsesExactly
<1>2. PICK c, string : c = version.components /\ string = version.string
  OBVIOUS
<1>3. c = VersionOf(string) /\ string \in Seq(VersionPieces) /\ AllText(string)
  BY <1>2, StringsAre DEF NumberInv
<1>4. ComponentSet \in SUBSET Nat
  BY DEF ComponentSet
<1>5. ASSUME NEW pieces \in Seq(VersionPieces), AllText(pieces)
      PROVE  VersionOf(pieces) \in Seq(Nat) /\ ParseVersionNumbers(pieces).parsed \in Seq(Nat)
  <2>1. VersionOf(pieces) \in Seq(ComponentSet) /\ ParseVersionNumbers(pieces).parsed \in Seq(ComponentSet)
    BY <1>5, VersionIs
  <2>2. ASSUME NEW q \in Seq(ComponentSet) PROVE q \in Seq(Nat)
    <3>1. ASSUME NEW i \in 1 .. Len(q) PROVE q[i] \in Nat
      <4>1. q[i] \in ComponentSet
        OBVIOUS
      <4> QED BY <1>4, <4>1
    <3>2. q = [i \in 1 .. Len(q) |-> q[i]] /\ Len(q) \in Nat
      OBVIOUS
    <3> QED BY <3>1, <3>2
  <2> QED BY <2>1, <2>2
<1>6. c \in Seq(Nat)
  BY <1>3, <1>5
<1>7. VersionsCompareAsPadded
  <2>1. ASSUME NEW other \in ValidVersions PROVE CompareVersionComponents(c, other) = Sign(c, other)
    <3>1. PICK pieces \in Strings : other = VersionOf(pieces)
      BY DEF ValidVersions
    <3>2. other \in Seq(Nat)
      BY <1>5, <3>1, StringsAre
    <3> QED BY <1>6, <3>2, VersionsComparePadded
  <2> QED BY <1>2, <2>1 DEF VersionsCompareAsPadded
<1>8. WildcardComparesPrefix
  <2>1. ASSUME NEW pieces \in WildcardStrings, ~EndsWithWildcard(pieces)
        PROVE  CompareToWildcardString(c, pieces) = Sign(c, VersionOf(pieces))
    <3>1. VersionOf(pieces) \in Seq(Nat)
      BY <1>5, StringsAre DEF WildcardStrings
    <3> QED BY <1>6, <2>1, <3>1, VersionsComparePadded DEF CompareToWildcardString
  <2>2. ASSUME NEW pieces \in WildcardStrings, EndsWithWildcard(pieces),
               NEW numbers, numbers = VersionOf(Front(pieces))
        PROVE  CompareToWildcardString(c, pieces) = Sign(Sized(c, Len(numbers)), numbers)
    <3>1. pieces \in Seq(VersionPieces) /\ AllText(pieces) /\ Len(pieces) > 1
      BY <2>2, StringsAre DEF WildcardStrings, EndsWithWildcard
    <3>2. PICK front : front = Front(pieces)
      OBVIOUS
    <3>3. front \in Seq(VersionPieces) /\ AllText(front)
      <4>1. front = SubSeq(pieces, 1, Len(pieces) - 1) /\ Len(pieces) - 1 \in Nat
        BY <3>1, <3>2 DEF Front
      <4>2. front \in Seq(VersionPieces) /\ Len(front) = Len(pieces) - 1
            /\ \A i \in 1 .. (Len(pieces) - 1) : front[i] = pieces[i]
        BY <3>1, <4>1
      <4>3. \A i \in 1 .. (Len(pieces) - 1) : i \in DOMAIN pieces
        BY <3>1
      <4> QED BY <3>1, <4>2, <4>3 DEF AllText
    <3>4. numbers # <<>>
      BY <2>2 DEF WildcardStrings, IsValidWildcardString, IsValid
    <3>5. numbers = ParseVersionNumbers(front).parsed /\ numbers \in Seq(Nat) /\ Len(numbers) \in Nat
      BY <1>5, <2>2, <3>2, <3>3, <3>4, VersionIs
    <3>6. CompareToWildcardString(c, pieces) =
            IF CompareVersionComponents(c, numbers) = 1 /\ BeginsWith(c, numbers) THEN 0
            ELSE CompareVersionComponents(c, numbers)
      BY <2>2, <3>2, <3>5 DEF CompareToWildcardString
    <3> QED BY <1>6, <3>5, <3>6, WildcardsCompareBeginnings
  <2> QED BY <1>2, <2>1, <2>2 DEF WildcardComparesPrefix
<1>9. VersionReadsBack
  <2>1. ASSUME IsValid(c)
        PROVE  VersionOf(GetString(c)) = c /\ Len(GetString(c)) = Len(string) /\ GetString(c)[1] = string[1]
    BY <1>3, <2>1, VersionsReadBack DEF IsValid
  <2> QED BY <1>2, <2>1 DEF VersionReadsBack
<1> QED BY <1>1, <1>7, <1>8, <1>9 DEF NumeralsAreExact

\* For all widths of the integers, all texts and all numbers of pieces: what is
\* parsed is what its input says, what is written is read back, and versions compare
\* as their components do.
THEOREM NumeralsAreAlwaysExact == NumberSpec => []NumeralsAreExact
<1>1. NumberInit => NumberInv
  BY NumberInitInv
<1>2. NumberInv /\ [NumberNext]_numberVars => NumberInv'
  BY NumberNextInv
<1>3. NumberInv => NumeralsAreExact
  BY NumeralsExact
<1> QED BY <1>1, <1>2, <1>3, PTL DEF NumberSpec
=============================================================================
