------------------------------ MODULE TimeDelta ------------------------------
(***************************************************************************)
(* base::TimeDelta, and the times that are one from an origin: a           *)
(* ClampedNumeric<int64_t> of microseconds whose ends are infinities.      *)
(* Arithmetic is that of SafeMath on int64_t.  int is a narrow type.       *)
(***************************************************************************)
EXTENDS SafeMath

CONSTANTS
  PerMillisecond, PerSecond, PerHour, PerDay, \* microseconds
  EpochOffset,                                \* kTimeTToMicrosecondsOffset
  NoRead                                      \* nothing has been read

Int64 == TwiceWider(TRUE)
Int32 == [half |-> Half, signed |-> TRUE]
MaxDelta == MaxOf(Int64)
MinDelta == Lowest(Int64)

\* The largest count of hours does not fit an int, and that of days does: an int
\* of days is enough for every delta, and twice as many are not a delta.
ASSUME UnitsAssumption ==
  /\ {PerMillisecond, PerSecond, PerHour, PerDay} \subseteq Nat \ {0, 1}
  /\ MaxDelta \div PerHour > MaxOf(Int32) /\ PerHour * MaxOf(Int32) < MaxDelta
  /\ MaxDelta \div PerDay <= MaxOf(Int32) /\ PerDay * MaxOf(Int32) > MaxDelta
  /\ EpochOffset \in Nat /\ EpochOffset < MaxDelta /\ EpochOffset % PerMillisecond = 0

VARIABLES
  us,      \* the microseconds that the program has, as a delta or as a time
  meant,   \* ghost: what they should be
  drift,   \* ghost: how far a sum has taken an infinity from where it was to stay
  counted  \* what was last read from them: a unit, a way to round, a number

timeVars == <<us, meant, drift, counted>>

-----------------------------------------------------------------------------
Deltas == MinDelta..MaxDelta
is_inf(d) == d = MaxDelta \/ d = MinDelta
\* ClampedNumeric<int64_t>'s operators.
Sum64(x, y) == ClampedAdd(TRUE, Int64, x, Int64, y, Int64)
Difference64(x, y) == ClampedSub(TRUE, Int64, x, Int64, y, Int64)

\* The CHECKs: infinities are only combined where the result has a sign.
Addable(d, other) == is_inf(other) /\ is_inf(d) => d = other
Plus(d, other) == IF is_inf(other) THEN other ELSE Sum64(d, other)
Subtractable(d, other) == is_inf(other) => d # other
Minus(d, other) ==
  IF ~is_inf(other) THEN Difference64(d, other)
  ELSE IF other < 0 THEN MaxDelta ELSE MinDelta
Opposite(d) == IF is_inf(d) THEN (IF d < 0 THEN MaxDelta ELSE MinDelta) ELSE -d
Times(d, a) == ClampedMul(TRUE, Int64, d, Int64, a, Int64)
Over(d, a) == ClampedDiv(Int64, d, Int64, a, Int64)
magnitude(d) == SaturatedAbs(Int64, d)

Divisible(d, a) == (d # 0 \/ a # 0) /\ (is_inf(d) => ~is_inf(a))
IntDiv(d, a) ==
  IF ~is_inf(d) /\ a # 0 THEN Over(d, a)
  ELSE IF (d < 0) = (a < 0) THEN MaxDelta ELSE MinDelta
Modulo(d, a) ==
  IF is_inf(d) \/ a = 0 \/ is_inf(a) THEN d ELSE ClampedMod(Int64, d, Int64, a, Int64)

CeilWith(d, interval, remainder) ==
  IF is_inf(d) \/ interval = 0 THEN d
  ELSE Plus(Minus(d, remainder), IF d < 0 \/ remainder = 0 THEN 0 ELSE magnitude(interval))
CeilToMultiple(d, interval) == CeilWith(d, interval, Modulo(d, interval))
FloorWith(d, interval, remainder) ==
  IF is_inf(d) \/ interval = 0 THEN d
  ELSE Minus(Minus(d, remainder), IF d >= 0 \/ remainder = 0 THEN 0 ELSE magnitude(interval))
FloorToMultiple(d, interval) == FloorWith(d, interval, Modulo(d, interval))
RoundToMultiple(d, interval) ==
  LET half == Over(magnitude(interval), 2)
  IN IF is_inf(d) \/ interval = 0 THEN d
     ELSE IF is_inf(interval) THEN 0
     ELSE IF d < 0 THEN CeilToMultiple(Minus(d, half), interval)
     ELSE FloorToMultiple(Plus(d, half), interval)

\* TimeTicks::SnappedToNextTick.
Snapped(ticks, phase, interval) ==
  LET offset == Modulo(Difference64(phase, ticks), interval)
      after == IF offset # 0 /\ phase < ticks THEN interval ELSE 0
  IN Plus(ticks, Plus(offset, after))

-----------------------------------------------------------------------------
(* Units                                                                   *)

\* Seconds(n), InSeconds(), InSecondsFloored(), InMillisecondsRoundedUp() and
\* those of other units.
FromUnit(n, unit) == Times(n, unit)
InUnit(d, unit) == IF is_inf(d) THEN d ELSE Over(d, unit)
Excess(d, unit, result) == Times(result, unit) - d
Floored(d, unit) ==
  InUnit(d, unit) - (IF ~is_inf(d) /\ Excess(d, unit, Over(d, unit)) > 0 THEN 1 ELSE 0)
RoundedUp(d, unit) ==
  InUnit(d, unit) + (IF ~is_inf(d) /\ Excess(d, unit, Over(d, unit)) < 0 THEN 1 ELSE 0)

\* InDays and InDaysFloored cast an infinity to the end of int; InHours and
\* InMinutes cast what its microseconds divide to.
AsDays(days) ==
  IF is_inf(days) THEN (IF days < 0 THEN Lowest(Int32) ELSE MaxOf(Int32)) ELSE Cast(Int32, days)
InHours(d) == saturated_cast(Int32, Int64, Over(d, PerHour))

\* Time::FromMillisecondsSinceUnixEpoch(int64_t, Time*): a CheckedNumeric.
FromMilliseconds(ms) ==
  LET product == MulOp(TRUE, Int64, ms, Int64, PerMillisecond, Int64)
      sum == AddOp(TRUE, Int64, product.value, Int64, EpochOffset, Int64)
  IN IF product.ok THEN sum ELSE Failed
\* C++ division; no step of it overflows.
ToRoundedDownMilliseconds(t) ==
  LET submillis == Remainder(t, PerMillisecond)
  IN Quotient(t, PerMillisecond) - EpochOffset \div PerMillisecond
       - (IF submillis < 0 THEN 1 ELSE 0)

\* 0 stands for no time, in a time_t as in a Time.
FromTimeT(tt) ==
  CASE tt = 0 -> 0
    [] tt = MaxDelta -> MaxDelta
    [] OTHER -> Plus(EpochOffset, FromUnit(tt, PerSecond))
ToTimeT(t) ==
  CASE t = 0 -> 0
    [] is_inf(t) -> t
    [] OTHER -> Floored(Minus(t, EpochOffset), PerSecond)

-----------------------------------------------------------------------------
(* What the operations mean, in which nothing wraps or saturates.          *)

NearestDelta(d) == Nearest(Int64, d)
\* "Adding to TimeDelta::Max() leaves the value unchanged."
Absorbed(d, other) ==
  CASE is_inf(other) -> other
    [] is_inf(d) -> d
    [] OTHER -> NearestDelta(d + other)
\* It is so only of what has the sign of the infinity.
Drift(d, other) == IF is_inf(d) /\ ~is_inf(other) THEN NearestDelta(d + other) - d ELSE 0
FloorOf(d, interval) == interval * (d \div interval)
CeilOf(d, interval) == -FloorOf(-d, interval)

\* Multiples of an infinity are 0 and infinities.
FlooredTo(d, interval) ==
  CASE is_inf(d) \/ interval = 0 -> d
    [] ~is_inf(d) /\ is_inf(interval) -> IF d < 0 THEN MinDelta ELSE 0
    [] OTHER -> NearestDelta(FloorOf(d, Magnitude(interval)))
CeiledTo(d, interval) ==
  CASE is_inf(d) \/ interval = 0 -> d
    [] ~is_inf(d) /\ is_inf(interval) -> IF d > 0 THEN MaxDelta ELSE 0
    [] OTHER -> NearestDelta(CeilOf(d, Magnitude(interval)))
\* Halves go away from zero, and a delta within half an interval of an end to it.
RoundedTo(d, interval) ==
  LET i == Magnitude(interval)
      away == Magnitude(d) + i \div 2
      rounded == FloorOf(away, i)
      signed(x) == IF d < 0 THEN -x ELSE x
  IN CASE is_inf(d) \/ interval = 0 -> d
       [] ~is_inf(d) /\ interval # 0 /\ is_inf(interval) -> 0
       [] OTHER -> IF NearestDelta(signed(away)) \in {MaxDelta, MinDelta}
                   THEN NearestDelta(signed(away)) ELSE signed(rounded)
\* The first tick that is not before, where neither it nor the distance to the
\* phase is out of range.
NextTick(ticks, phase, interval) == phase + CeilOf(ticks - phase, interval)

-----------------------------------------------------------------------------
TimeInit == us = 0 /\ meant = 0 /\ drift = 0 /\ counted = NoRead

ComputesBut(r, m, d) == us' = r /\ meant' = m /\ drift' = d /\ UNCHANGED counted
Computes(r, m) == ComputesBut(r, m, 0)
Counts(unit, how, n) == counted' = <<unit, how, n>> /\ UNCHANGED <<us, meant, drift>>

\* delta + other and delta - other, also for times; -delta, magnitude.  Subtracting
\* "should leave the value unchanged but currently changes it".
AddOther(other) ==
  \/ /\ Addable(us, other)
     /\ ComputesBut(Plus(us, other), Absorbed(us, other), Drift(us, other))
  \/ /\ Subtractable(us, other)
     /\ Computes(Minus(us, other),
                 IF is_inf(other) THEN NearestDelta(-2 * other) ELSE NearestDelta(us - other))
Sign ==
  \/ Computes(Opposite(us), NearestDelta(IF us = MaxDelta THEN MinDelta ELSE -us))
  \/ Computes(magnitude(us), NearestDelta(Magnitude(us)))

\* * and / by a number, IntDiv and % by a delta.
Scale(a) ==
  \/ Computes(Times(us, a), NearestDelta(us * a))
  \/ a # 0 /\ Computes(Over(us, a), NearestDelta(Quotient(us, a)))
  \/ /\ Divisible(us, a)
     /\ Computes(IntDiv(us, a),
                 CASE a = 0 -> IF us < 0 THEN MinDelta ELSE MaxDelta
                   [] a # 0 /\ is_inf(us) -> IF (us < 0) = (a < 0) THEN MaxDelta ELSE MinDelta
                   [] OTHER -> NearestDelta(Quotient(us, a)))
  \/ Computes(Modulo(us, a),
              IF is_inf(us) \/ a = 0 \/ is_inf(a) THEN us ELSE Remainder(us, a))

\* Not of FiniteMin(), a finite interval whose magnitude is Max().
ToMultiple(interval) ==
  /\ interval # MinDelta + 1
  /\ \/ Computes(CeilToMultiple(us, interval), CeiledTo(us, interval))
     \/ Computes(FloorToMultiple(us, interval), FlooredTo(us, interval))
     \/ Computes(RoundToMultiple(us, interval), RoundedTo(us, interval))
SnapToNextTick(phase, interval) ==
  /\ ~is_inf(NearestDelta(phase - us)) /\ InType(Int64, NextTick(us, phase, interval))
  /\ Computes(Snapped(us, phase, interval), NextTick(us, phase, interval))

\* A number of units becomes a delta.
Units == {PerMillisecond, PerSecond, PerHour, PerDay}
SetUnits(n, unit) == Computes(FromUnit(n, unit), NearestDelta(n * unit))
SetMilliseconds(ms) ==
  LET r == FromMilliseconds(ms)
      t == ms * PerMillisecond + EpochOffset
  IN Computes(r.value, IF InType(Int64, t) /\ InType(Int64, t - EpochOffset) THEN t ELSE 0)
SetTimeT(tt) ==
  Computes(FromTimeT(tt),
           IF tt = 0 THEN 0 ELSE Absorbed(EpochOffset, NearestDelta(tt * PerSecond)))

Read ==
  \/ \E unit \in {PerMillisecond, PerSecond} : Counts(unit, "truncated", InUnit(us, unit))
  \/ Counts(PerSecond, "floored", Floored(us, PerSecond))
  \/ Counts(PerMillisecond, "rounded_up", RoundedUp(us, PerMillisecond))
  \/ Counts(PerDay, "int_truncated", AsDays(InUnit(us, PerDay)))
  \/ Counts(PerDay, "int_floored", AsDays(Floored(us, PerDay)))
  \/ Counts(PerHour, "int_truncated", InHours(us))
  \/ Counts(PerMillisecond, "since_epoch", ToRoundedDownMilliseconds(us))
  \/ Counts(PerSecond, "time_t", ToTimeT(us))

TimeReturn == counted # NoRead /\ counted' = NoRead /\ UNCHANGED <<us, meant, drift>>
TimeNext ==
  \/ /\ counted = NoRead
     /\ \/ \E d \in Deltas :
             \/ AddOther(d) \/ Scale(d) \/ ToMultiple(d)
             \/ SetMilliseconds(d) \/ SetTimeT(d)
             \/ \E unit \in Units : SetUnits(d, unit)
        \/ \E phase \in Deltas, interval \in 1..(MaxDelta - 1) : SnapToNextTick(phase, interval)
        \/ Sign \/ Read
  \/ TimeReturn

TimeSpec == TimeInit /\ [][TimeNext]_timeVars

-----------------------------------------------------------------------------
\* The second half of TimesAreExact.
CountsAsNamed ==
  counted # NoRead =>
    LET unit == counted[1]
        how == counted[2]
        n == counted[3]
        since == us - EpochOffset
    IN CASE how = "since_epoch" -> n = since \div unit
         [] how = "time_t" /\ us = 0 -> n = 0
         [] how = "time_t" /\ us # 0 ->
              IF is_inf(us) THEN n = us
              ELSE IF is_inf(NearestDelta(since)) THEN n = NearestDelta(since)
              ELSE n = since \div unit
         [] is_inf(us) /\ unit # PerHour -> FromUnit(n, unit) = us
         [] OTHER -> LET exact == CASE how = "floored" \/ how = "int_floored" -> us \div unit
                                    [] how = "rounded_up" -> -((-us) \div unit)
                                    [] OTHER -> Quotient(us, unit)
                     IN n = IF unit = PerHour THEN Nearest(Int32, exact) ELSE exact

\* A delta or a time is what the operations that made it say, to the nearest
\* that an int64_t holds: an infinity absorbs what it is added to and what is added
\* to it, but drifts, against the comment on Max(), by something finite of the other
\* sign that is added to it; one that something finite is subtracted from is changed
\* by that, as the comment says; rounding is to a multiple of the interval whatever the signs of the two, and
\* a snapped tick is the first one that is not before.  It is read in whole units,
\* rounded as the name of the function says; what does not fit an int is the end
\* of int; a reader that makes a delta of the number again has the infinity that
\* was read, but for hours, whose ends of int are finite; and a time is read in
\* units since the epoch, rounded down, so that the time of the number is the
\* start of that unit.
TimesAreExact == us = meant + drift /\ CountsAsNamed
=============================================================================
