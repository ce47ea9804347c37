------------------------------ MODULE StringNumber ------------------------------
(***************************************************************************)
(* string_number_conversions for the integers, and base::Version, which is *)
(* built on them.  A character is a string of length one.  The dots of a   *)
(* version are left to SplitString: a version string is its pieces.        *)
(***************************************************************************)
EXTENDS Numerics, SequencesExt, FiniteSetsExt

CONSTANTS
  Inputs,        \* what is parsed as a number
  VersionPieces, \* what is between the dots of a version
  MaxPieces

\* The first digit is not checked for overflow.
ASSUME DigitsAssumption ==
  16 <= Half /\ MaxPieces \in Nat /\ \A s \in Inputs \cup VersionPieces : s \in Seq(Range(s))

VARIABLES
  parsed,  \* the call of StringToNumber that was made, and its result
  version  \* the string of a Version and its components_

numberVars == <<parsed, version>>

-----------------------------------------------------------------------------
(* Numbers and their digits                                                *)

Numerals == <<"0", "1", "2", "3", "4", "5", "6", "7", "8", "9", "A", "B", "C", "D", "E", "F">>
CharToDigit(base, c) == {d \in 0..(base - 1) : Numerals[d + 1] = c}
DigitOf(base, c) == CHOOSE d \in CharToDigit(base, c) : TRUE

\* From the unsigned absolute value, the last digit first.
IntToString(t, v) ==
  LET abs == Cast(MakeUnsigned(t), IF IsNegative(t, v) THEN -v ELSE v)
      reversed[res \in 0..abs] ==
        <<Numerals[(res % 10) + 1]>> \o IF res \div 10 = 0 THEN <<>> ELSE reversed[res \div 10]
  IN (IF IsNegative(t, v) THEN <<"-">> ELSE <<>>) \o Reverse(reversed[abs])

\* The quotient and the remainder of C++, that of kMin being negative.
Quotient(v, base) == IF v < 0 THEN -((-v) \div base) ELSE v \div base
Remainder(v, base) == v - Quotient(v, base) * base

\* Sign::CheckBounds.
OutOfBoundsMutant(t, base, negative, value, digit) ==
  IF negative THEN \/ value < Quotient(Lowest(t), base)
                   \/ value = Quotient(Lowest(t), base) /\ digit >= -Remainder(Lowest(t), base)
  ELSE \/ value > Quotient(MaxOf(t), base)
       \/ value = Quotient(MaxOf(t), base) /\ digit > Remainder(MaxOf(t), base)
OutOfBounds(t, base, negative, value, digit) ==
  IF negative THEN \/ value < Quotient(Lowest(t), base)
                   \/ value = Quotient(Lowest(t), base) /\ digit > -Remainder(Lowest(t), base)
  ELSE \/ value > Quotient(MaxOf(t), base)
       \/ value = Quotient(MaxOf(t), base) /\ digit > Remainder(MaxOf(t), base)

\* A round of the loop of Base<Sign>::Invoke, which returns when a result is not
\* valid.  Whether there was a digit before is "current != begin".
ParseDigit(t, base, negative, result, c) ==
  LET d == DigitOf(base, c)
  IN IF ~result.valid THEN result
     ELSE IF CharToDigit(base, c) = {} THEN [result EXCEPT !.valid = FALSE]
     ELSE IF result.any /\ OutOfBounds(t, base, negative, result.value, d)
     THEN [result EXCEPT !.value = IF negative THEN Lowest(t) ELSE MaxOf(t), !.valid = FALSE]
     ELSE [result EXCEPT !.any = TRUE,
             !.value = Cast(t, Cast(t, @ * base) + IF negative THEN -d ELSE d)]

HasPrefix(base, s) == base = 16 /\ Len(s) > 2 /\ s[1] = "0" /\ s[2] = "x"
NoDigits == [value |-> 0, valid |-> TRUE, any |-> FALSE]
Invoke(t, base, negative, s) ==
  LET digits == IF HasPrefix(base, s) THEN SubSeq(s, 3, Len(s)) ELSE s
      last == FoldLeft(LAMBDA r, c : ParseDigit(t, base, negative, r, c), NoDigits, digits)
  IN [value |-> last.value, valid |-> s # <<>> /\ last.valid]

Space == " "
StringToNumber(t, base, input) ==
  LET begin == Min({i \in 1..(Len(input) + 1) : i > Len(input) \/ input[i] # Space})
      s == SubSeq(input, begin, Len(input))
      starts(cs) == s # <<>> /\ s[1] \in cs
      result == IF starts({"-"}) /\ ~t.signed THEN [value |-> 0, valid |-> FALSE]
                ELSE Invoke(t, base, starts({"-"}), IF starts({"-", "+"}) THEN Tail(s) ELSE s)
  IN [result EXCEPT !.valid = @ /\ begin = 1]

-----------------------------------------------------------------------------
(* Version                                                                 *)

Uint32 == [half |-> WideHalf, signed |-> FALSE]

\* Throws out leading zeros.
IsCanonical(n, piece) == IntToString(Uint32, n) = piece

\* The loop stops at a piece that is not a number, and leaves those before it.
AppendNumber(acc, k, piece, n) ==
  IF acc.success /\ n.valid /\ piece[1] # "+" /\ (k = 1 => IsCanonical(n.value, piece))
  THEN [acc EXCEPT !.parsed = Append(@, n.value)]
  ELSE [acc EXCEPT !.success = FALSE]
ParseVersionNumbers(pieces) ==
  FoldLeft(LAMBDA acc, k : AppendNumber(acc, k, pieces[k], StringToNumber(Uint32, 10, pieces[k])),
           [parsed |-> <<>>, success |-> pieces # <<>>], [k \in 1..Len(pieces) |-> k])

VersionOf(pieces) ==
  LET numbers == ParseVersionNumbers(pieces) IN IF numbers.success THEN numbers.parsed ELSE <<>>
IsValid(components) == components # <<>>
GetString(components) == [i \in DOMAIN components |-> IntToString(Uint32, components[i])]

\* What one has more than the other makes a difference unless it is zero.
MoreThan(c, count) == \E i \in (count + 1)..Len(c) : c[i] > 0
CompareVersionComponents(c1, c2) ==
  LET count == Min({Len(c1), Len(c2)})
      differ == {i \in 1..count : c1[i] # c2[i]}
  IN IF differ # {} THEN IF c1[Min(differ)] > c2[Min(differ)] THEN 1 ELSE -1
     ELSE IF MoreThan(c1, count) THEN 1 ELSE IF MoreThan(c2, count) THEN -1 ELSE 0

Wildcard == <<"*">>
EndsWithWildcard(pieces) == Len(pieces) > 1 /\ Last(pieces) = Wildcard
IsValidWildcardString(pieces) ==
  IsValid(VersionOf(IF EndsWithWildcard(pieces) THEN Front(pieces) ELSE pieces))

\* A version that is larger than the numbers before the wildcard, but begins with
\* them, is not larger than the wildcard.
BeginsWith(components, numbers) ==
  \A i \in 1..Min({Len(components), Len(numbers)}) : components[i] = numbers[i]
CompareToWildcardString(components, pieces) ==
  IF ~EndsWithWildcard(pieces) THEN CompareVersionComponents(components, VersionOf(pieces))
  ELSE LET numbers == ParseVersionNumbers(Front(pieces)).parsed
           comparison == CompareVersionComponents(components, numbers)
       IN IF comparison = 1 /\ BeginsWith(components, numbers) THEN 0 ELSE comparison

-----------------------------------------------------------------------------
NoParse == [type |-> Uint32, base |-> 10, input |-> <<>>, value |-> 0, valid |-> FALSE]
NumberInit == parsed = NoParse /\ version = [string |-> <<>>, components |-> <<>>]

\* Base 10 and, as HexStringToInt and the like, base 16.
Parse(t, base, input) ==
  /\ \E result \in {StringToNumber(t, base, input)} :
       parsed' = [type |-> t, base |-> base, input |-> input,
                  value |-> result.value, valid |-> result.valid]
  /\ UNCHANGED version
AssignVersion(pieces) ==
  /\ version' = [string |-> pieces, components |-> VersionOf(pieces)]
  /\ UNCHANGED parsed
ClearNumber == parsed' = NoParse /\ version' = [string |-> <<>>, components |-> <<>>]

NumberNext ==
  \/ /\ parsed = NoParse /\ version.string = <<>>
     /\ \/ \E t \in Types, base \in {10, 16}, input \in Inputs : Parse(t, base, input)
        \/ \E pieces \in SeqOf(VersionPieces, MaxPieces) : AssignVersion(pieces)
  \/ ClearNumber

NumberSpec == NumberInit /\ [][NumberNext]_numberVars

-----------------------------------------------------------------------------
\* The number that a sequence of digits is.
Magnitude(base, s) == FoldLeft(LAMBDA n, c : n * base + DigitOf(base, c), 0, s)

\* What s says in integers: the digits behind whitespace, a sign and, in base 16, a
\* prefix, up to the first character that is none.
Reading(base, s) ==
  LET sign == Min({i \in 1..(Len(s) + 1) : i > Len(s) \/ s[i] # Space})
      digits == IF sign <= Len(s) /\ s[sign] \in {"-", "+"} THEN sign + 1 ELSE sign
      prefix == base = 16 /\ Len(s) > digits + 1 /\ s[digits] = "0" /\ s[digits + 1] = "x"
      first == IF prefix THEN digits + 2 ELSE digits
      end == Min({i \in first..(Len(s) + 1) : i > Len(s) \/ CharToDigit(base, s[i]) = {}})
  IN [negative |-> digits > sign /\ s[sign] = "-",
      magnitude |-> Magnitude(base, SubSeq(s, first, end - 1)),
      whole |-> sign = 1 /\ end > first /\ end = Len(s) + 1]

\* The result is what r reads, or the end of the type it falls off, and is reported
\* as valid iff it is exact, nothing else is in the input and the number fits:
\* unsigned types take no sign but "+".
ReadsExactly(t, result, r) ==
  LET value == IF r.negative THEN -r.magnitude ELSE r.magnitude
      refused == r.negative /\ ~t.signed
  IN /\ result.value = IF refused THEN 0 ELSE Max({Lowest(t), Min({MaxOf(t), value})})
     /\ result.valid <=> r.whole /\ ~refused /\ InType(t, value)
ReadsBack(t, v) ==
  StringToNumber(t, 10, IntToString(t, v)) = [value |-> v, valid |-> TRUE]

\* The value of a parse is what its input says.  What IntToString writes is read
\* back.  (strings/string_number_conversions_internal.h, StringToNumber.)
ParsesExactly ==
  /\ ReadsExactly(parsed.type, [value |-> parsed.value, valid |-> parsed.valid],
                  Reading(parsed.base, parsed.input))
  /\ parsed.valid => ReadsBack(parsed.type, parsed.value)

Strings == SeqOf(VersionPieces, MaxPieces)
ValidVersions == {VersionOf(pieces) : pieces \in Strings} \ {<<>>}
WildcardStrings == {pieces \in Strings : IsValidWildcardString(pieces)}

\* c with zeros after it, or cut, to n components, and the order of such.
Sized(c, n) == [i \in 1..n |-> IF i <= Len(c) THEN c[i] ELSE 0]
Sign(c1, c2) ==
  LET n == Max({Len(c1), Len(c2)})
      less(a, b) == \E i \in 1..n : a[i] < b[i] /\ \A k \in 1..(i - 1) : a[k] = b[k]
  IN IF less(Sized(c1, n), Sized(c2, n)) THEN -1
     ELSE IF less(Sized(c2, n), Sized(c1, n)) THEN 1 ELSE 0

\* Versions compare as their components do, the missing ones being zeros.
\* (version.cc, CompareTo, from which all six comparison operators are made.)
VersionsCompareAsPadded ==
  IsValid(version.components) =>
    \A other \in ValidVersions :
      CompareVersionComponents(version.components, other) = Sign(version.components, other)

\* A version compares with a wildcard string as as many of its components as there
\* are numbers before the wildcard compare with those numbers.
\* (version.cc, CompareToWildcardString.)
WildcardComparesPrefix ==
  IsValid(version.components) =>
    \A pieces \in WildcardStrings :
      CompareToWildcardString(version.components, pieces) =
        IF ~EndsWithWildcard(pieces) THEN Sign(version.components, VersionOf(pieces))
        ELSE LET numbers == VersionOf(Front(pieces))
             IN Sign(Sized(version.components, Len(numbers)), numbers)

\* What GetString writes of a version is a string of the same version, and is the
\* string it came from unless that has leading zeros after the first number.
\* (version.cc, the constructor and GetString.)
VersionReadsBack ==
  IsValid(version.components) =>
    LET string == GetString(version.components)
    IN /\ VersionOf(string) = version.components
       /\ Len(string) = Len(version.string) /\ string[1] = version.string[1]

\* Numbers, and the versions made of them, are read and compared exactly.
NumeralsAreExact ==
  ParsesExactly /\ VersionsCompareAsPadded /\ WildcardComparesPrefix /\ VersionReadsBack
=============================================================================
