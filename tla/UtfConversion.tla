----------------------------- MODULE UtfConversion -----------------------------
(***************************************************************************)
(* The conversions between UTF-8, UTF-16 and the UTF-32 of a wide wchar_t, *)
(* and the functions that read UTF-8.  A text is the sequence of its code  *)
(* units, numbers of their real size.  A step is a round of the loop of    *)
(* DoUTFConversion.                                                        *)
(***************************************************************************)
EXTENDS Integers, SequencesExt, FiniteSetsExt

CONSTANT Texts \* what is converted: for each encoding a set of sequences of units

VARIABLES
  conversion, \* the encodings and src
  i,       \* the index in src
  dest,    \* what is written of the buffer
  success,
  phase

utfVars == <<conversion, i, dest, success, phase>>

Encodings == {"8", "16", "32"}
kErrorCodePoint == 65533
CBU_SENTINEL == -1

IsValidCodepoint(c) == c \in 0..55295 \/ c \in 57344..1114111
IsNonCharacter(c) == c \in 64976..65007 \/ c % 65536 \in {65534, 65535}
IsValidCharacter(c) == IsValidCodepoint(c) /\ ~IsNonCharacter(c)

\* How many units one unit becomes at most.
SizeCoefficient(from, to) ==
  CASE from = "16" /\ to = "8" -> 3 [] from = "32" /\ to = "8" -> 4
    [] from = "32" /\ to = "16" -> 2 [] OTHER -> 1

-----------------------------------------------------------------------------
(* The macros of ICU                                                       *)

Trail == 128..191
\* CBU8_LEAD3_T1_BITS and CBU8_LEAD4_T1_BITS.
Lead3T1Mutant(lead) == {t \in Trail : lead = 224 => t >= 160}
Lead3T1(lead) ==
  {t \in Trail : /\ lead = 224 => t \div 32 = 5
                 /\ lead = 237 => t \div 32 = 4}
Lead4T1(lead) ==
  {t \in Trail : lead - 240 \in IF t \div 16 = 8 THEN 1..4 ELSE 0..3}

\* What may follow a byte.
Trails(lead) ==
  IF lead \in 194..223 THEN <<Trail>>
  ELSE IF lead \in 224..239 THEN <<Lead3T1(lead), Trail>>
  ELSE IF lead \in 240..244 THEN <<Lead4T1(lead), Trail, Trail>>
  ELSE <<>>

\* CBU8_NEXT: the code point at j in the first n units of s, and the index behind
\* it, or behind as much as could be the beginning of one.
CBU8_NEXT(s, j, n) ==
  LET lead == s[j + 1]
      trails == Trails(lead)
      good == Max({k \in 0..Len(trails) : j + k < n /\ \A m \in 1..k : s[j + 1 + m] \in trails[m]})
      payload == lead % (CASE Len(trails) = 1 -> 32 [] Len(trails) = 2 -> 16 [] OTHER -> 8)
  IN [index |-> j + 1 + good,
      c |-> IF lead < 128 THEN lead
            ELSE IF trails = <<>> \/ good < Len(trails) THEN CBU_SENTINEL
            ELSE FoldLeft(LAMBDA c, t : (c * 64) + (t % 64), payload, SubSeq(s, j + 2, j + 1 + good))]

CBU8_APPEND(c) ==
  IF c <= 127 THEN <<c>>
  ELSE IF c <= 2047 THEN <<192 + (c \div 64), 128 + (c % 64)>>
  ELSE IF c <= 65535 THEN <<224 + (c \div 4096), 128 + ((c \div 64) % 64), 128 + (c % 64)>>
  ELSE <<240 + (c \div 262144), 128 + ((c \div 4096) % 64), 128 + ((c \div 64) % 64), 128 + (c % 64)>>

IsLead(u) == u \in 55296..56319
IsTrail(u) == u \in 56320..57343
GetSupplementary(lead, trail) == (lead - 55296) * 1024 + (trail - 56320) + 65536
CBU16_APPEND(c) == IF c <= 65535 THEN <<c>> ELSE <<55232 + (c \div 1024), 56320 + (c % 1024)>>

UnicodeAppendUnsafe(to, c) ==
  CASE to = "8" -> CBU8_APPEND(c) [] to = "16" -> CBU16_APPEND(c) [] to = "32" -> <<c>>

-----------------------------------------------------------------------------
(* DoUTFConversion                                                         *)

\* The code point at j, and the index behind it.
Decode16(s, j) ==
  IF j + 1 < Len(s) /\ IsLead(s[j + 1]) /\ IsTrail(s[j + 2])
  THEN [index |-> j + 2, c |-> GetSupplementary(s[j + 1], s[j + 2])]
  ELSE [index |-> j + 1, c |-> s[j + 1]]
Decode(from, s, j) ==
  CASE from = "8" -> CBU8_NEXT(s, j, Len(s))
    [] from = "16" -> Decode16(s, j)
    [] from = "32" -> [index |-> j + 1, c |-> s[j + 1]]
OrError(c) == IF IsValidCodepoint(c) THEN c ELSE kErrorCodePoint

NoConversion == [from |-> "8", to |-> "16", src |-> <<>>]
UtfInit == conversion = NoConversion /\ i = 0 /\ dest = <<>> /\ success = TRUE /\ phase = "idle"

IsStringASCII(s) == \A k \in DOMAIN s : s[k] \in 0..127

\* UTFConversion: ASCII is copied.
Convert(from, to, src) ==
  /\ phase = "idle"
  /\ conversion' = [from |-> from, to |-> to, src |-> src]
  /\ IF IsStringASCII(src) THEN dest' = src /\ phase' = "done"
     ELSE dest' = <<>> /\ phase' = "loop"
  /\ UNCHANGED <<i, success>>

Round ==
  /\ phase = "loop"
  /\ IF i < Len(conversion.src)
     THEN LET read == Decode(conversion.from, conversion.src, i)
          IN /\ dest' = dest \o UnicodeAppendUnsafe(conversion.to, OrError(read.c))
             /\ success' = (success /\ IsValidCodepoint(read.c))
             /\ i' = read.index
             /\ UNCHANGED phase
     ELSE phase' = "done" /\ UNCHANGED <<i, dest, success>>
  /\ UNCHANGED conversion

EndConversion ==
  /\ phase = "done"
  /\ conversion' = NoConversion /\ i' = 0 /\ dest' = <<>> /\ success' = TRUE /\ phase' = "idle"

UtfNext ==
  \/ phase = "idle" /\ \E from \in Encodings : \E to \in Encodings \ {from}, src \in Texts[from] :
                         Convert(from, to, src)
  \/ Round \/ EndConversion

UtfSpec == UtfInit /\ [][UtfNext]_utfVars

-----------------------------------------------------------------------------
(* What reads UTF-8                                                        *)

\* DoIsStringUTF8, of IsStringUTF8 and of IsStringUTF8AllowingNoncharacters.
IsStringUTF8(s, allows) ==
  LET valid[j \in 0..Len(s)] ==
        j = Len(s) \/ LET read == CBU8_NEXT(s, j, Len(s))
                      IN /\ IF allows THEN IsValidCodepoint(read.c) ELSE IsValidCharacter(read.c)
                         /\ valid[read.index]
  IN valid[0]

\* Nullopt is the sentinel.
CountUnicodeCharacters(s, limit) ==
  LET from[j \in 0..Len(s), count \in 0..limit] ==
        IF count = limit \/ j = Len(s) THEN count
        ELSE LET read == CBU8_NEXT(s, j, Len(s))
             IN IF IsValidCodepoint(read.c) THEN from[read.index, count + 1] ELSE CBU_SENTINEL
  IN from[0, 0]

\* Backwards from the cut to a character that is complete before it.
TruncateUTF8ToByteSize(s, byte_size) ==
  LET read(j) == CBU8_NEXT(s, j, byte_size)
      whole == {j \in 0..(byte_size - 1) : IsValidCharacter(read(j).c)}
  IN IF byte_size > Len(s) THEN s
     ELSE IF whole = {} THEN <<>>
     ELSE SubSeq(s, 1, read(Max(whole)).index)

-----------------------------------------------------------------------------
(* What well-formed text is                                                *)

\* The ends of the numbers that sequences of n bytes are for; how many bytes a lead
\* announces; the number of a sequence, by the pattern of its bits.
Lowest8 == <<0, 128, 2048, 65536>>
Highest8 == <<127, 2047, 65535, 1114111>>
LengthBy(lead) ==
  CASE lead < 128 -> 1 [] lead \in 192..223 -> 2 [] lead \in 224..239 -> 3 [] lead \in 240..247 -> 4
    [] OTHER -> 0
ValueOf(bytes) ==
  LET payload == bytes[1] % (CASE Len(bytes) = 1 -> 128 [] Len(bytes) = 2 -> 32 [] Len(bytes) = 3 -> 16 [] OTHER -> 8)
  IN FoldLeft(LAMBDA c, t : (c * 64) + (t % 64), payload, Tail(bytes))

\* Whether bytes are the beginning of a sequence for a valid code point: the
\* numbers that they leave possible are an interval.
BeginsCharacter(bytes) ==
  LET n == LengthBy(bytes[1])
      filled(t) == ValueOf([k \in 1..n |-> IF k <= Len(bytes) THEN bytes[k] ELSE t])
  IN /\ n >= Len(bytes) /\ \A k \in 2..Len(bytes) : bytes[k] \in Trail
     /\ LET low == Max({filled(128), Lowest8[n]})
            high == Min({filled(191), Highest8[n]})
        IN low <= high /\ ~(55296 <= low /\ high <= 57343)
IsCharacter(bytes) == BeginsCharacter(bytes) /\ Len(bytes) = LengthBy(bytes[1])

\* The units at j that are a character, or the longest part of them that could
\* become one, or one unit.
UnitsAt(from, s, j) ==
  CASE from = "8" ->
         SubSeq(s, j + 1, j + Max({1} \cup {k \in 1..(Len(s) - j) : BeginsCharacter(SubSeq(s, j + 1, j + k))}))
    [] from = "16" ->
         SubSeq(s, j + 1, IF j + 2 <= Len(s) /\ IsLead(s[j + 1]) /\ IsTrail(s[j + 2]) THEN j + 2 ELSE j + 1)
    [] from = "32" -> <<s[j + 1]>>
CodePointOf(from, units) ==
  CASE from = "8" -> IF IsCharacter(units) THEN ValueOf(units) ELSE CBU_SENTINEL
    [] from = "16" -> IF Len(units) = 2 THEN GetSupplementary(units[1], units[2]) ELSE units[1]
    [] from = "32" -> units[1]
CodePoints(from, s) ==
  LET at[j \in 0..Len(s)] ==
        IF j = Len(s) THEN <<>>
        ELSE LET units == UnitsAt(from, s, j)
             IN <<CodePointOf(from, units)>> \o at[j + Len(units)]
  IN at[0]
AllValid(cs, Validator(_)) == \A k \in DOMAIN cs : Validator(cs[k])

\* A conversion has the code points of its text, in order, and in the place of
\* each ill-formed part one U+FFFD; it succeeds if there is none.
\* (strings/utf_string_conversions.cc, DoUTFConversion.)
ConvertsCodePoints ==
  phase = "done" =>
    LET cs == CodePoints(conversion.from, conversion.src)
    IN /\ CodePoints(conversion.to, dest) = [k \in DOMAIN cs |-> OrError(cs[k])]
       /\ success <=> AllValid(cs, IsValidCodepoint)

\* What is converted without an error is the text again when it is converted back.
Encoded(to, cs) == FlattenSeq([k \in DOMAIN cs |-> UnicodeAppendUnsafe(to, cs[k])])
ConvertsBack ==
  phase = "done" /\ success =>
    Encoded(conversion.from, CodePoints(conversion.to, dest)) = conversion.src

\* The buffer, whose size is set before the loop, is never overrun by what is
\* appended without a check.  (utf_string_conversions.cc, UTFConversion.)
FitsTheBuffer == Len(dest) <= Len(conversion.src) * SizeCoefficient(conversion.from, conversion.to)

\* What is cut from s, whose code points are cs, to fit in size, never ends within
\* a character: of a valid text it is the longest part that fits and is valid, and
\* of any text that is too long one that ends with a character, or nothing.
CutsBetweenCharacters(s, cs, size, cut) ==
  /\ IsPrefix(cut, s) /\ Len(cut) <= size
  /\ AllValid(cs, IsValidCharacter) =>
       Len(cut) = Max({n \in 0..Min({size, Len(s)}) :
                         AllValid(CodePoints("8", SubSeq(s, 1, n)), IsValidCharacter)})
  /\ size <= Len(s) /\ cut # <<>> =>
       \E j \in 1..Len(cut) : /\ IsCharacter(SubSeq(cut, j, Len(cut)))
                              /\ IsValidCharacter(ValueOf(SubSeq(cut, j, Len(cut))))

\* The validity and the number of the characters are those of the text.
ReadsCharacters(s, cs) ==
  /\ IsStringUTF8(s, FALSE) <=> AllValid(cs, IsValidCharacter)
  /\ IsStringUTF8(s, TRUE) <=> success
  /\ \A limit \in 0..(Len(s) + 1) :
       CountUnicodeCharacters(s, limit) =
         IF AllValid(SubSeq(cs, 1, Min({limit, Len(cs)})), IsValidCodepoint)
         THEN Min({limit, Len(cs)}) ELSE CBU_SENTINEL
  /\ \A size \in 0..(Len(s) + 1) :
       CutsBetweenCharacters(s, cs, size, TruncateUTF8ToByteSize(s, size))

\* Truncation never cuts a character, and what reads UTF-8 sees its characters.
\* (string_util.cc; utf_string_conversion_utils.cc.)
TruncatesBetweenCharacters ==
  phase = "done" /\ conversion.from = "8" =>
    ReadsCharacters(conversion.src, CodePoints("8", conversion.src))

\* The text is the same in every encoding, and is written within its buffer.
TextIsPreserved ==
  ConvertsCodePoints /\ ConvertsBack /\ FitsTheBuffer /\ TruncatesBetweenCharacters
=============================================================================
