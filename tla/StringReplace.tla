----------------------------- MODULE StringReplace -----------------------------
(***************************************************************************)
(* DoReplaceMatchesAfterOffset, which ReplaceChars and the functions that  *)
(* replace substrings share: the string is changed in place while it is    *)
(* searched.  A step is one round of a loop.  Positions count from zero,   *)
(* and Nowhere, the npos of the code, is larger than any of them.          *)
(***************************************************************************)
EXTENDS Integers, SequencesExt, FiniteSetsExt

CONSTANTS
  Text,        \* the characters of the strings
  Nul,         \* what resize() fills a string with
  MaxString,   \* how long str is at first
  MaxFind,     \* how long the string is that is looked for
  MaxReplace,  \* and the one that replaces it
  MaxOffset    \* the largest initial_offset

ASSUME ReplaceAssumption ==
  /\ Nul \notin Text
  /\ {MaxString, MaxFind, MaxReplace, MaxOffset} \subseteq Nat /\ MaxFind > 0

VARIABLES
  str,   \* *str
  call,  \* the arguments, the string at first, and whether its buffer has room
         \* for the string that it becomes
  write, \* write_offset, or the end of what was appended to the new buffer
  read,  \* read_offset, or pos, up to which src was appended; in the loop of
         \* equal lengths both are offset
  at     \* where the function is

replaceVars == <<str, call, write, read, at>>

-----------------------------------------------------------------------------
Nowhere == MaxString + 2 * MaxString * MaxReplace + 1

\* The part of s from position b up to e, and s with w from b on.
Between(s, b, e) == SubSeq(s, b + 1, e)
Overwrite(s, b, w) == [i \in DOMAIN s |-> IF i - b \in DOMAIN w THEN w[i - b] ELSE s[i]]
Resize(s, n) == [i \in 1..n |-> IF i <= Len(s) THEN s[i] ELSE Nul]

\* SubstringMatcher and CharacterMatcher.
MatchSize(c) == IF c.any THEN 1 ELSE Len(c.find)
IsMatch(c, s, i) ==
  IF c.any THEN s[i + 1] \in ToSet(c.find) ELSE Between(s, i, i + Len(c.find)) = c.find
Find(c, s, from) ==
  Min({Nowhere} \cup {i \in from..(Len(s) - MatchSize(c)) : IsMatch(c, s, i)})

\* The number of matches from i on, of which none overlaps another.
MatchCount(c, s, i) ==
  LET count[j \in 0..Len(s)] ==
        LET m == Find(c, s, j) IN IF m = Nowhere THEN 0 ELSE 1 + count[m + MatchSize(c)]
  IN count[i]

ExpansionMutant(c, s, first) ==
  IF Len(c.with) > MatchSize(c) THEN Len(c.with) - MatchSize(c) ELSE 0
Expansion(c, s, first) ==
  IF Len(c.with) > MatchSize(c)
  THEN (Len(c.with) - MatchSize(c)) * MatchCount(c, s, first) ELSE 0

\* The tail behind the first match is moved up, to the end of the longer string.
Spread(c, s, first, expansion) ==
  LET shift_src == first + MatchSize(c)
      shift_dst == shift_src + expansion
      padded == Resize(s, Max({Len(s), shift_dst}))
  IN Between(padded, 0, shift_dst) \o Between(s, shift_src, Len(s))

-----------------------------------------------------------------------------
Calls ==
  [find : SeqOf(Text, MaxFind), any : BOOLEAN, with : SeqOf(Text, MaxReplace),
   offset : 0..MaxOffset, first : BOOLEAN, fits : BOOLEAN, old : SeqOf(Text, MaxString)]
NoCall == [find |-> <<>>, any |-> FALSE, with |-> <<>>, offset |-> 0, first |-> FALSE,
           fits |-> TRUE, old |-> <<>>]

ReplaceInit ==
  str = <<>> /\ call = NoCall /\ write = 0 /\ read = 0 /\ at = "idle"

IsEmptyFind(c) == MatchSize(c) = 0
FirstMatch(c) == Find(c, c.old, c.offset)
Matches(c) == ~IsEmptyFind(c) /\ FirstMatch(c) # Nowhere

\* The function begins, and has returned or is in the loop l.
Goes(c, s, w, r, l) == call' = c /\ str' = s /\ write' = w /\ read' = r /\ at' = l

FindNothing(c) == ~Matches(c) /\ Goes(c, c.old, 0, 0, "done")
\* CharacterMatcher is not used to replace the first match only.
ReplaceFirst(c) ==
  /\ Matches(c) /\ c.first /\ ~c.any
  /\ Goes(c, Between(c.old, 0, FirstMatch(c)) \o c.with
             \o Between(c.old, FirstMatch(c) + MatchSize(c), Len(c.old)), 0, 0, "done")
ReplaceEvery(c) ==
  /\ Matches(c) /\ ~c.first
  /\ LET first_match == FirstMatch(c)
         expansion == Expansion(c, c.old, first_match)
     IN \/ /\ Len(c.with) = MatchSize(c) /\ c.fits
           /\ Goes(c, c.old, first_match, first_match, "overwrite")
        \/ /\ expansion > 0 /\ ~c.fits
           /\ Goes(c, <<>>, 0, 0, "append")
        \/ /\ Len(c.with) # MatchSize(c) /\ c.fits
           /\ Goes(c, IF expansion = 0 THEN c.old ELSE Spread(c, c.old, first_match, expansion),
                   first_match, first_match + expansion, "shift")

\* Where the search goes on: behind the replacement.
NextOffset == read + Len(call.with)
OverwriteRound ==
  /\ at = "overwrite"
  /\ str' = Overwrite(str, read, call.with)
  /\ LET next == Find(call, str', NextOffset)
     IN IF next = Nowhere THEN at' = "done" /\ UNCHANGED <<write, read>>
        ELSE read' = next /\ write' = next /\ UNCHANGED at
  /\ UNCHANGED call

\* src is the string at first; the number of matches is counted down.
AppendRound ==
  /\ at = "append"
  /\ LET match == Find(call, call.old, IF read = 0 THEN call.offset ELSE read)
         pos == match + MatchSize(call)
         grown == str \o Between(call.old, read, match) \o call.with
         last == Find(call, call.old, pos) = Nowhere
     IN /\ str' = IF last THEN grown \o Between(call.old, pos, Len(call.old)) ELSE grown
        /\ write' = Len(str') /\ read' = pos
        /\ at' = IF last THEN "done" ELSE at
  /\ UNCHANGED call

MatchFrom(s, i) == Min({Find(call, s, i), Len(s)})
ShiftRound ==
  /\ at = "shift"
  /\ LET written == Overwrite(str, write, call.with)
         w == write + Len(call.with)
         r == read + MatchSize(call)
         match == MatchFrom(written, r)
         moved == Overwrite(written, w, Between(written, r, match))
     IN /\ write' = w + (match - r)
        /\ read' = match
        /\ IF match < Len(str) THEN str' = moved /\ UNCHANGED at
           ELSE str' = Resize(moved, write') /\ at' = "done"
  /\ UNCHANGED call

Return ==
  /\ at = "done"
  /\ str' = <<>> /\ call' = NoCall /\ write' = 0 /\ read' = 0 /\ at' = "idle"

ReplaceNext ==
  \/ at = "idle" /\ \E c \in Calls : FindNothing(c) \/ ReplaceFirst(c) \/ ReplaceEvery(c)
  \/ OverwriteRound \/ AppendRound \/ ShiftRound \/ Return

ReplaceSpec == ReplaceInit /\ [][ReplaceNext]_replaceVars

-----------------------------------------------------------------------------
\* s from i on, with every match replaced or only the first one.
WithMatchesReplaced(c, s, i) ==
  LET from[j \in 0..Len(s)] ==
        IF j + MatchSize(c) > Len(s) THEN Between(s, j, Len(s))
        ELSE IF ~IsMatch(c, s, j) THEN <<s[j + 1]>> \o from[j + 1]
        ELSE c.with \o IF c.first THEN Between(s, j + MatchSize(c), Len(s))
                       ELSE from[j + MatchSize(c)]
  IN IF i > Len(s) \/ IsEmptyFind(c) THEN s ELSE Between(s, 0, i) \o from[i]

\* Whichever way the lengths and the capacity make it take, the string has every
\* match from the offset on replaced, from left to right, and no match that a
\* replacement makes.
ReplacesMatches == at = "done" => str = WithMatchesReplaced(call, call.old, call.offset)

\* What the comment says of the loop that moves within the buffer: writing never
\* gets ahead of reading, and the part that is not searched yet is still there.
UnsearchedIsIntact ==
  at = "shift" =>
    LET unsearched == read + MatchSize(call)
        left == Len(str) - unsearched
    IN /\ write <= read /\ write + Len(call.with) <= unsearched
       /\ unsearched <= Len(str)
       /\ Between(str, unsearched, Len(str)) = Between(call.old, Len(call.old) - left, Len(call.old))

\* The string that results is the right one, and each round leaves what it needs.
ReplacesInPlace == ReplacesMatches /\ UnsearchedIsIntact
=============================================================================
