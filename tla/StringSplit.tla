------------------------------ MODULE StringSplit ------------------------------
(***************************************************************************)
(* SplitString, SplitStringUsingSubstr, SplitStringIntoKeyValuePairs and   *)
(* what they use of string_util: a step is a round of their loop.  Then    *)
(* TrimString, and CollapseWhitespace with a step for each character.      *)
(* Positions count from zero, and a size_t has SizeModulus values.         *)
(***************************************************************************)
EXTENDS Integers, SequencesExt, FiniteSetsExt

CONSTANTS
  Blank, LineBreak, \* the characters of kWhitespaceASCII
  KeyDelimiter,     \* key_value_delimiter
  Delimiters,       \* of SplitString, sets of them as strings
  Substrings,       \* delimiters of SplitStringUsingSubstr
  Letter,
  MaxInput,         \* how long the input is
  SizeModulus

ASSUME SplitAssumption == MaxInput \in Nat /\ SizeModulus > MaxInput + 1

VARIABLES
  job,    \* the function that is called, with its arguments
  start,  \* start, begin_index, or the number of characters or pairs done
  result, \* the vector, or the string, that it makes
  flags,  \* in_whitespace and already_trimmed, or the success of the pairs
  stage   \* the loop that it is in

splitVars == <<job, start, result, flags, stage>>

Whitespace == {Blank, LineBreak}
Characters == Whitespace \cup {KeyDelimiter, Letter} \cup
              UNION {ToSet(d) : d \in Delimiters \cup Substrings}
npos == SizeModulus - 1

-----------------------------------------------------------------------------
(* The string views and their searches                                     *)

Part(s, b, e) == SubSeq(s, b + 1, e)
Substr(s, pos, n) == Part(s, pos, Min({Len(s), pos + n}))
FirstWhere(s, Holds(_), from) == Min({npos} \cup {i \in from..(Len(s) - 1) : Holds(i)})
LastWhere(s, Holds(_)) ==
  LET found == {i \in 0..(Len(s) - 1) : Holds(i)} IN IF found = {} THEN npos ELSE Max(found)

FindFirstOf(s, set, from) == FirstWhere(s, LAMBDA i : s[i + 1] \in set, from)
FindFirstNotOf(s, set) == FirstWhere(s, LAMBDA i : s[i + 1] \notin set, 0)
FindLastNotOf(s, set) == LastWhere(s, LAMBDA i : s[i + 1] \notin set)
FindString(s, d, from) ==
  FirstWhere(s, LAMBDA i : i + Len(d) <= Len(s) /\ Part(s, i, i + Len(d)) = d, from)

-----------------------------------------------------------------------------
(* TrimString                                                              *)

Positions == SUBSET {"leading", "trailing"}

\* The view: npos + 1 is zero, and what is less than zero is a large length.
TrimStringPiece(s, positions) ==
  LET begin == IF "leading" \in positions THEN FindFirstNotOf(s, Whitespace) ELSE 0
      end == IF "trailing" \in positions
             THEN (FindLastNotOf(s, Whitespace) + 1) % SizeModulus ELSE Len(s)
  IN Substr(s, Min({begin, Len(s)}), (end - begin) % SizeModulus)

\* The copy, and where it was trimmed.
AllTrimmed(s, positions) == IF s = <<>> THEN {} ELSE positions
TrimStringCopy(s, positions) ==
  LET last_char == (Len(s) - 1) % SizeModulus
      first_good == IF "leading" \in positions THEN FindFirstNotOf(s, Whitespace) ELSE 0
      last_good == IF "trailing" \in positions THEN FindLastNotOf(s, Whitespace) ELSE last_char
  IN IF s = <<>> \/ npos \in {first_good, last_good}
     THEN [output |-> <<>>, trimmed |-> AllTrimmed(s, positions)]
     ELSE [output |-> Substr(s, first_good, (last_good - first_good + 1) % SizeModulus),
           trimmed |-> (IF first_good = 0 THEN {} ELSE {"leading"}) \cup
                       (IF last_good = last_char THEN {} ELSE {"trailing"})]

-----------------------------------------------------------------------------
(* The loops                                                               *)

AppendPiece(piece) ==
  LET p == IF job.trim THEN TrimStringPiece(piece, {"leading", "trailing"}) ELSE piece
  IN result' = IF job.nonempty /\ p = <<>> THEN result ELSE Append(result, p)

NoJob == [call |-> "none", input |-> <<>>]
Jobs ==
  [call : {"split"}, input : SeqOf(Characters, MaxInput), delimiter : Delimiters,
   trim : BOOLEAN, nonempty : BOOLEAN] \cup
  [call : {"substr"}, input : SeqOf(Characters, MaxInput), delimiter : Substrings,
   trim : BOOLEAN, nonempty : BOOLEAN] \cup
  [call : {"pairs"}, input : SeqOf(Characters, MaxInput), delimiter : Substrings,
   trim : {TRUE}, nonempty : {TRUE}] \cup
  [call : {"collapse"}, input : SeqOf(Characters, MaxInput), breaks : BOOLEAN]

SplitInit == job = NoJob /\ start = 0 /\ result = <<>> /\ flags = {} /\ stage = "idle"

\* The functions have their empty cases: no piece of an empty input, and the
\* input as it is for an empty delimiter.  The output of CollapseWhitespace
\* begins as if it came behind whitespace.
Call(j) ==
  LET is_done == \/ j.call = "split" /\ j.input = <<>>
                 \/ j.call = "substr" /\ j.delimiter = <<>>
      only == j.call \in {"substr", "pairs"} /\ j.delimiter = <<>>
  IN /\ job' = j
     /\ start' = 0
     /\ result' = IF only THEN <<j.input>> ELSE <<>>
     /\ flags' = IF j.call = "collapse" THEN {"in_whitespace", "already_trimmed"}
                 ELSE {"success"}
     /\ stage' = IF is_done THEN "done"
                 ELSE IF j.call = "collapse" THEN "collapse"
                 ELSE IF only THEN "pairs" ELSE "split"

NextStartMutant(end) == end + Len(job.delimiter)
NextStart(end) == end + (IF job.call = "split" THEN 1 ELSE Len(job.delimiter))
SplitRound ==
  LET end == IF job.call = "split" THEN FindFirstOf(job.input, ToSet(job.delimiter), start)
             ELSE FindString(job.input, job.delimiter, start)
  IN /\ stage = "split"
     /\ IF end = npos
        THEN /\ AppendPiece(Part(job.input, start, Len(job.input)))
             /\ start' = 0
             /\ stage' = IF job.call = "pairs" THEN "pairs" ELSE "done"
        ELSE /\ AppendPiece(Part(job.input, start, end))
             /\ start' = NextStart(end)
             /\ UNCHANGED stage
     /\ UNCHANGED <<job, flags>>

ValueStart(remains) == FindFirstNotOf(remains, {KeyDelimiter})
\* AppendStringViewKeyValue: what is behind the first run of key delimiters is
\* the value.  What fails leaves an entry without a value, or without a key too.
KeyValue(piece) ==
  LET key_end == FindFirstOf(piece, {KeyDelimiter}, 0)
      remains == Part(piece, key_end, Len(piece))
      value == ValueStart(remains)
  IN IF key_end = npos THEN [key |-> <<>>, value |-> <<>>, success |-> FALSE]
     ELSE [key |-> Part(piece, 0, key_end),
           value |-> IF value = npos THEN <<>> ELSE Part(remains, value, Len(remains)),
           success |-> value # npos]
PairsRound ==
  /\ stage = "pairs"
  /\ IF start = Len(result) THEN stage' = "done" /\ UNCHANGED <<start, result, flags>>
     ELSE LET pair == KeyValue(result[start + 1])
          IN /\ result' = [result EXCEPT ![start + 1] = <<pair.key, pair.value>>]
             /\ flags' = IF pair.success THEN flags ELSE {}
             /\ start' = start + 1
             /\ UNCHANGED stage
  /\ UNCHANGED job

EndsCollapsed(s) == IF flags = {"in_whitespace"} THEN Front(s) ELSE s
CollapseRound ==
  /\ stage = "collapse"
  /\ IF start = Len(job.input)
     THEN result' = EndsCollapsed(result) /\ stage' = "done" /\ UNCHANGED <<start, flags>>
     ELSE LET c == job.input[start + 1]
              spaced == IF "in_whitespace" \in flags THEN result ELSE Append(result, Blank)
              breaks == job.breaks /\ "already_trimmed" \notin flags /\ c = LineBreak
          IN /\ start' = start + 1
             /\ IF c \in Whitespace
                THEN /\ result' = IF breaks THEN Front(spaced) ELSE spaced
                     /\ flags' = flags \cup {"in_whitespace"} \cup
                                 IF breaks THEN {"already_trimmed"} ELSE {}
                ELSE result' = Append(result, c) /\ flags' = {}
             /\ UNCHANGED stage
  /\ UNCHANGED job

Finish ==
  /\ stage = "done"
  /\ job' = NoJob /\ start' = 0 /\ result' = <<>> /\ flags' = {} /\ stage' = "idle"

SplitNext ==
  (stage = "idle" /\ \E j \in Jobs : Call(j)) \/ SplitRound \/ PairsRound \/ CollapseRound \/ Finish

SplitSpec == SplitInit /\ [][SplitNext]_splitVars

-----------------------------------------------------------------------------
(* What they promise                                                       *)

JoinString(parts, sep) ==
  IF parts = <<>> THEN <<>>
  ELSE FoldLeft(LAMBDA s, p : s \o sep \o p, parts[1], Tail(parts))

\* s without the whitespace at its ends.
Trimmed(s, positions) ==
  LET good == {i \in DOMAIN s : s[i] \notin Whitespace}
      from == IF "leading" \in positions THEN Min(good) ELSE 1
      to == IF "trailing" \in positions THEN Max(good) ELSE Len(s)
  IN IF positions = {} THEN s ELSE IF good = {} THEN <<>> ELSE SubSeq(s, from, to)

\* The input cut at its delimiters: of two that overlap the first one counts.
IsDelimiter(s) == IF job.call = "split" THEN Len(s) = 1 /\ s[1] \in ToSet(job.delimiter)
                  ELSE s = job.delimiter
Pieces ==
  LET n == IF job.call = "split" THEN 1 ELSE Len(job.delimiter)
      from[i \in 0..Len(job.input)] ==
        LET ends == {e \in i..(Len(job.input) - n) : IsDelimiter(Part(job.input, e, e + n))}
        IN IF ends = {} THEN <<Part(job.input, i, Len(job.input))>>
           ELSE <<Part(job.input, i, Min(ends))>> \o from[Min(ends) + n]
  IN from[0]
Wanted ==
  LET pieces == IF job.trim
                THEN [i \in DOMAIN Pieces |-> Trimmed(Pieces[i], {"leading", "trailing"})]
                ELSE Pieces
  IN IF job.nonempty THEN SelectSeq(pieces, LAMBDA p : p # <<>>) ELSE pieces

\* SplitString "is inverse of JoinString()": nothing of the input is lost or
\* gets into another piece, and trimming and dropping what is empty are done to
\* the pieces.  An empty input has no pieces for SplitString and an empty one for
\* SplitStringUsingSubstr; an empty delimiter leaves the input as it is.
SplitsAtDelimiters ==
  stage = "done" /\ job.call \in {"split", "substr"} =>
    IF job.delimiter = <<>> THEN result = <<job.input>>
    ELSE /\ result = IF job.call = "split" /\ job.input = <<>> THEN <<>> ELSE Wanted
         /\ ~job.trim /\ ~job.nonempty /\ (Len(job.delimiter) = 1 \/ job.call = "substr") =>
              JoinString(result, job.delimiter) = job.input

\* The pairs have no whitespace before a key or behind a value, and the split
\* succeeds if and only if each piece is a key, which may be empty, one or more
\* delimiters and a value; all other pieces leave an entry without a value.
PairsAreRead ==
  stage = "done" /\ job.call = "pairs" /\ job.delimiter # <<>> =>
    LET reads(piece, key, value) ==
          /\ KeyDelimiter \notin ToSet(key)
          /\ value # <<>> /\ value[1] # KeyDelimiter
          /\ \E n \in 1..Len(piece) : piece = key \o [i \in 1..n |-> KeyDelimiter] \o value
        parsed == {i \in DOMAIN result : reads(Wanted[i], result[i][1], result[i][2])}
    IN /\ Len(result) = Len(Wanted)
       /\ (flags = {"success"}) <=> parsed = DOMAIN result
       /\ \A i \in DOMAIN result : i \notin parsed => result[i][2] = <<>>
       /\ \A i \in DOMAIN result : LET k == result[i][1] v == result[i][2]
                                  IN /\ k # <<>> => k[1] \notin Whitespace
                                     /\ v # <<>> => Last(v) \notin Whitespace

\* The two implementations of TrimString agree, the one that subtracts from zero
\* included, and the copying one reports the ends that it changed.
TrimsTheEnds ==
  stage = "done" =>
    \A positions \in Positions :
      LET trimmed == Trimmed(job.input, positions)
          copy == TrimStringCopy(job.input, positions)
      IN /\ TrimStringPiece(job.input, positions) = trimmed
         /\ copy.output = trimmed
         /\ (copy.trimmed = {}) <=> (positions = {} \/ trimmed = job.input)

\* CollapseWhitespace: words as they are, between them one blank, or nothing for
\* whitespace with a line break if that is asked for, and none around them.
CollapsesRuns ==
  stage = "done" /\ job.call = "collapse" =>
    LET s == job.input
        starts == {i \in DOMAIN s : s[i] \notin Whitespace /\ (i = 1 \/ s[i - 1] \in Whitespace)}
        gap(i) == {j \in 1..(i - 1) : \A k \in j..(i - 1) : s[k] \in Whitespace}
        sep(i) == IF i = Min(starts) \/ (job.breaks /\ \E j \in gap(i) : s[j] = LineBreak)
                  THEN <<>> ELSE <<Blank>>
    IN result = FlattenSeq([i \in DOMAIN s |->
                  IF s[i] \in Whitespace THEN <<>>
                  ELSE (IF i \in starts /\ gap(i) # {} THEN sep(i) ELSE <<>>) \o <<s[i]>>])

\* Each of the functions gives the pieces that it says.
SplitsAndTrims == SplitsAtDelimiters /\ PairsAreRead /\ TrimsTheEnds /\ CollapsesRuns
=============================================================================
