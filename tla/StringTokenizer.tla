---------------------------- MODULE StringTokenizer ----------------------------
(***************************************************************************)
(* base::StringTokenizerT: an iterator over the tokens of a string.  A     *)
(* position is the number of characters before it.  GetNext() has two      *)
(* implementations, the full one keeps in token_is_delim_ what it has to   *)
(* look for next.                                                          *)
(***************************************************************************)
EXTENDS Integers, SequencesExt, FiniteSetsExt

CONSTANTS
  Delims,        \* delims_
  Spaces,        \* the characters that IsAsciiWhitespace accepts
  QuoteChars,    \* quotes_, where the tokenizer has them
  Backslash,
  Others,        \* further characters
  MaxText,       \* how long string_ is
  MaxResets,     \* how often the program starts over
  ResetsAnywhere, \* whether it does so while token_is_delim() is false
  CallsPastEnd   \* and calls GetNext() again, with RETURN_EMPTY_TOKENS, when
                 \* it has returned false

ASSUME TokenizerAssumption ==
  /\ MaxText \in Nat /\ MaxResets \in Nat
  /\ {ResetsAnywhere, CallsPastEnd} \subseteq BOOLEAN
  /\ Delims \cap Spaces = {} /\ Backslash \notin Delims \cup Spaces \cup QuoteChars
  /\ QuoteChars \cap (Delims \cup Spaces) = {}

VARIABLES
  text,     \* string_
  settings, \* options_, quotes_ and whitespace_policy_
  token,    \* token_begin_, token_end_ and token_is_delim_
  returned, \* ghost: the tokens since the start, or since Reset()
  complete, \* ghost: whether GetNext() returned false since then
  resets    \* ghost: the number of calls of Reset()

tokenizerVars == <<text, settings, token, returned, complete, resets>>

Alphabet == Delims \cup Spaces \cup QuoteChars \cup {Backslash} \cup Others
Settings == [delims : BOOLEAN, empty : BOOLEAN, quotes : SUBSET QuoteChars, skips : BOOLEAN]

-----------------------------------------------------------------------------
Size == Len(text)
CharAt(i) == text[i + 1]
IsDelim(c) == c \in Delims
IsQuote(c) == c \in settings.quotes
ShouldSkip(c) == settings.skips /\ c \in Spaces

\* The first position from i on where Stops holds, or the end.
FirstFrom(i, Stops(_)) == Min({j \in i..Size : j = Size \/ Stops(CharAt(j))})
SkipWhitespace(i) == FirstFrom(i, LAMBDA c : ~ShouldSkip(c))
AtEnd == [begin |-> Size, end |-> Size, is_delim |-> TRUE]

QuickGetNext ==
  LET separates(c) == IsDelim(c) \/ ShouldSkip(c)
      begin == FirstFrom(token.end, LAMBDA c : ~separates(c))
  IN IF begin = Size THEN AtEnd
     ELSE [begin |-> begin, end |-> FirstFrom(begin, separates), is_delim |-> FALSE]

\* AdvanceState: the character of the open quotation, if any, and whether the
\* next character is escaped.
Unquoted == [open |-> {}, in_escape |-> FALSE]
AdvanceStates == [open : {{}} \cup {{q} : q \in QuoteChars}, in_escape : BOOLEAN]
StopsAt(state, c) == state.open = {} /\ (IsDelim(c) \/ ShouldSkip(c))
AdvanceOneMutant(state, c) ==
  IF state.open = {} THEN [state EXCEPT !.open = IF IsQuote(c) THEN {c} ELSE {}]
  ELSE IF c \in state.open THEN Unquoted
  ELSE [state EXCEPT !.in_escape = ~@ /\ c = Backslash]
AdvanceOne(state, c) ==
  IF state.open = {} THEN [state EXCEPT !.open = IF IsQuote(c) THEN {c} ELSE {}]
  ELSE IF state.in_escape THEN [state EXCEPT !.in_escape = FALSE]
  ELSE IF c = Backslash THEN [state EXCEPT !.in_escape = TRUE]
  ELSE IF c \in state.open THEN Unquoted
  ELSE state

\* The end of the token that begins at i.
Slurped(i) ==
  LET from[j \in 0..Size, state \in AdvanceStates] ==
        IF j = Size \/ StopsAt(state, CharAt(j)) THEN j
        ELSE from[j + 1, AdvanceOne(state, CharAt(j))]
  IN from[i, Unquoted]

FullGetNext ==
  LET delim(i, next) ==
        IF i = Size THEN AtEnd
        ELSE IF settings.delims THEN [begin |-> i, end |-> i + 1, is_delim |-> TRUE]
        ELSE next
      from[i \in 0..Size] ==  \* after a delimiter
        LET end == Slurped(i)
        IN IF end # i \/ settings.empty THEN [begin |-> i, end |-> end, is_delim |-> FALSE]
           ELSE delim(i, from[i + 1])
      begin == SkipWhitespace(token.end)
  IN IF token.is_delim THEN from[begin] ELSE delim(begin, from[begin + 1])

IsQuick == settings.quotes = {} /\ ~settings.delims /\ ~settings.empty
NextToken == IF IsQuick THEN QuickGetNext ELSE FullGetNext
\* GetNext() returned false: a token that begins at the end is an empty one.
FoundNone(t) == t.begin = Size /\ t.is_delim

-----------------------------------------------------------------------------
TokenizerInit ==
  /\ text \in SeqOf(Alphabet, MaxText)
  /\ settings \in Settings
  /\ token = [begin |-> 0, end |-> 0, is_delim |-> TRUE]
  /\ returned = <<>> /\ complete = FALSE /\ resets = 0

GetNext ==
  /\ complete /\ settings.empty => CallsPastEnd
  /\ token' = NextToken
  /\ IF FoundNone(NextToken) THEN complete' = TRUE /\ UNCHANGED returned
     ELSE returned' = Append(returned, NextToken) /\ UNCHANGED complete
  /\ UNCHANGED <<text, settings, resets>>

\* Reset() leaves token_begin_ and token_is_delim_ as they are.
ResetTo(t) == [t EXCEPT !.end = 0]
Reset ==
  /\ resets < MaxResets
  /\ IsQuick \/ token.is_delim \/ ResetsAnywhere
  /\ token' = ResetTo(token)
  /\ returned' = <<>> /\ complete' = FALSE /\ resets' = resets + 1
  /\ UNCHANGED <<text, settings>>

TokenizerNext == GetNext \/ Reset

TokenizerSpec == TokenizerInit /\ [][TokenizerNext]_tokenizerVars

-----------------------------------------------------------------------------
(* What the tokens are, from the string as a whole                         *)

\* A quotation ends at a quote with an even number of backslashes before it.
Closes(i, j) ==
  /\ CharAt(j) = CharAt(i)
  /\ LET run == {k \in (i + 1)..j : \A m \in k..(j - 1) : CharAt(m) = Backslash}
     IN Cardinality(run) % 2 = 1
CloseOf(i) == Min({j \in (i + 1)..Size : j = Size \/ Closes(i, j)})
Quoted ==
  LET from[i \in 0..(Size + 1)] ==
        IF i >= Size THEN {}
        ELSE IF IsQuote(CharAt(i)) THEN i..CloseOf(i) \cup from[CloseOf(i) + 1]
        ELSE from[i + 1]
  IN from[0]

DelimsAt == {i \in 0..(Size - 1) : IsDelim(CharAt(i))} \ Quoted
SpacesAt == {i \in 0..(Size - 1) : ShouldSkip(CharAt(i))} \ Quoted

\* The runs between delimiters, without the whitespace around them.
FieldAt(b, e) ==
  LET kept == (b..(e - 1)) \ SpacesAt
  IN [begin |-> IF kept = {} THEN e ELSE Min(kept),
      end |-> IF kept = {} THEN e ELSE Max(kept) + 1, is_delim |-> FALSE]
DelimAt(i) == [begin |-> i, end |-> i + 1, is_delim |-> TRUE]

\* Where whitespace is not between delimiters, it delimits tokens as well.
WordsIn(b, e) ==
  LET starts == {i \in (b..(e - 1)) \ SpacesAt : i = b \/ i - 1 \in SpacesAt}
      end(i) == Min({j \in i..e : j = e \/ j \in SpacesAt})
  IN [k \in 1..Cardinality(starts) |->
        LET i == SetToSortSeq(starts, <)[k]
        IN [begin |-> i, end |-> end(i), is_delim |-> FALSE]]

Fields ==
  LET cuts == SetToSortSeq(DelimsAt, <)
      begin(k) == IF k = 1 THEN 0 ELSE cuts[k - 1] + 1
      end(k) == IF k = Len(cuts) + 1 THEN Size ELSE cuts[k]
      words(k) == WordsIn(begin(k), end(k))
      field(k) == IF settings.empty /\ words(k) = <<>>
                  THEN <<FieldAt(begin(k), end(k))>> ELSE words(k)
      part(k) == field(k) \o IF settings.delims /\ k <= Len(cuts) THEN <<DelimAt(cuts[k])>>
                             ELSE <<>>
  IN FlattenSeq([k \in 1..(Len(cuts) + 1) |-> part(k)])

\* Tokens that are empty are the same wherever they are said to be.
Same(ts, us) ==
  /\ Len(ts) = Len(us)
  /\ \A k \in DOMAIN ts :
       \/ ts[k] = us[k]
       \/ /\ ts[k].begin = ts[k].end /\ us[k].begin = us[k].end
          /\ ts[k].is_delim = us[k].is_delim

\* A character behind whitespace that the full implementation takes for a
\* delimiter: behind a token, and behind a delimiter that it did not return when
\* it returns empty tokens.
Swallows ==
  ~IsQuick /\ \E i, j \in SpacesAt :
    /\ i <= j /\ i..j \subseteq SpacesAt
    /\ i > 0 /\ (i - 1) \notin SpacesAt
    /\ j + 1 < Size /\ j + 1 \notin SpacesAt \cup DelimsAt
    /\ (i - 1) \in DelimsAt => settings.empty /\ ~settings.delims

\* The tokens are those of the string, in order and no matter how often the
\* program asks and starts over: none within quotes is cut and none is lost,
\* unless the full implementation swallows a character, and then they are not.
TokensAreFields ==
  /\ ~Swallows =>
       /\ Len(returned) <= Len(Fields)
       /\ Same(returned, SubSeq(Fields, 1, Len(returned)))
  /\ complete => (Same(returned, Fields) <=> ~Swallows)

\* token_is_delim() tells "if the returned token is actually a delimiter".
DelimsAreDelimiters ==
  \A k \in DOMAIN returned : returned[k].is_delim => IsDelim(CharAt(returned[k].begin))

=============================================================================
