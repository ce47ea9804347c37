------------------------------ MODULE MCStrings ------------------------------
(***************************************************************************)
(* What reads and changes strings, each function by itself: one of the     *)
(* modules, the subject of the behaviour, takes its steps, and the others  *)
(* keep their initial states.                                              *)
(***************************************************************************)
EXTENDS StringTokenizer, StringReplace, StringSplit, StringNumber, UtfConversion

\* Delimiters of one character and of two, of which one overlaps itself, and the
\* empty one.
MCDelimiters == {<<",">>, <<",", "=">>}
MCSubstrings == {<<>>, <<",">>, <<",", ",">>}

\* All short strings of some characters, and the numbers around the ends of the
\* types in both bases.
MCCharacters == {"0", "1", "2", "3", "5", "F", " ", "-", "+", "x"}
MCAroundTheEnds ==
  {IntToString([half |-> WideHalf, signed |-> TRUE], v + d) :
     v \in UNION {{Lowest(t), MaxOf(t)} : t \in Types}, d \in {-2, -1, 0, 1, 2, 10}}
MCHexadecimals ==
  {<<"0", "x", "1", "F">>, <<"0", "x", "2", "0">>, <<"-", "0", "x", "F">>,
   <<"-", "0", "x", "1", "0">>, <<"-", "0", "x", "1", "1">>,
   <<"1", "F", "F">>, <<"2", "0", "0">>, <<"-", "2", "0", "0">>, <<"-", "2", "0", "1">>,
   <<"3", "F", "F">>, <<"4", "0", "0">>}
MCInputs == SeqOf(MCCharacters, 3) \cup MCAroundTheEnds \cup MCHexadecimals

MCVersionPieces == {<<"0">>, <<"1">>, <<"2">>, <<"0", "1">>, <<"*">>, <<"+", "1">>}

\* Units at the ends of their classes, and of the ranges of what may follow them:
\* 7F 80 8F 90 9F A0 BF, the leads of two bytes, C1 C2 DF, of three, E0 E1 ED EF,
\* and of four, F0 F4 F5.
Bytes == {127, 128, 143, 144, 159, 160, 190, 191, 193, 194, 223, 224, 225, 237, 239, 240, 244, 245}
FourBytes == {<<a, b, c, d>> : a \in {239, 240, 241, 244}, b \in {128, 143, 144, 191},
                               c \in {65, 128, 191}, d \in {65, 128, 190, 191}}
Units16 == {65, 128, 2047, 2048, 55295, 55296, 56319, 56320, 57343, 57344, 65533, 65535}
Units32 == {-1, 65, 128, 2047, 2048, 55295, 55296, 57343, 57344, 64976, 65535, 65536, 1114111, 1114112}

MCTexts == [e \in Encodings |->
              CASE e = "8" -> SeqOf(Bytes, 3) \cup FourBytes \cup {Append(s, 65) : s \in FourBytes}
                [] e = "16" -> SeqOf(Units16, 3)
                [] e = "32" -> SeqOf(Units32, 2)]

-----------------------------------------------------------------------------
VARIABLE subject

Init ==
  /\ TokenizerInit /\ ReplaceInit /\ SplitInit /\ NumberInit /\ UtfInit
  /\ subject \in {"tokenizer", "replace", "split", "number", "utf"}
  /\ subject # "tokenizer" => text = <<>> /\ settings = CHOOSE s \in Settings : TRUE
Next ==
  /\ UNCHANGED subject
  /\ \/ /\ subject = "tokenizer" /\ TokenizerNext
        /\ UNCHANGED <<replaceVars, splitVars, numberVars, utfVars>>
     \/ /\ subject = "replace" /\ ReplaceNext
        /\ UNCHANGED <<tokenizerVars, splitVars, numberVars, utfVars>>
     \/ /\ subject = "split" /\ SplitNext
        /\ UNCHANGED <<tokenizerVars, replaceVars, numberVars, utfVars>>
     \/ /\ subject = "number" /\ NumberNext
        /\ UNCHANGED <<tokenizerVars, replaceVars, splitVars, utfVars>>
     \/ /\ subject = "utf" /\ UtfNext
        /\ UNCHANGED <<tokenizerVars, replaceVars, splitVars, numberVars>>

Spec == Init /\ [][Next]_<<subject, tokenizerVars, replaceVars, splitVars, numberVars, utfVars>>
=============================================================================
