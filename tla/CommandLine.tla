----------------------------- MODULE CommandLine -----------------------------
(***************************************************************************)
(* base::CommandLine on POSIX: the words of argv_, the switches among them *)
(* and begin_args_, the number of words before the arguments.  A word is a *)
(* prefix, a name and, behind a separator, a value; words have no blanks   *)
(* around them that TrimWhitespaceASCII would remove.  No duplicate switch *)
(* handler is set, so the value of a switch is the last one given.         *)
(***************************************************************************)
EXTENDS Naturals, SequencesExt, TLC

CONSTANTS
  Words,      \* what programs are started with, and append
  ProgramWord, \* a word that is neither a switch nor the terminator
  NoSeparator, \* the value of a word without "="
  Empty,      \* the empty string
  MaxWords    \* how long argv_ becomes

SwitchTerminator == [prefix |-> "--", name |-> Empty, value |-> NoSeparator]
IsSwitch(w) == w.prefix # Empty /\ (w.name # Empty \/ w.value # NoSeparator)
IsSwitchWithKey(w, key) == IsSwitch(w) /\ w.name = key

ASSUME WordsAssumption ==
  /\ MaxWords \in Nat
  /\ \A w \in Words \cup {ProgramWord} : DOMAIN w = {"prefix", "name", "value"}
  /\ ~IsSwitch(ProgramWord) /\ ProgramWord # SwitchTerminator

VARIABLES
  line,   \* argv_, switches_ and begin_args_
  wrapper \* ghost: how many words of PrependWrapper are before the program

lineVars == <<line, wrapper>>

-----------------------------------------------------------------------------
NoProgram == [argv |-> <<[ProgramWord EXCEPT !.name = Empty]>>, switches |-> <<>>, begin |-> 1]

AppendArgNative(l, w) == [l EXCEPT !.argv = Append(@, w)]

\* A prefix that the name has is kept, and a separator without value is not.
AppendSwitchNative(l, prefix, name, value) ==
  LET combined == [prefix |-> IF prefix = Empty THEN "--" ELSE prefix,
                   name |-> name, value |-> IF value = Empty THEN NoSeparator ELSE value]
  IN [argv |-> InsertAt(l.argv, l.begin + 1, combined),
      switches |-> (name :> value) @@ l.switches,
      begin |-> l.begin + 1]

\* Everything from the first terminator on is an argument.
AppendSwitchesAndArguments(l, words) ==
  LET step(acc, w) ==
        LET parse == acc.parse /\ w # SwitchTerminator
        IN [parse |-> parse,
            line |-> IF parse /\ IsSwitch(w)
                     THEN AppendSwitchNative(acc.line, w.prefix, w.name,
                            IF w.value = NoSeparator THEN Empty ELSE w.value)
                     ELSE AppendArgNative(acc.line, w)]
  IN FoldLeft(step, [parse |-> TRUE, line |-> l], words).line

SetProgram(l, w) == [l EXCEPT !.argv[1] = w]
InitFromArgv(argv) ==
  AppendSwitchesAndArguments(SetProgram(NoProgram, argv[1]), Tail(argv))
AppendArguments(l, other, include_program) ==
  AppendSwitchesAndArguments(IF include_program THEN SetProgram(l, other.argv[1]) ELSE l,
                             Tail(other.argv))
HasSwitch(l, key) == key \in DOMAIN l.switches

\* Switches in argv_ have indices [1, begin_args_).
SectionMutant(l) == SubSeq(l.argv, 2, Len(l.argv))
Section(l) == SubSeq(l.argv, 2, l.begin)
Kept(section, key) == SelectSeq(section, LAMBDA w : ~IsSwitchWithKey(w, key))
RemoveSwitch(l, key) ==
  LET kept == Kept(Section(l), key)
  IN [argv |-> <<l.argv[1]>> \o kept \o SubSeq(l.argv, l.begin + 1, Len(l.argv)),
      switches |-> [k \in DOMAIN l.switches \ {key} |-> l.switches[k]],
      begin |-> Len(kept) + 1]

\* GetArgs hides the first terminator.
GetArgs(l) ==
  LET args == SubSeq(l.argv, l.begin + 1, Len(l.argv))
  IN IF Contains(args, SwitchTerminator)
     THEN RemoveAt(args, CHOOSE i \in DOMAIN args :
            /\ args[i] = SwitchTerminator
            /\ \A j \in 1..(i - 1) : args[j] # SwitchTerminator)
     ELSE args

-----------------------------------------------------------------------------
Becomes(l) == Len(l.argv) <= MaxWords /\ line' = l /\ UNCHANGED wrapper

\* The command lines of programs that were started with up to n words.
Started(n) == {InitFromArgv(<<ProgramWord>> \o ws) : ws \in SeqOf(Words, n)}

CommandLineInit == line \in {NoProgram} \cup Started(2) /\ wrapper = 0

SwitchNames == {w.name : w \in Words}

\* The constructor, Init and operator=.
AssignLine(other) == line' = other /\ wrapper' = 0
AppendWord(w) ==
  \/ Becomes(AppendArgNative(line, w))
  \/ /\ IsSwitch(w)
     /\ \E prefix \in {w.prefix, Empty} :
          Becomes(AppendSwitchNative(line, prefix, w.name,
                    IF w.value = NoSeparator THEN Empty ELSE w.value))
CopySwitchesFrom(other, key) ==
  HasSwitch(other, key) /\ Becomes(AppendSwitchNative(line, Empty, key, other.switches[key]))
\* NOTREACHED stops the program when no word has the key that switches_ has.
Expel(key) ==
  /\ HasSwitch(line, key)
  /\ Kept(Section(line), key) # Section(line)
  /\ line' = RemoveSwitch(line, key)
  /\ wrapper' = IF wrapper = 0 THEN 0 ELSE 1 + Len(Kept(SubSeq(line.argv, 2, wrapper), key))
PrependWrapper(w) ==
  /\ Len(line.argv) < MaxWords
  /\ line' = [line EXCEPT !.argv = <<w>> \o @, !.begin = @ + 1]
  /\ wrapper' = wrapper + 1

CommandLineNext ==
  \/ \E w \in Words : AppendWord(w) \/ PrependWrapper(w)
  \/ \E other \in Started(1) :
       \/ AssignLine(other)
       \/ \E include_program \in BOOLEAN : Becomes(AppendArguments(line, other, include_program))
       \/ \E key \in SwitchNames : CopySwitchesFrom(other, key)
  \/ \E key \in SwitchNames : Expel(key)

CommandLineSpec == CommandLineInit /\ [][CommandLineNext]_lineVars

-----------------------------------------------------------------------------
\* argv_ without a wrapper, as a process that is started with it gets it.
Launched == SubSeq(line.argv, wrapper + 1, Len(line.argv))

\* An argument that would be read as a switch, and a switch word "--" that would
\* be read as the terminator (it was "--="): such lines are not read back.
IsAmbiguous ==
  LET args == SubSeq(line.argv, line.begin + 1, Len(line.argv))
  IN \/ \E i \in 2..line.begin : line.argv[i] = SwitchTerminator
     \/ \E i \in DOMAIN args : /\ IsSwitch(args[i])
                               /\ \A j \in 1..i : args[j] # SwitchTerminator

\* argv_ and switches_ tell the same: every switch has a word before the
\* arguments, so RemoveSwitch finds one (NOTREACHED), and a process that is
\* started with argv_ reads the same switches, with the same values, and the
\* same arguments.
ReadsBack ==
  /\ line.begin \in (wrapper + 1)..Len(line.argv)
  /\ \A key \in DOMAIN line.switches \ {Empty} :
       \E i \in (wrapper + 2)..line.begin : IsSwitchWithKey(line.argv[i], key)
  /\ ~IsAmbiguous =>
       LET child == InitFromArgv(Launched)
       IN child.switches = line.switches /\ GetArgs(child) = GetArgs(line)
=============================================================================
