------------------------------- MODULE FilePath -------------------------------
(***************************************************************************)
(* base::FilePath and SafeBaseName on POSIX: path_ is one string, which    *)
(* every operation takes apart again.  The model keeps the names that the  *)
(* path is made of beside it.  A position is 0 for npos.                   *)
(***************************************************************************)
EXTENDS Integers, SequencesExt, FiniteSetsExt

CONSTANTS
  Letters,          \* characters other than the separator and the dot
  DoubleExtensions, \* kCommonDoubleExtensions
  DoubleSuffixes,   \* kCommonDoubleExtensionSuffixes
  MaxGap,           \* how far the two dots of a double extension may be apart
  MaxLength,        \* of the paths that a program makes
  MaxStart          \* of the paths that it starts from

ASSUME PathAssumption == {"/", "."} \cap Letters = {} /\ MaxStart <= MaxLength

VARIABLES
  path, \* path_
  names \* what path stands for: the root, if it has one, and then the components

pathVars == <<path, names>>

Characters == Letters \cup {"/", "."}
Dot == <<".">>
DotDot == <<".", ".">>
EndsIn(p, c) == p # <<>> /\ Last(p) = c
RFind(p, c, end) == Max({0} \cup {i \in 1..end : p[i] = c})

-----------------------------------------------------------------------------
(* The operations                                                          *)

IsAbsolute(p) == p # <<>> /\ p[1] = "/"
IsNetwork(p) == Len(p) > 1 /\ p[1] = "/" /\ p[2] = "/"
AreAllSeparators(p) == \A i \in DOMAIN p : p[i] = "/"

\* A pair of separators is an alternate root; more of them are one.
StripTrailingSeparators(p) ==
  IF AreAllSeparators(p) THEN IF Len(p) = 2 THEN p ELSE SubSeq(p, 1, Min({1, Len(p)}))
  ELSE SubSeq(p, 1, Max({i \in DOMAIN p : p[i] # "/"}))
AsEndingWithSeparator(p) == IF p = <<>> \/ EndsIn(p, "/") THEN p ELSE Append(p, "/")

DirName(p) ==
  LET s == StripTrailingSeparators(p)
      last_separator == RFind(s, "/", Len(s))
  IN IF last_separator = 0 THEN Dot ELSE StripTrailingSeparators(SubSeq(s, 1, last_separator))
BaseName(p) ==
  LET s == StripTrailingSeparators(p)
      last_separator == RFind(s, "/", Len(s))
  IN IF last_separator < Len(s) THEN SubSeq(s, last_separator + 1, Len(s)) ELSE s

Components[p \in Seq(Characters)] ==
  LET base == BaseName(p)
  IN IF DirName(p) = p THEN IF base \in {<<>>, Dot} THEN <<>> ELSE <<base>>
     ELSE Components[DirName(p)] \o IF AreAllSeparators(base) THEN <<>> ELSE <<base>>
GetComponents(p) == Components[p]

\* FilePath::Append, of a path that is not absolute.
AppendPath(p, c) ==
  IF p = Dot /\ c # <<>> THEN c
  ELSE LET s == StripTrailingSeparators(p)
       IN s \o (IF c = <<>> \/ s = <<>> \/ EndsIn(s, "/") THEN <<>> ELSE <<"/">>) \o c
IsParent(p, child) ==
  LET parents == GetComponents(p)
  IN parents # <<>> /\ IsStrictPrefix(parents, GetComponents(child))
\* What child has more than the parent is appended to p.
AppendRelativePath(parent, child, p) ==
  FoldLeft(AppendPath, p,
           SubSeq(GetComponents(child), Len(GetComponents(parent)) + 1, Len(GetComponents(child))))
ReferencesParent(p) == DotDot \in ToSet(GetComponents(p))

FinalExtensionSeparatorPosition(p) == IF p \in {Dot, DotDot} THEN 0 ELSE RFind(p, ".", Len(p))
\* The dot before the last one is not there, or in another component.
InOtherName(p, penultimate, last) ==
  penultimate = 0 \/ penultimate < RFind(p, "/", last - 1)
ExtensionSeparatorPosition(p) ==
  LET last_dot == FinalExtensionSeparatorPosition(p)
      penultimate_dot == RFind(p, ".", last_dot - 1)
      after(i) == SubSeq(p, i + 1, Len(p))
  IN IF /\ last_dot > 1
        /\ ~InOtherName(p, penultimate_dot, last_dot)
        /\ \/ after(penultimate_dot) \in DoubleExtensions
           \/ /\ after(last_dot) \in DoubleSuffixes
              /\ last_dot - penultimate_dot \in 2..MaxGap
     THEN penultimate_dot ELSE last_dot

From(p, i) == IF i = 0 THEN <<>> ELSE SubSeq(p, i, Len(p))
UpTo(p, i) == IF i = 0 THEN p ELSE SubSeq(p, 1, i - 1)
Extension(p) == LET base == BaseName(p) IN From(base, ExtensionSeparatorPosition(base))
FinalExtension(p) == LET base == BaseName(p) IN From(base, FinalExtensionSeparatorPosition(base))
\* The base name says whether there is an extension, and the path where it is.
RemoveExtension(p) ==
  IF Extension(p) = <<>> THEN p ELSE UpTo(p, ExtensionSeparatorPosition(p))
RemoveFinalExtension(p) ==
  IF FinalExtension(p) = <<>> THEN p ELSE UpTo(p, FinalExtensionSeparatorPosition(p))

IsEmptyOrSpecialCase(p) == p \in {<<>>, Dot, DotDot}
IsNoExtension(e) == e \in {<<>>, Dot}
WithDot(e) == IF Head(e) = "." THEN e ELSE Dot \o e
InsertBeforeExtension(p, suffix) ==
  IF suffix = <<>> THEN p
  ELSE IF IsEmptyOrSpecialCase(BaseName(p)) THEN <<>>
  ELSE RemoveExtension(p) \o suffix \o Extension(p)
AddExtension(p, e) ==
  IF IsEmptyOrSpecialCase(BaseName(p)) THEN <<>>
  ELSE IF IsNoExtension(e) THEN p
  ELSE p \o IF EndsIn(p, ".") THEN e ELSE WithDot(e)
ReplaceExtension(p, e) ==
  IF IsEmptyOrSpecialCase(BaseName(p)) THEN <<>>
  ELSE IF IsNoExtension(e) THEN RemoveExtension(p)
  ELSE RemoveExtension(p) \o WithDot(e)

\* SafeBaseName::Create refuses a path whose base name is not one.
IsSafeBaseName(p) ==
  LET base == BaseName(p)
  IN ~IsAbsolute(base) /\ ~ReferencesParent(base) /\ ~EndsIn(base, "/")

-----------------------------------------------------------------------------
(* What they do to the names                                               *)

\* The runs of p without a separator, after the root.
NamesOf(p) ==
  LET starts == {i \in DOMAIN p : p[i] # "/" /\ (i = 1 \/ p[i - 1] = "/")}
      end(i) == Min({j \in i..Len(p) : j = Len(p) \/ p[j + 1] = "/"})
      leading == Min({i \in 0..Len(p) : i = Len(p) \/ p[i + 1] # "/"})
  IN (IF leading = 0 THEN <<>> ELSE <<IF leading = 2 THEN <<"/", "/">> ELSE <<"/">>>>)
     \o [k \in 1..Cardinality(starts) |->
           LET i == SetToSortSeq(starts, <)[k] IN SubSeq(p, i, end(i))]
HasRoot == names # <<>> /\ AreAllSeparators(names[1])
\* GetComponents hides the "." of a relative path, but not that of "./".
Shown(p) ==
  LET ns == NamesOf(p)
  IN IF ns # <<>> /\ ns[1] = Dot /\ (Len(ns) > 1 \/ p = Dot) THEN Tail(ns) ELSE ns

\* Of some of the names of a path, without the "." that they start with.
WithoutDots(ns) == SubSeq(ns, Min({i \in DOMAIN ns : ns[i] # Dot \/ i = Len(ns)}), Len(ns))

Stem(n) == UpTo(n, ExtensionSeparatorPosition(n))
Suffix(n) == From(n, ExtensionSeparatorPosition(n))
LastName == IF names = <<>> THEN <<>> ELSE Last(names)
\* The last name becomes n, of which nothing may be left.
Renamed(n) ==
  IF names = <<>> THEN <<>> ELSE Front(names) \o IF n = <<>> THEN <<>> ELSE <<n>>
RenamedUnlessSpecial(n) == IF LastName \in {<<>>, Dot, DotDot} THEN <<>> ELSE Renamed(n)

-----------------------------------------------------------------------------
PathInit == path \in SeqOf(Characters, MaxStart) /\ names = NamesOf(path)

Obtains(p, ns) == Len(p) <= MaxLength /\ path' = p /\ names' = ns

Separate ==
  \/ Obtains(StripTrailingSeparators(path), names)
  \/ Obtains(AsEndingWithSeparator(path), names)
Climb ==
  \/ Obtains(DirName(path), IF Len(names) > 1 THEN Front(names)
                            ELSE IF HasRoot THEN names ELSE <<Dot>>)
  \/ Obtains(BaseName(path), IF names = <<>> THEN <<>> ELSE <<Last(names)>>)
AddComponents(c) ==
  /\ ~IsAbsolute(c)
  /\ Obtains(AppendPath(path, c),
             IF path = Dot /\ c # <<>> THEN NamesOf(c) ELSE names \o NamesOf(c))
\* AppendRelativePath to the empty path and to the parent.
Relativize(parent) ==
  /\ IsParent(parent, path)
  /\ LET rest == SubSeq(Shown(path), Len(Shown(parent)) + 1, Len(Shown(path)))
     IN \/ Obtains(AppendRelativePath(parent, path, <<>>), WithoutDots(rest))
        \/ Obtains(AppendRelativePath(parent, path, parent), NamesOf(parent) \o rest)

\* The extension is looked for in the whole path: not of one that ends with a
\* separator.
ChangeExtension(e) ==
  /\ ~EndsIn(path, "/")
  /\ \/ Obtains(RemoveExtension(path), Renamed(Stem(LastName)))
     \/ Obtains(RemoveFinalExtension(path),
                Renamed(UpTo(LastName, FinalExtensionSeparatorPosition(LastName))))
     \/ Obtains(InsertBeforeExtension(path, e),
                IF e = <<>> THEN names
                ELSE RenamedUnlessSpecial(Stem(LastName) \o e \o Suffix(LastName)))
     \/ Obtains(AddExtension(path, e),
                RenamedUnlessSpecial(
                  IF IsNoExtension(e) THEN LastName
                  ELSE LastName \o IF EndsIn(LastName, ".") THEN e ELSE WithDot(e)))
     \/ Obtains(ReplaceExtension(path, e),
                RenamedUnlessSpecial(
                  Stem(LastName) \o IF IsNoExtension(e) THEN <<>> ELSE WithDot(e)))

PathNext ==
  \/ Separate \/ Climb
  \/ \E c \in SeqOf(Characters, 2) : AddComponents(c) \/ Relativize(c)
  \/ \E e \in SeqOf(Characters \ {"/"}, 2) : ChangeExtension(e)

PathSpec == PathInit /\ [][PathNext]_pathVars

-----------------------------------------------------------------------------
\* A path is the list of its names, through any operations on the string and
\* however many separators it has: GetComponents lists them, an extension is that
\* of the last name even if a directory has a dot, and a name is a safe base name
\* unless it is the root or the parent directory.
PathIsNames ==
  /\ names = NamesOf(path)
  /\ GetComponents(path) = Shown(path)
  /\ IsAbsolute(path) <=> HasRoot
  /\ ReferencesParent(path) <=> DotDot \in ToSet(names)
  /\ Extension(path) = Suffix(LastName)
  /\ IsSafeBaseName(path) <=> LastName # DotDot /\ ~(HasRoot /\ Len(names) = 1)

=============================================================================
