\* Strings of up to four characters.  A tokenizer is asked no more once it has returned
\* false; the program may stop there.
CONSTANTS
  Delims = {","}
  Spaces = {" "}
  QuoteChars = {"q", "p"}
  Backslash = "b"
  Others = {}
  MaxText = 4
  MaxResets = 1
  ResetsAnywhere = FALSE
  CallsPastEnd = FALSE
  Text = {"a", "b"}
  Nul = "0"
  MaxString = 4
  MaxFind = 2
  MaxReplace = 3
  MaxOffset = 1
  Blank = " "
  LineBreak = "nl"
  KeyDelimiter = "="
  Letter = "a"
  MaxInput = 4
  SizeModulus = 16
  Delimiters <- MCDelimiters
  Substrings <- MCSubstrings
  Half = 16
  WideHalf = 512
  Inputs <- MCInputs
  VersionPieces <- MCVersionPieces
  MaxPieces = 3
  Texts <- MCTexts
SPECIFICATION Spec
CHECK_DEADLOCK FALSE
INVARIANTS TokensAreFields ReplacesInPlace SplitsAndTrims NumeralsAreExact TextIsPreserved
