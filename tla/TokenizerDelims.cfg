CONSTANTS
  Delims = {","}
  Spaces = {" "}
  QuoteChars = {"q", "p"}
  Backslash = "b"
  Others = {}
  MaxText = 3
  MaxResets = 1
  ResetsAnywhere = TRUE
  CallsPastEnd = TRUE
SPECIFICATION TokenizerSpec
INVARIANT DelimsAreDelimiters
CHECK_DEADLOCK FALSE
