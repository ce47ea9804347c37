\* Symmetric in the dictionaries.
CONSTANTS
  Roots = {r, s}
  Cells = {1, 2, 3, 4}
  Keys = {"", "a"}
  EmptyKey = ""
  Leaves = {"list"}
  List = "list"
  Null = Null
  Paths <- MCPaths
SYMMETRY MCSymmetry
SPECIFICATION ValuesSpec
INVARIANT PathsAreExact
PROPERTY TreesWithStablePointers
