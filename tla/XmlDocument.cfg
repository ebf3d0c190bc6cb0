CONSTANTS
  MaxNodes = 3
  Names = {a, b}
  AttrNames = {"x"}
  Null = Null
  LeafKinds = {"text", "comment", "declaration"}
  MaxDepth = 3
  Lengths <- MCLengths
  Raws <- MCRaws
  MaxChunks = 2
  MaxEdits = 2
SYMMETRY Symmetry
SPECIFICATION Spec
INVARIANTS
  TreeIsLinked
  PoolsAreExact
  LoadedTreeIsFile
  FailedTreeIsWhole
  SearchesMeetEachChild
  PrintedIsTree
  TextIsExpected
  PrintedTextReadsBack
PROPERTIES
  FirstErrorIsKept
CHECK_DEADLOCK FALSE
