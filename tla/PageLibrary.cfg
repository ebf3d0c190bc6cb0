CONSTANTS
  h1 = h1
  h2 = h2
  h3 = h3
  Hashes = {h1, h2, h3}
  Similar <- MCSimilar
  Words = {w1}
  MaxCount = 2
  Items <- MCItems
  Blanks = 1
  MaxItems = 4
  Garbage = {0}
SPECIFICATION PipelineSpec
INVARIANTS
  OffsetsLocatePages
  LibraryTypeOK
  KeptAreDistinct
  RemovedHaveTwins
  IndexMatchesLibrary
  FrequenciesMatchIndex
CHECK_DEADLOCK FALSE
