CONSTANTS
  Narrow <- MCNarrow
  Wide <- MCWide
  EnTexts <- MCEnTexts
  CnTexts <- MCCnTexts
  EnStops <- MCEnStops
  CnStops <- MCCnStops
  MaxBuilds = 2
  Missing = Missing
  Workers = {w1, w2}
  Keys <- MCKeys
  MaxTasks = 2
  Ints <- MCInts
  None = None
SYMMETRY Symmetry
SPECIFICATION Spec
INVARIANTS
  NothingAddsUp
  StoredWordsAreFound
  CandidatesAreInRange
  StoredAnswersAreTrue
CHECK_DEADLOCK FALSE
