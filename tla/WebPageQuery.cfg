CONSTANTS
  Hashes = {h1, h2, h3, h4}
  Similar <- MCSimilar
  Words = {w1, w2}
  MaxCount = 2
  Items <- MCItems
  Blanks = 1
  MaxItems = 3
  MaxAsked = 2
SYMMETRY Symmetry
SPECIFICATION Spec
INVARIANTS
  AnswerRanksFound
  FoundIsConjunction
CHECK_DEADLOCK FALSE
