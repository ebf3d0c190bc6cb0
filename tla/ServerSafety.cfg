CONSTANTS
  Clients = {c1, c2}
  MaxLines = 2
  NumFds = 1
  None = None
  Workers = {w1, w2}
  QueueSize = 1
  FlagReads = {TRUE, FALSE}
  Service = "web"
SYMMETRY Symmetry
SPECIFICATION Spec
INVARIANTS
  QueriesAreConserved
  PendingIsAnnounced
  RefsAreExact
CHECK_DEADLOCK FALSE
