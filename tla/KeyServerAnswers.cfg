CONSTANTS
  Clients = {c1}
  MaxLines = 1
  NumFds = 1
  None = None
  Workers = {w1}
  QueueSize = 1
  FlagReads = {TRUE}
  Service = "key"
SPECIFICATION FairSpec
PROPERTY LinesAreAnswered
CHECK_DEADLOCK FALSE
