CONSTANTS
  Clients = {c1}
  MaxLines = 1
  NumFds = 1
  None = None
  Workers = {w1}
  QueueSize = 1
  FlagReads = {FALSE}
  Service = "web"
SPECIFICATION FairSpec
PROPERTY LinesAreProcessed
CHECK_DEADLOCK FALSE
