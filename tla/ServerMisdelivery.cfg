CONSTANTS
  Clients = {c1, c2}
  MaxLines = 1
  NumFds = 2
  None = None
  Workers = {w1}
  QueueSize = 1
  FlagReads = {TRUE}
  Service = "web"
SPECIFICATION Spec
INVARIANT AnswerGoesToAsker
CHECK_DEADLOCK FALSE
