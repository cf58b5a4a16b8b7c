\* One client, one server.
SPECIFICATION Spec
CONSTANTS
  Computers = {c1, c2}
  NoAnswer = NoAnswer
  MaxRequests = 2
  MaxDepth = 2
  MaxSignals = 1
PROPERTIES ExecutedIsAnswered
CHECK_DEADLOCK FALSE
