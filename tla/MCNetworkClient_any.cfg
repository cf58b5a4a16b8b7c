\* A task added for any event of a port, which is what AddTask does when it is
\* given no event name.
SPECIFICATION FairSpec
CONSTANTS
  p1 = p1
  request = request
  answer = answer
  Numbered = {p1}
  AnyPort = AnyPort
  Events = {request, answer}
  AnyEvent = AnyEvent
  Handlers <- MCAnyHandlers
  Waits = {w1}
  Forever = {}
  NoMessage = NoMessage
  MaxMessages = 2
  MaxQueue = 2
  MaxDepth = 4
PROPERTIES AnyEventTasksRun
CHECK_DEADLOCK FALSE
