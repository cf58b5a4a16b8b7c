\* One port with a permanent task, waits nested up to three deep.
SPECIFICATION FairSpec
CONSTANTS
  p1 = p1
  request = request
  answer = answer
  Numbered = {p1}
  AnyPort = AnyPort
  Events = {request, answer}
  AnyEvent = AnyEvent
  Handlers <- MCHandlers
  Waits = {w1, w2}
  Forever = {}
  NoMessage = NoMessage
  MaxMessages = 3
  MaxQueue = 2
  MaxDepth = 6
INVARIANTS TypeOK ListenersHear PortsHaveListeners NoMissedMessage
PROPERTIES WaitsReturn
CHECK_DEADLOCK FALSE
