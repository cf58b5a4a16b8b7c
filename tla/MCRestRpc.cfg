\* Two computers that send to one another, three requests, one other signal.
SPECIFICATION FairSpec
CONSTANTS
  Computers = {c1, c2}
  NoAnswer = NoAnswer
  MaxRequests = 3
  MaxDepth = 3
  MaxSignals = 1
INVARIANTS TypeOK OwnAnswer StaleIsBounded
PROPERTIES SendsReturn ImplementsRemoteCall
CHECK_DEADLOCK FALSE
