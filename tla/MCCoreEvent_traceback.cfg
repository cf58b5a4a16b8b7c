\* Does a failed task always have a traceback to log?
SPECIFICATION Spec
CONSTANTS
  Permanent = {p1}
  Once = {o1}
  NoTask = NoTask
  MaxDepth = 2
  MaxTriggers = 3
  MaxListeners = 1
  HasLogger = TRUE
PROPERTIES TracebackIsString
CHECK_DEADLOCK FALSE
