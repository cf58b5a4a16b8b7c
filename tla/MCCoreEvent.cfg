\* Re-entrant activations, bodies that fail, removal between and in bodies.
SPECIFICATION Spec
CONSTANTS
  Permanent = {p1, p2}
  Once = {o1, o2}
  NoTask = NoTask
  MaxDepth = 2
  MaxTriggers = 3
  MaxListeners = 2
  HasLogger = TRUE
SYMMETRY Symm
INVARIANTS TypeOK NoRepeat OnceBound OnceIsOnce ErrorsStayInside
PROPERTIES ActivationsAreComplete
CHECK_DEADLOCK FALSE
