\* Two listeners of each kind, four calls inside one another.
SPECIFICATION Spec
CONSTANTS
  MaxTasks = 2
  MaxDepth = 4
INVARIANTS TypeOK ListenersAreHeard NobodyIsServed
PROPERTIES Alternate
