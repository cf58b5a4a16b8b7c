\* Classes of up to six fields; lists and instances up to four deep.
SPECIFICATION Spec
CONSTANTS
  a = a
  c = c
  d = d
  Mark = Mark
  Nil = Nil
  Atoms <- MCAtoms
  Classes <- MCClasses
  Static <- MCStatic
  Objects <- MCObjects
INVARIANTS TypeOK RoundTrip ChangedInPlace
PROPERTIES WireIsStable
