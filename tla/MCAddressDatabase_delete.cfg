\* Looks an address up, deletes it and looks again.
SPECIFICATION Spec
CONSTANTS
  Keys = {k1, k2, k3}
  Objects = {d1, d2}
  Nil = Nil
  Torn = Torn
  NoKey = NoKey
  MaxCrashes = 2
SYMMETRY Symm
INVARIANTS DeletedStaysDeleted
