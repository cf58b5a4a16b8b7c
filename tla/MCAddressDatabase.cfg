\* Four ids, three domains, two stops of the computer.
SPECIFICATION Spec
CONSTANTS
  Keys = {k1, k2, k3, k4}
  Objects = {d1, d2, d3}
  Nil = Nil
  Torn = Torn
  NoKey = NoKey
  MaxCrashes = 2
SYMMETRY Symm
INVARIANTS TypeOK UniqueDomains CacheMatchesFiles LossIsBounded
PROPERTIES ImplementsAddressBook
