\* One ordinary file of the loader, one package, three versions of each.
SPECIFICATION FairSpec
CONSTANTS
  Kept = {f1}
  Packages = {p1}
  NoPackage = NoPackage
  Empty = Empty
  MaxVersion = 3
  MaxLoads = 2
INVARIANTS TypeOK LoadedIsCurrent UpToDate DataNotOlder
PROPERTIES StartsEnd
