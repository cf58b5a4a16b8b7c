\* One client; two domains, and one DNS server that may stop and start again.
SPECIFICATION FairSpec
CONSTANTS
  Domains = {d1, d2}
  Hosts = {h1}
  Places = {p1}
  None = None
  Never = Never
  Tries = 2
  MaxTime = 2
  Ttl = 1
  MaxSends = 2
  MaxDepth = 2
  MaxChanges = 2
INVARIANTS TypeOK
PROPERTIES UsesAreRecent SendsReturn
