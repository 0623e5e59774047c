CONSTANTS
  Client = {c1, c2, c3}
  Key = {k1, k2}
  Lease = 2
  NoClient = NoClient
  NoKey = NoKey
SPECIFICATION FairSpec
INVARIANTS LeaseExclusive
PROPERTY DeadRowPurged
