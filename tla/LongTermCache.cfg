CONSTANTS
  Worker = {w1, w2}
  Key = {k1}
  Value = {v1, v2}
  Empty = Empty
  MaxDays = 1
  RenewBelow = 1
  NoRow = NoRow
  NoKey = NoKey
SPECIFICATION FairSpec
INVARIANTS CopyMatchesRow RowKept
PROPERTY Converges
