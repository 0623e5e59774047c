CONSTANTS
  Worker = {w1, w2}
  Subdomain = {s1, s2}
  Id = {i1}
  Value = {v1, v2}
  Empty = Empty
  Lifetime = 2
  NoRow = NoRow
  NoCall = NoCall
  NoActor = NoActor
SPECIFICATION SessionCacheSpec
INVARIANTS LastSetAnswered
PROPERTIES KeptFromOthers ExpiredGo
