CONSTANTS
  Worker = {w1, w2}
  Key = {k1, k2, k3}
  Data = {o1, o2, o3, o4}
  MaxSize = 2
  NoData = NoData
  NoKey = NoKey
SPECIFICATION UsedSpec
SYMMETRY Symmetry
INVARIANTS OwnQuery NodesOutliveQueries ListMatchesIndex LeastRecentGoes
