CONSTANTS
  Options <- SomeOptions
  Lists <- SomeLists
  IntMax = 31
  Decimals = 2
  EPS = 20
SPECIFICATION PagingSpec
INVARIANTS ReadsInRange PageIsSlice GroupIsBalanced ComparesConsistently NumbersByValue
