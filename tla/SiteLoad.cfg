CONSTANTS
  MaxSize = 5
  Feeds <- SomeFeeds
SPECIFICATION LoadSpec
INVARIANTS NoDangling BothWays LastIsLast FreedOnce
