CONSTANTS
  Worker = {w1, w2}
  Subdomain = {s1}
  All = All
  Broken = {}
  MaxVersion = 3
  MaxQueue = 1
  MaxThreads = 1
  NoSite = NoSite
  NoWorker = NoWorker
  NoThread = NoThread
SPECIFICATION FairSpec
INVARIANTS LoadedOnce ReloadTakesEffect
PROPERTIES NeverReplaced MutexReleased
