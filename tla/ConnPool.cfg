CONSTANTS
  Worker = {w1, w2, w3}
  Collector = {reaper}
  Conn = {1, 2}
  NoConn = NoConn
SPECIFICATION FairSpec
INVARIANTS NeverGetsThere WorkersExclusive NoLostWakeup
PROPERTIES AbstractSpec WaiterServed
