CONSTANTS
  Worker = {w1, w2}
  Collector = {reaper}
  Conn = {1, 2}
  NoConn = NoConn
SPECIFICATION Spec
INVARIANT ExclusiveUse
