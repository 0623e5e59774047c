CONSTANTS
  Worker = {w1, w2}
  Id = {i1, i2}
  Obj = {o1, o2}
  ReapTime = 2
  MaxLag = 1
  NoObj = NoObj
  NoId = NoId
SPECIFICATION FairSpec
INVARIANT OwnSession
PROPERTIES KeptForScript EventuallyReaped
