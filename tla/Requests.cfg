CONSTANTS
  Request = {r1, r2, r3}
  ResponseId <- SomeIds
  Field = {f1, f2}
  IntMax = 3
  SizeMax = 7
  MaxId = 2
  None = None
  NoNumber = NoNumber
  Nobody = Nobody
SPECIFICATION Spec
SYMMETRY Symmetry
INVARIANTS NumbersDistinct RightResponse OutsideOnlyForZero WholeCopies LoggedOnce
