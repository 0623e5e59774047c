CONSTANTS
  Loader = {l1, l2}
  MaxVersion = 2
  NoFile = NoFile
SPECIFICATION Spec
SYMMETRY Symmetry
INVARIANTS WholeAnswer CopyKept
