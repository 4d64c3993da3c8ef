CONSTANTS
  Nil = nil
  Cells = {nil, c2, c3, c4, c5}
  Arity = 1
  NRegs = 1
  Settings <- Five
  GrowChunk = 2
  MaxRequest = 2
  MayRace = TRUE
  MayFill = FALSE
  MayUnlink = FALSE
  MayForce = FALSE
  MayStoreFirst = FALSE
  MayHide = FALSE
VIEW View
SYMMETRY Symmetry
SPECIFICATION Spec
INVARIANT CellIsEmpty
