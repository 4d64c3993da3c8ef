CONSTANTS
  Nil = nil
  Cells = {nil, c2, c3, c4, c5, c6}
  Arity = 1
  NRegs = 1
  Settings <- Programs
  GrowChunk = 2
  MaxRequest = 2
  MayRace = FALSE
  MayFill = FALSE
  MayUnlink = FALSE
  MayForce = FALSE
  MayStoreFirst = FALSE
  MayHide = FALSE
VIEW View
SYMMETRY Symmetry
SPECIFICATION Spec
INVARIANTS RingIntact ColoursMatch
PROPERTIES Refines RefinesHandshake
