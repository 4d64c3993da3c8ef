SPECIFICATION Spec
CONSTANTS
  Threads = {t1}
  Workers = {w1}
  ZoneIds = {z1, z2, z3, z4}
  Funcs = {f1}
  None = None
  Align = 4
  MinSize = 16
  DefaultSize = 32
  CallSize = 40
  ZoneSizes = {0, 31}
  Requests = {2, 22}
  ClosureShapes <- SmallClosure
  MaxAllocs = 4
  MayStraddle = FALSE
  MayOuter = FALSE
  MayResetHooked = FALSE
SYMMETRY ZoneSymmetry
INVARIANTS InBounds Disjoint PtrInZoneExact HeldLive OneOwner ClosuresSized
CHECK_DEADLOCK FALSE
