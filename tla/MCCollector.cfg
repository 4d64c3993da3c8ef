CONSTANTS
  Nil = nil
  Cells = {nil, c1, c2, c3}
  Regs = {r1, r2}
  Fields = {car}
SPECIFICATION Spec
INVARIANT NoLiveFreed
INVARIANT Precise
