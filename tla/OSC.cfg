SPECIFICATION Spec
CONSTANTS
  Word = 4
  MaxString = 2
  Procs = {p1}
  Servers = {s1, s2}
  None = None
  Args <- SmallArgs
  Foreign <- ForeignPackets
  MaxPackets = 2
  MaxOptions = 2
  MayReset = FALSE
  Conns = {"c1", "c2"}
  Payloads <- SmallPayloads
  Junk = {"c2"}
  BufLen = 4
  Nobody = Nobody
INVARIANTS  WholePackets Lossless StuckHasCause
PROPERTIES AddressAsAsked Progress
CHECK_DEADLOCK FALSE
