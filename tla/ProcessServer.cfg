SPECIFICATION Spec
CONSTANTS
  Conns = {c1, c2}
  NoConn = NoConn
  ServerFd = 3
  Fds = {4, 5}
  MaxRequests = 2
  BodyLens = {3}
  BufLen = 3
  MaxReads = 0
  Envs = {}
  MaxFires = 0
  InitTasks = 0
  MayReuse = TRUE
  MaySplit = FALSE
CHECK_DEADLOCK FALSE
INVARIANTS SocketsOpen Conserved CutKeepsOrder RepliesToAsker
