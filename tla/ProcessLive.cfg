SPECIFICATION FairSpec
CONSTANTS
  Conns = {c1, c2}
  NoConn = NoConn
  ServerFd = 3
  Fds = {4, 5}
  MaxRequests = 1
  BodyLens = {2}
  BufLen = 3
  MaxReads = 1
  Envs = {e1}
  MaxFires = 2
  InitTasks = 1
  MayReuse = FALSE
  MaySplit = FALSE
CHECK_DEADLOCK FALSE
INVARIANT PinsExact
PROPERTIES Serves Unpins
