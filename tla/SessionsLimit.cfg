SPECIFICATION ConnectionSpec
CONSTANTS
  c1 = c1
  c2 = c2
  Conns = {c1, c2}
  SlotsOf <- MCSlotsOf
  Users = {"limited", "hdfs"}
  MaxSessions <- MCMaxSessions
  IdleTimeout = 0
  HdfsUsers = {"hdfs"}
  Jobs = {}
  HomeTree <- MCHomeTree
  BindAddrs <- MCBindAddrs
  FreePorts = {2, 3}
  MaxListeners = 3
  MaxTunnels = 1
  ReqBuffer = 2
  MaxAsked = 4
INVARIANTS SessionLimit
CHECK_DEADLOCK FALSE
