SPECIFICATION ClientSpec
CONSTANTS
  Calls <- MCCalls
  Window <- MCWindow
  MaxRequests <- MCMaxRequests
  MaxPacket = 2
  MaxConcurrent = 3
  MaxSize = 6
  Users = {u1, u2}
  Names = {n1, n2}
  MaxDepth = 2
  CliJobs <- MCCliJobs
  SourceTree <- MCSource
  DestTrees <- MCDests
  CliNames <- MCNames
  MaxCliFaults = 2
INVARIANTS ConnectionServes  PathCallsRight CopiesFaithful
PROPERTIES CallsEnd
CHECK_DEADLOCK FALSE
