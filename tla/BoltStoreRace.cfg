SPECIFICATION BoltSpec
CONSTANTS
  Names = {"a", "b"}
  Profiles = {p1, p2}
  Requests = {r1, r2}
  BoltRequests = {r1, r2}
  Renames = FALSE
  MaxId = 3
  MaxUsed = 1
INVARIANTS IndexAgrees
CHECK_DEADLOCK FALSE
