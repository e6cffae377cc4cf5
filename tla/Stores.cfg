SPECIFICATION StoresSpec
CONSTANTS
  Names = {"a", "b"}
  Profiles = {p1, p2}
  Requests = {r1, r2}
  BoltRequests = {r1}
  Renames = FALSE
  MaxId = 3
  MaxUsed = 1
  MaxName = 3
  PageSize = 1
  Minutes = {0, 1}
  DefaultExpire = 1
  MaxNow = 3
  MaxExpiryId = 3
  MaxAccount = 3
  ManageUsers = 1
  Bodies <- MCBodies
  FirstBody <- MCFirstBody
  Words = {"w1", "w2"}
  Keys = {"k1", "k2"}
  MaxLimit = 2
  Limits = {1, 3}
  MaxAccountSteps = 4
INVARIANTS IndexAgrees 
PROPERTIES BoltImplementsDirectory SqlKeepsUsers ExpiryExact
CHECK_DEADLOCK FALSE
