SPECIFICATION TreeSpec

CONSTANTS
  Paths <- MCPaths
  Trees <- MCTrees
  Clients = {s1, s2}
  Methods = {"Mkdir", "MkdirAll", "Remove", "Rmdir", "RemoveAll", "Rename", "Put"}
  MaxRequests = 1
  MaxFailing = 1
  Commands <- MCCommands
  MaxOther = 2
  Walks <- MCWalks
  LocalTree <- MCLocalTree
  SourceName = 3
  GlobArgs <- MCGlobArgs
  Home <- MCHome
  tailSearchSize = 3
  FileSizes = {0, 1, 2, 3, 4, 5, 6}
  LineCounts = {1, 2, 3}
  Setups <- MCSetups
  Vars = {"$h", "$d"}
  MaxDials = 3

    
PROPERTIES TreeKept
CHECK_DEADLOCK FALSE
