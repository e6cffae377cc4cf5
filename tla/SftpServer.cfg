SPECIFICATION ServerSpec
CONSTANTS
  Word = 64
  Paths <- MCPaths
  Pflags = {0, 1, 2, 3, 9, 26, 63, 4}
  Offsets = {0, 3, 100}
  GlobNames = {"a", "b"}
  GlobDepth = 2
  MemNames = {"a", "b"}
  MemDepth = 2
  MaxFiles = 3
  MemTargets <- MCMemTargets
  MaxContent = 3
  Makers = {u1, u2, u3}
  DirDepth = 2
  MaxFilelist = 2
  ListLengths = {0, 1, 2, 3, 4, 5}
INVARIANTS RequestsArrive  GlobMatches BackendsSound
PROPERTIES RenameKeepsFiles
CHECK_DEADLOCK FALSE
