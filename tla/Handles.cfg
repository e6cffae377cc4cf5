SPECIFICATION SessionSpec
CONSTANTS
  WorkerCount = 2
  MaxPackets = 3
  IdMod = 16
  Named = {1}
  PagedKinds = {"rw", "close"}
INVARIANTS HandlesKept PagesKept
