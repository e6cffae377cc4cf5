CONSTANTS
  WorkerCount = 2
  MaxPackets = 3
  IdMod = 16
SPECIFICATION FairSpec
INVARIANTS CloseAfterEarlier
PROPERTIES ImplementsOrderedReplies SessionProgresses
