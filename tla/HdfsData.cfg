SPECIFICATION DataSpec
CONSTANTS
  BlockSizes <- MCBlockSizes
  Locations <- MCLocations
  ChunkSize = 3
  PacketChunks = 1
  Damaged <- MCDamaged
  Lengths = {1, 4}
  Offsets = {6, 8}
  MaxCalls = 3
  Replicas <- MCReplicas
  Names = {1, 2, 3, 4}
  Batch = 2
  Parts = {0, 1, 2, 3}
  Page = 2
  MaxChanges = 2
  FileSize = 5
  Length = 2
  Window = 1
  BlockSize = 3
  Sizes = {2, 7}
  OldFiles = {2, 3}
  MaxFile = 11
  PacketSize = 2
  outboundChunkSize = 2
  MaxQueue = 1
  FirstOffset = 1
  WriteSizes = {1, 3}
  MaxUnits = 3
  MaxBeats = 1
  HostList <- MCHostList
  Qop <- MCQop
  Users = {u1}
  MaxExecutes = 1
  MaxFaults = 2
  MaxExpiries = 1
  Offers <- MCOffers
  Enforced = {"", "integrity", "privacy"}
  FrameSizes = {2, 4}
  ReadSizes = {2}
  MaxSealed = 6
INVARIANTS  WritesStored CallsOnce  
PROPERTIES CallsReturn
CHECK_DEADLOCK FALSE
