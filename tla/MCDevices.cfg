SPECIFICATION MCSpec
CONSTANTS
  Cells = {"c1", "c2"}
  Values = {"rom", "v1", "v2"}
  Erased = "FF"
  CellSeq <- TwoCells
  Envs <- TwoEnvs
  RomEnv = "rom"
  Window = 2
  StatusReads = 2
  MaxFails = 1
  MaxStops = 2
  None = None
  SectorWords = 2
  BlockWords = 3
  CdbWords = 6
  Capacity <- ThreeAndTwo
  DiskRequests <- SomeReads
  PacketRequests <- SomePackets
  Nodes = {"nv", "led"}
  Indicators = {"led"}
  Size = 2
  Bytes = {0, 1}
  Requests <- SomeTransfers
  Variants = {"tsunami"}
  KeepCount = 1
  MaxTime = 2
  MaxFiles = 2
  MaxFull = 1
INVARIANTS DiskIsWhole  ReadDelivers IicReadsBack WaitIsWoken MachineIsWhole
PROPERTIES NoStaleClobber ChangePersists
