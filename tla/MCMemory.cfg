SPECIFICATION MCSpec
CONSTANTS
  Vpns = {0, 1}
  Asns = {0, 1}
  Pfns = {f}
  f = f
  GhBits = 1
  MaxGh = 1
  Shards = {0, 1}
  Ways = 2
  ShardOf <- SumShard
  None = None
  Absent = Absent
  Kinds <- SomeKinds
  MaxFlushes = 1
  Procs = {"p", "q"}
  AsnOf <- TwoAsns
  MaxVersion = 1
  ProcFrames <- OwnFrames
  ByteBits = 1
  PageBytes = 8
  FrameOf <- Scattered
  Frames = {0, 1, 2}
  Jobs <- AllJobs
  ExpBits = 4
  FracBits = 3
  SExpBits = 3
  SFracBits = 1
  Guard = 3
  Operands = {0, 5, 9, 56, 61, 64, 68, 72, 84, 116, 121, 127, 128, 184, 192, 247}
  Dyns = {"near"}
  Claimed = {"sum", "MUL", "DIV"}
INVARIANTS LookupExact DataIsOwn ProgramsCompute FloatExact
PROPERTIES  RefillCompletes
CHECK_DEADLOCK FALSE
