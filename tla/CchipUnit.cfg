SPECIFICATION Spec
CONSTANTS
  CpuCount = 2
  MaxCpus = 3
  DevLines = {dev}
  ErrorLine = err
  dev = dev
  err = err
  Sources = {0, 1}
  Writes <- SomeWrites
INVARIANTS
  NxmMirrored
  LatchBacked
  
  OneWinner
