SPECIFICATION MCSpec
CONSTANTS
  Agents = {a1, a2, a3}
  Addrs = {x, y}
  None = None
  N = 3
  LockEveryN = 2
  LockAddr <- MCLockAddr
  AlphaCycles <- MCAlphaCycles
  Quantum = 2
  Untils = {5, 9}
  MaxLog = 1
  MaxNow = 11
  Cpus = {"c1", "c2"}
  Threads = {"t1", "t2", "t3"}
  Lines = {x, y}
  CpuOf <- Placement
  ReiClears = TRUE
INVARIANT ReservationExact
PROPERTIES ScAtomic  RunReturns ScLosesNoUpdate
CHECK_DEADLOCK FALSE
