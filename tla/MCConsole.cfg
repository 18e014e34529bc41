SPECIFICATION MCSpec
CONSTANTS
  DigitCap = 2
  RxDepth = 3
  RxBytes = {"a", "b"}
  TxBytes = {"0", "x"}
  MaxTx = 7
  SavePoints = "lineEnd"
  Clients = {"a", "b"}
  RxSize = 1
  MaxSend = 2
  MaxPut = 2
  MaxStarts = 2
  None = None
INVARIANTS ReceiveAccounted ThreNotForgotten FilterFaithful 
PROPERTIES OutputReachesClient 
CHECK_DEADLOCK FALSE
