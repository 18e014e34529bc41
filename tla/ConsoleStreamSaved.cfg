SPECIFICATION Spec
CONSTANTS
  DigitCap = 2
  MaxTx = 7
  SavePoints = "any"
INVARIANTS TxConserved
CHECK_DEADLOCK FALSE
