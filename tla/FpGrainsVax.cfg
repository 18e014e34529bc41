SPECIFICATION FloatSpec
CONSTANTS
  ExpBits = 4
  FracBits = 3
  SExpBits = 3
  SFracBits = 1
  Guard = 3
  Operands = {0, 5, 9, 56, 61, 64, 68, 72, 84, 116, 121, 127, 128, 184, 192, 247}
  Dyns = {"near"}
  Claimed = {"difference"}
  Absent = Absent
INVARIANTS FloatExact
CHECK_DEADLOCK FALSE
