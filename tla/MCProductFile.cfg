SPECIFICATION Spec
CONSTANTS
  MaxProd = 2
  Counts = {0, 1, 2, 3}
  MaxLength = 3
  MaxLines = 4
INVARIANTS
  TypeOK
  ReadAsWritten
  OneBeyondAtMost
CHECK_DEADLOCK FALSE
