SPECIFICATION Spec
CONSTANTS
  Quantities = {0, 1, 2}
  Limit = 2
  MaxNews = 4
INVARIANTS
  TypeOK
  ReadsNeverBlock
  InStep
  EmptyReadNeedsResend
PROPERTIES
  WaitEnds
CHECK_DEADLOCK FALSE
