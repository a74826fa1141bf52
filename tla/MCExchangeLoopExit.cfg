SPECIFICATION Spec
CONSTANTS
  Traders = {t1, t2}
  None = None
  Slots = 2
  Messages = {"command"}
  MaxMessages = 0
  MaxOdd = 0
INVARIANTS
  RunsUntilAllLeft
CHECK_DEADLOCK FALSE
