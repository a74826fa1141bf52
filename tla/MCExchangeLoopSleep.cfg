SPECIFICATION Spec
CONSTANTS
  Traders = {t1, t2}
  None = None
  Slots = 2
  Messages = {"command"}
  MaxMessages = 0
  MaxOdd = 0
PROPERTIES
  EndsWhenAllLeft
CHECK_DEADLOCK FALSE
