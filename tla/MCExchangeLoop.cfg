SPECIFICATION Spec
CONSTANTS
  Traders = {t1, t2}
  None = None
  Slots = 2
  Messages = {"command", ";", "huge", "long name", "long line"}
  MaxMessages = 3
  MaxOdd = 1
INVARIANTS
  TypeOK
  DeathsCountedOnce
  DeadAreGone
  
PROPERTIES
  
  ClosedPipesNoticed
CHECK_DEADLOCK FALSE
