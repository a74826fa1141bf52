SPECIFICATION Spec
CONSTANTS
  Quantities = {1}
  Limit = 2
  MaxNews = 2
PROPERTIES
  WaitsForAcceptance
CHECK_DEADLOCK FALSE
