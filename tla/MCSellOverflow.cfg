SPECIFICATION LedgerSpec
CONSTANTS
  Unlisted = Unlisted
  NoOrder = NoOrder
  Traders = {t1, t2}
  Products = {gpu}
  MaxQuantity = 3
  MaxPrice = 3
  MaxOrderId = 0
  FeeDivisor = 2
  IntMax = 7
  Commands <- MCCommands
PROPERTIES
  LimitsRespected
