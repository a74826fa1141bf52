SPECIFICATION Spec
CONSTANTS
  NoOrder = NoOrder
  Traders = {t1, t2, t3}
  Products = {gpu}
  MaxQuantity = 3
  MaxPrice = 2
  MaxOrderId = 0
  FeeDivisor = 2
  IntMax = 100
  Commands <- MCCommands
SYMMETRY TraderSymmetry
VIEW state
PROPERTIES
  KeepsPromise
