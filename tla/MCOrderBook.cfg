SPECIFICATION LedgerSpec
CONSTANTS
  Unlisted = Unlisted
  NoOrder = NoOrder
  Traders = {t1, t2}
  Products = {gpu}
  MaxQuantity = 2
  MaxPrice = 2
  MaxOrderId = 1
  FeeDivisor = 2
  IntMax = 100
  Commands <- MCCommands
SYMMETRY TraderSymmetry
INVARIANTS
  TypeOK
  OrderIdsUnique
  Uncrossed
  LevelsMirrorBook
  MoneyConserved
  LedgerAgrees
VIEW ledgerState
PROPERTIES
  MessagesToTheLiving
  TimePriorityKept
  LimitsRespected
