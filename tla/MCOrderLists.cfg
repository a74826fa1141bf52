SPECIFICATION Spec
CONSTANTS
  Orders = {o1, o2, o3, o4, o5}
  Null = Null
  Dangling = Dangling
  Buy = Buy
  Sell = Sell
  Lists <- OneProduct
  Opposite <- OtherSide
INVARIANTS
  TypeOK
  ChainsMatchLists
  EachOrderOnce
  FreedOnceAndAll
