---------------------------- MODULE MCOrderBook ----------------------------
(* Small instances of OrderBook, with the ledger of its traders, for TLC. *)
EXTENDS OrderLedger, TLC

CONSTANTS Unlisted   \* a product name that is not in the product file

\* The messages with every field in range, and those with one field just
\* outside its range.
MCCommands ==
  LET ids == 0 .. MaxOrderId
      quantities == 1 .. MaxQuantity
      prices == 1 .. MaxPrice
      New(I, P, Q, C) ==
        [type : {"BUY", "SELL"}, id : I, product : P, quantity : Q, price : C]
      Amended(I, Q, C) == [type : {"AMEND"}, id : I, quantity : Q, price : C]
      Off(P, Q, C) == [type : {"BUY"}, id : {0}, product : P, quantity : Q, price : C]
      OffAmended(Q, C) == [type : {"AMEND"}, id : {0}, quantity : Q, price : C]
  IN  New(ids, Products, quantities, prices)
      \cup New({MaxOrderId + 1}, Products, {1}, {1})
      \cup Off({Unlisted}, {1}, {1})
      \cup Off(Products, {0, MaxQuantity + 1}, {1})
      \cup Off(Products, {1}, {0, MaxPrice + 1})
      \cup Amended(ids, quantities, prices)
      \cup OffAmended({0, MaxQuantity + 1}, {1})
      \cup OffAmended({1}, {0, MaxPrice + 1})
      \cup [type : {"CANCEL"}, id : -1 .. MaxOrderId + 1]
      \cup {[type |-> "OTHER"]}

TraderSymmetry == Permutations(Traders)
=============================================================================
