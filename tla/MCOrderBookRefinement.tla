----------------------- MODULE MCOrderBookRefinement -----------------------
(* A small instance of OrderBookRefinement for TLC. *)
EXTENDS OrderBookRefinement, TLC

\* Every well-formed message; what the handlers refuse is covered elsewhere.
MCCommands ==
  LET ids == 0 .. MaxOrderId
  IN  [type : {"BUY", "SELL"}, id : ids, product : Products,
       quantity : 1 .. MaxQuantity, price : 1 .. MaxPrice]
      \cup [type : {"AMEND"}, id : ids, quantity : 1 .. MaxQuantity, price : 1 .. MaxPrice]
      \cup [type : {"CANCEL"}, id : ids]

TraderSymmetry == Permutations(Traders)
=============================================================================
