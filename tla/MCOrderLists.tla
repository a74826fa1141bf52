---------------------------- MODULE MCOrderLists ----------------------------
(* Small instances of OrderLists for TLC: one product. *)
EXTENDS OrderLists

CONSTANTS Buy, Sell

OneProduct == {Buy, Sell}
OtherSide == [l \in OneProduct |-> IF l = Buy THEN Sell ELSE Buy]
=============================================================================
