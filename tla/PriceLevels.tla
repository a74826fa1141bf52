---------------------------- MODULE PriceLevels ----------------------------
(***************************************************************************)
(* The printed order book of pe_orderbook.c: for one product and one side, *)
(* a singly linked list of price levels, highest price first, with the     *)
(* number of its nodes cached beside it (buy_len or sell_len).  A level    *)
(* holds the total quantity and the number of the orders at its price.     *)
(* The list is a sequence here; `ladder' is the list with its cached       *)
(* length.  The operators are pure, so that OrderBook can apply them to    *)
(* every ladder it keeps.                                                  *)
(***************************************************************************)
EXTENDS Integers, Sequences, SequencesExt

CONSTANT IntMax   \* INT_MAX: the quantity of a level is a C int

ASSUME IntMaxAssumption == IntMax \in Nat \ {0}

\* An int after two's complement wrap-around.
Wrap(x) == ((x + IntMax + 1) % (2 * (IntMax + 1))) - (IntMax + 1)

Level  == [quantity : Int, price : Nat, numOrders : Int]
Ladder == [list : Seq(Level), len : Nat]

EmptyLadder == [list |-> <<>>, len |-> 0]

\* set_len: the cached length is recounted from the list.
SetLen(list) == [list |-> list, len |-> Len(list)]

CreatePrintedOrder(o) ==
  [quantity |-> o.quantity, price |-> o.price, numOrders |-> 1]

\* Where the search loop of add_to_prints stops: the first node whose
\* successor is missing or has a lower price.
SearchStop(list, price) ==
  CHOOSE k \in DOMAIN list :
    /\ k = Len(list) \/ list[k + 1].price < price
    /\ \A j \in 1 .. k - 1 : list[j + 1].price >= price

\* Mutant: an order at an existing price gets a level of its own.
AddToPrintsDuplicating(list, o) ==
  IF list = <<>> \/ list[1].price < o.price
  THEN <<CreatePrintedOrder(o)>> \o list
  ELSE InsertAt(list, SearchStop(list, o.price) + 1, CreatePrintedOrder(o))

AddToPrints(list, o) ==
  IF list = <<>> \/ list[1].price < o.price
  THEN <<CreatePrintedOrder(o)>> \o list
  ELSE LET k == SearchStop(list, o.price)
       IN  IF list[k].price = o.price
           THEN [list EXCEPT ![k] = [quantity  |-> Wrap(@.quantity + o.quantity),
                                     price     |-> @.price,
                                     numOrders |-> @.numOrders + 1]]
           ELSE InsertAt(list, k + 1, CreatePrintedOrder(o))

AddOrderPrints(ladder, o) == SetLen(AddToPrints(ladder.list, o))

\* Unlinks node k; a ladder whose cached length is one is simply emptied.
RemoveFromProducts(ladder, k) ==
  IF ladder.len = 1 THEN <<>> ELSE RemoveAt(ladder.list, k)

\* Takes the order out of the level at its price, and the level out of the
\* list when no quantity is left.
DeleteOrderPrints(ladder, o) ==
  LET at == {k \in DOMAIN ladder.list : ladder.list[k].price = o.price}
      k  == CHOOSE k \in at : \A j \in at : k <= j
      left == [quantity  |-> Wrap(ladder.list[k].quantity - o.quantity),
               price     |-> ladder.list[k].price,
               numOrders |-> ladder.list[k].numOrders - 1]
  IN  IF at = {} THEN ladder.list
      ELSE IF left.quantity = 0 THEN RemoveFromProducts(ladder, k)
      ELSE [ladder.list EXCEPT ![k] = left]

CancelOrderPrints(ladder, o) == SetLen(DeleteOrderPrints(ladder, o))
-----------------------------------------------------------------------------
\* What the code relies on when it searches or shortens a ladder: the cached
\* length is right, and the prices strictly decrease.
WellKept(ladder) ==
  /\ ladder.len = Len(ladder.list)
  /\ \A j, k \in 1 .. Len(ladder.list) : j < k => ladder.list[j].price > ladder.list[k].price
=============================================================================
