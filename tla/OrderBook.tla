----------------------------- MODULE OrderBook -----------------------------
(***************************************************************************)
(* The exchange's order book (pe_orderbook.c) driven by the messages of    *)
(* the traders (parse_msg and the handlers below it in pe_pipes.c).        *)
(*                                                                         *)
(* A trader's message is read as a record: its fields are the ones the     *)
(* code scans out of the text.  A BUY, SELL or AMEND leaves a `taker': the *)
(* order check_for_match is working on, held by no list.  Each pass of its *)
(* loop is a step (Match) and its end is a step (Rest), so that what holds *)
(* between two passes is checked too.  The process is single threaded: no  *)
(* other message is read until the taker is gone.                          *)
(*                                                                         *)
(* `out' holds, for each trader, what the last step wrote to its pipe.     *)
(***************************************************************************)
EXTENDS PriceLevels, FiniteSets, FiniteSetsExt

CONSTANTS
  Traders,      \* the traders forked by the exchange
  Products,     \* the products in the product file
  MaxQuantity,  \* 999999
  MaxPrice,     \* 999999
  MaxOrderId,   \* 999999
  FeeDivisor,   \* 100: a fee of FEE_PERCENTAGE percent
  Commands,     \* the messages traders may send
  NoOrder       \* the absence of an order

Sides == {"buy", "sell"}

Order == [trader : Traders, id : Nat, product : Products, side : Sides,
          quantity : 1 .. MaxQuantity, price : 1 .. MaxPrice]

ASSUME OrderBookAssumption ==
  /\ IsFiniteSet(Traders) /\ IsFiniteSet(Products)
  /\ MaxQuantity \in 1 .. IntMax
  /\ MaxPrice \in 1 .. IntMax
  /\ MaxOrderId \in Nat
  /\ FeeDivisor \in Nat \ {0}
  /\ NoOrder \notin Order

\* The messages are what the scanf calls of the handlers can yield; "OTHER"
\* stands for a text that no handler can scan.
ASSUME CommandsAssumption ==
  \A m \in Commands :
    /\ m.type \in {"BUY", "SELL", "AMEND", "CANCEL", "OTHER"}
    /\ m.type # "OTHER" => m.id \in Int
    /\ m.type \in {"BUY", "SELL", "AMEND"} => m.quantity \in Int /\ m.price \in Int

VARIABLES
  book,    \* book[p][s]: the orders of side s on product p, oldest first
  levels,  \* levels[p][s]: the printed ladder of side s on product p
  nextId,  \* nextId[t]: the order ID expected of trader t
  alive,   \* alive[t]: trader t has not been seen to disconnect
  pos,     \* pos[t][p]: quantity and balance of trader t in product p
  fees,    \* exchange_fees
  taker,   \* the order being matched, or NoOrder
  out      \* out[t]: the messages written to trader t by the last step

books == <<book, levels>>
accounts == <<pos, fees>>
state == <<book, levels, nextId, alive, pos, fees, taker>>
vars == <<book, levels, nextId, alive, pos, fees, taker, out>>
-----------------------------------------------------------------------------
(* Messages of the exchange *)

Invalid           == [type |-> "INVALID"]
Ack(type, id)     == [type |-> type, id |-> id]
Fill(id, n)       == [type |-> "FILL", id |-> id, quantity |-> n]
Market(s, p, q, c) ==
  [type |-> "MARKET", side |-> s, product |-> p, quantity |-> q, price |-> c]

\* The answer to the sender, and the news to every other live trader.
Announce(t, answer, news) ==
  out' = [u \in Traders |-> IF u = t THEN <<answer>>
                            ELSE IF alive[u] THEN <<news>> ELSE <<>>]

\* Mutant: the fills are written without looking at the alive flag.
WriteFillBlindly(buy, sell, n) ==
  out' = [u \in Traders |->
            (IF u = buy.trader THEN <<Fill(buy.id, n)>> ELSE <<>>) \o
            (IF u = sell.trader THEN <<Fill(sell.id, n)>> ELSE <<>>)]

\* Mutant: both fills carry the quantity of the buy.
WriteFillOfBuy(buy, sell, n) ==
  out' = [u \in Traders |->
            (IF u = buy.trader /\ alive[u] THEN <<Fill(buy.id, n)>> ELSE <<>>) \o
            (IF u = sell.trader /\ alive[u] THEN <<Fill(sell.id, buy.quantity)>> ELSE <<>>)]

\* write_fill: first to the buyer, then to the seller, if they are alive.
WriteFill(buy, sell, n) ==
  out' = [u \in Traders |->
            (IF u = buy.trader /\ alive[u] THEN <<Fill(buy.id, n)>> ELSE <<>>) \o
            (IF u = sell.trader /\ alive[u] THEN <<Fill(sell.id, n)>> ELSE <<>>)]
-----------------------------------------------------------------------------
(* The lists *)

Opposite(s) == IF s = "buy" THEN "sell" ELSE "buy"

\* find_order: where the orders of trader t with this ID are.  The code
\* returns the first one, and OrderIdsUnique says that there is no other.
FindOrder(t, id) ==
  {at \in UNION {{p} \X {s} \X DOMAIN book[p][s] : p \in Products, s \in Sides} :
     LET o == book[at[1]][at[2]][at[3]] IN o.trader = t /\ o.id = id}

\* Mutant: an order at exactly the limit is not taken.
CrossesStrictly(taking, resting) ==
  IF taking.side = "buy" THEN resting.price < taking.price
                         ELSE resting.price > taking.price

Crosses(taking, resting) ==
  IF taking.side = "buy" THEN resting.price <= taking.price
                         ELSE resting.price >= taking.price

\* Whether a is a strictly better price than b for whoever takes it.
BetterPrice(a, b) ==
  IF a.side = "sell" THEN a.price < b.price ELSE a.price > b.price

\* Mutant: "only take if strictly lesser" becomes "lesser or equal", so that
\* the newest of the orders at the best price is found.
FindBestNewest(o) ==
  LET list == book[o.product][Opposite(o.side)]
  IN  {i \in DOMAIN list :
         /\ Crosses(o, list[i])
         /\ \A j \in DOMAIN list : ~ BetterPrice(list[j], list[i])
         /\ \A j \in i + 1 .. Len(list) : BetterPrice(list[i], list[j])}

\* find_best_sell and find_best_buy: the oldest of the orders at the best
\* price, if that price crosses.  There is none or one: only a strictly better
\* price replaces an older order, and every price is above find_best_buy's
\* initial maximum of zero.
FindBest(o) ==
  LET list == book[o.product][Opposite(o.side)]
  IN  {i \in DOMAIN list :
         /\ Crosses(o, list[i])
         /\ \A j \in DOMAIN list : ~ BetterPrice(list[j], list[i])
         /\ \A j \in 1 .. i - 1 : BetterPrice(list[i], list[j])}
-----------------------------------------------------------------------------
(* The messages of the traders *)

Idle == taker = NoOrder

OrderSide(m) == IF m.type = "BUY" THEN "buy" ELSE "sell"

\* Mutant: a quantity or a price of zero gets through.
ValidTermsAbove(m) == m.quantity <= MaxQuantity /\ m.price <= MaxPrice

ValidTerms(m) == m.quantity \in 1 .. MaxQuantity /\ m.price \in 1 .. MaxPrice

\* Mutant: the ID of a new order need not be the next one.
ValidNewAnyId(t, m) ==
  /\ m.type \in {"BUY", "SELL"}
  /\ m.product \in Products
  /\ m.id \in 0 .. MaxOrderId
  /\ ValidTerms(m)

\* The checks of create_buy_sell_order and create_order.
ValidNew(t, m) ==
  /\ m.type \in {"BUY", "SELL"}
  /\ m.product \in Products
  /\ m.id = nextId[t]
  /\ m.id \in 0 .. MaxOrderId
  /\ ValidTerms(m)

\* The checks of check_valid_amend and of cancel_msg, find_order included.
ValidAmend(t, m) ==
  m.type = "AMEND" /\ ValidTerms(m) /\ m.id \in 0 .. MaxOrderId /\ FindOrder(t, m.id) # {}

ValidCancel(t, m) ==
  m.type = "CANCEL" /\ m.id \in 0 .. MaxOrderId /\ FindOrder(t, m.id) # {}

\* buy_sell_msg, up to check_for_match.
BuySellMsg(t, m) ==
  /\ ValidNew(t, m)
  /\ nextId' = [nextId EXCEPT ![t] = @ + 1]
  /\ taker' = [trader |-> t, id |-> m.id, product |-> m.product, side |-> OrderSide(m),
               quantity |-> m.quantity, price |-> m.price]
  /\ Announce(t, Ack("ACCEPTED", m.id),
                 Market(OrderSide(m), m.product, m.quantity, m.price))
  /\ UNCHANGED <<books, accounts, alive>>

\* Takes the order at position i out of its list and out of its ladder.
Unlist(p, s, i) ==
  /\ levels' = [levels EXCEPT ![p][s] = CancelOrderPrints(@, book[p][s][i])]
  /\ book' = [book EXCEPT ![p][s] = RemoveAt(@, i)]

\* amend_msg, up to check_for_match.
AmendMsg(t, m) ==
  /\ ValidAmend(t, m)
  /\ \E at \in FindOrder(t, m.id) :
       LET o == book[at[1]][at[2]][at[3]]
       IN  /\ taker' = [o EXCEPT !.quantity = m.quantity, !.price = m.price]
           /\ Announce(t, Ack("AMENDED", o.id),
                          Market(o.side, o.product, m.quantity, m.price))
           /\ Unlist(at[1], at[2], at[3])
  /\ UNCHANGED <<accounts, nextId, alive>>

\* cancel_msg.  The other traders are told of a quantity and a price of zero.
CancelMsg(t, m) ==
  /\ ValidCancel(t, m)
  /\ \E at \in FindOrder(t, m.id) :
       LET o == book[at[1]][at[2]][at[3]]
       IN  /\ Announce(t, Ack("CANCELLED", m.id), Market(o.side, o.product, 0, 0))
           /\ Unlist(at[1], at[2], at[3])
  /\ UNCHANGED <<accounts, nextId, alive, taker>>

\* Whatever a handler refuses changes nothing; the sender alone is told.
InvalidMsg(t, m) ==
  /\ ~ (ValidNew(t, m) \/ ValidAmend(t, m) \/ ValidCancel(t, m))
  /\ out' = [u \in Traders |-> IF u = t THEN <<Invalid>> ELSE <<>>]
  /\ UNCHANGED <<books, accounts, nextId, alive, taker>>

\* parse_msg
ParseMsg(t, m) ==
  /\ Idle
  /\ alive[t]
  /\ \/ BuySellMsg(t, m)
     \/ AmendMsg(t, m)
     \/ CancelMsg(t, m)
     \/ InvalidMsg(t, m)
-----------------------------------------------------------------------------
(* check_for_match *)

Fewer(a, b) == IF a <= b THEN a ELSE b

\* round_int(total_price * 0.01): to the nearest, halves away from zero.
Fee(value) ==
  IF value >= 0 THEN (2 * value + FeeDivisor) \div (2 * FeeDivisor)
                ELSE - ((FeeDivisor - 2 * value) \div (2 * FeeDivisor))

\* Mutant: the price of the incoming order is charged.
TotalPriceOfTaker(taking, resting, n) == taking.price * n

\* total_price is computed at the price of the resting order.  It is a long
\* long when the incoming order is a buy and an int when it is a sell.
TotalPrice(taking, resting, n) ==
  IF taking.side = "buy" THEN resting.price * n ELSE Wrap(resting.price * n)

When(condition, n) == IF condition THEN n ELSE 0

\* Mutant: the fee is counted but charged to nobody.
SettleUncharged(taking, resting, n) ==
  LET total  == TotalPrice(taking, resting, n)
      buyer  == IF taking.side = "buy" THEN taking.trader ELSE resting.trader
      seller == IF taking.side = "buy" THEN resting.trader ELSE taking.trader
  IN  /\ fees' = fees + Fee(total)
      /\ pos' = [t \in Traders |-> [pos[t] EXCEPT ![taking.product] =
                  [quantity |-> Wrap(@.quantity + When(t = buyer, n) - When(t = seller, n)),
                   balance |-> @.balance + When(t = seller, total) - When(t = buyer, total)]]]

\* The fee, update_inventory and print_match, which adds up the fees.
Settle(taking, resting, n) ==
  LET total  == TotalPrice(taking, resting, n)
      buyer  == IF taking.side = "buy" THEN taking.trader ELSE resting.trader
      seller == IF taking.side = "buy" THEN resting.trader ELSE taking.trader
  IN  /\ fees' = fees + Fee(total)
      /\ pos' = [t \in Traders |-> [pos[t] EXCEPT ![taking.product] =
                  [quantity |-> Wrap(@.quantity + When(t = buyer, n) - When(t = seller, n)),
                   balance |-> @.balance + When(t = seller, total) - When(t = buyer, total)
                                         - When(t = taking.trader, Fee(total))]]]

\* Mutant: what is left of a resting order goes to the tail of its list.
ReduceToTail(p, s, i, n) ==
  LET o == book[p][s][i]
      rest == [o EXCEPT !.quantity = @ - n]
  IN  /\ levels' = [levels EXCEPT ![p][s] = AddOrderPrints(CancelOrderPrints(@, o), rest)]
      /\ book' = [book EXCEPT ![p][s] = Append(RemoveAt(@, i), rest)]

\* What is left of a resting order stays in its place in the list, but goes
\* through the ladder again.
Reduce(p, s, i, n) ==
  LET o == book[p][s][i]
      rest == [o EXCEPT !.quantity = @ - n]
  IN  /\ levels' = [levels EXCEPT ![p][s] = AddOrderPrints(CancelOrderPrints(@, o), rest)]
      /\ book' = [book EXCEPT ![p][s][i] = rest]

\* One pass of the loop: match_new_buy or match_new_sell.
Match ==
  /\ ~ Idle
  /\ \E i \in FindBest(taker) :
       LET p == taker.product
           s == Opposite(taker.side)
           resting == book[p][s][i]
           n == Fewer(taker.quantity, resting.quantity)
       IN  /\ IF taker.side = "buy" THEN WriteFill(taker, resting, n)
                                    ELSE WriteFill(resting, taker, n)
           /\ Settle(taker, resting, n)
           /\ IF resting.quantity = n THEN Unlist(p, s, i) ELSE Reduce(p, s, i, n)
           /\ taker' = IF taker.quantity = n THEN NoOrder
                                             ELSE [taker EXCEPT !.quantity = @ - n]
  /\ UNCHANGED <<nextId, alive>>

\* Nothing crosses any more: add_order_prints and add_order.
Rest ==
  /\ ~ Idle
  /\ FindBest(taker) = {}
  /\ levels' = [levels EXCEPT ![taker.product][taker.side] = AddOrderPrints(@, taker)]
  /\ book' = [book EXCEPT ![taker.product][taker.side] = Append(@, taker)]
  /\ taker' = NoOrder
  /\ out' = [t \in Traders |-> <<>>]
  /\ UNCHANGED <<accounts, nextId, alive>>
-----------------------------------------------------------------------------
\* trader_died: the orders of the trader stay in the book.
TraderDied(t) ==
  /\ Idle
  /\ alive[t]
  /\ alive' = [alive EXCEPT ![t] = FALSE]
  /\ out' = [u \in Traders |-> <<>>]
  /\ UNCHANGED <<books, accounts, nextId, taker>>

\* The exchange has shut down.
Completed ==
  /\ \A t \in Traders : ~ alive[t]
  /\ UNCHANGED vars

Init ==
  /\ book = [p \in Products |-> [s \in Sides |-> <<>>]]
  /\ levels = [p \in Products |-> [s \in Sides |-> EmptyLadder]]
  /\ nextId = [t \in Traders |-> 0]
  /\ alive = [t \in Traders |-> TRUE]
  /\ pos = [t \in Traders |-> [p \in Products |-> [quantity |-> 0, balance |-> 0]]]
  /\ fees = 0
  /\ taker = NoOrder
  /\ out = [t \in Traders |-> <<>>]

Next ==
  \/ \E t \in Traders, m \in Commands : ParseMsg(t, m)
  \/ Match
  \/ Rest
  \/ \E t \in Traders : TraderDied(t)
  \/ Completed

Spec == Init /\ [][Next]_vars
-----------------------------------------------------------------------------
(* Properties *)

Message ==
  [type : {"INVALID"}]
  \cup [type : {"ACCEPTED", "AMENDED", "CANCELLED"}, id : Nat]
  \cup [type : {"FILL"}, id : Nat, quantity : Nat]
  \cup [type : {"MARKET"}, side : Sides, product : Products, quantity : Nat, price : Nat]

\* The shape of the state.
TypeOK ==
  /\ book \in [Products -> [Sides -> Seq(Order)]]
  /\ levels \in [Products -> [Sides -> Ladder]]
  /\ nextId \in [Traders -> Nat]
  /\ alive \in [Traders -> BOOLEAN]
  /\ pos \in [Traders -> [Products -> [quantity : Int, balance : Int]]]
  /\ fees \in Int
  /\ taker \in Order \cup {NoOrder}
  /\ out \in [Traders -> Seq(Message)]

\* Every list holds orders of its own product and side, each with an ID that
\* its trader has already used.
Filed ==
  /\ \A p \in Products, s \in Sides : \A i \in DOMAIN book[p][s] :
       LET o == book[p][s][i]
       IN  o.product = p /\ o.side = s /\ o.id < nextId[o.trader]
  /\ ~ Idle => taker.id < nextId[taker.trader]

SameOrder(a, b) == a.trader = b.trader /\ a.id = b.id

\* No trader has two live orders with the same ID, in whatever lists they are
\* and even while one is being matched: find_order stops at the first.
OrderIdsUnique ==
  /\ \A p, q \in Products, s, r \in Sides :
       \A i \in DOMAIN book[p][s], j \in DOMAIN book[q][r] :
          SameOrder(book[p][s][i], book[q][r][j]) => p = q /\ s = r /\ i = j
  /\ ~ Idle => \A p \in Products, s \in Sides : \A i \in DOMAIN book[p][s] :
                  ~ SameOrder(book[p][s][i], taker)

\* At no time, not even between two passes of the matching loop, does the book
\* hold a buy and a sell that could trade: check_for_match only ever looks at
\* the orders that cross the incoming one.
Uncrossed ==
  \A p \in Products :
    \A i \in DOMAIN book[p]["buy"], j \in DOMAIN book[p]["sell"] :
       book[p]["buy"][i].price < book[p]["sell"][j].price

\* The printed ladders are kept by their own code (add_to_prints,
\* delete_order_prints), and never recomputed; still each one is the list of
\* the prices in the book, highest first and without repetition, with the
\* quantity and the number of the orders at each price.
LevelsMirrorBook ==
  \A p \in Products, s \in Sides :
    LET ladder == levels[p][s]
        at(c) == {i \in DOMAIN book[p][s] : book[p][s][i].price = c}
        quantity == [i \in DOMAIN book[p][s] |-> book[p][s][i].quantity]
    IN  /\ WellKept(ladder)
        /\ {ladder.list[k].price : k \in DOMAIN ladder.list}
             = {book[p][s][i].price : i \in DOMAIN book[p][s]}
        /\ \A k \in DOMAIN ladder.list :
             LET level == ladder.list[k]
             IN  /\ level.numOrders = Cardinality(at(level.price))
                 /\ level.quantity = SumFunctionOnSet(quantity, at(level.price))

\* update_inventory gives one trader the units it takes from the other.
UnitsConserved == \A p \in Products : SumFunction([t \in Traders |-> pos[t][p].quantity]) = 0

\* print_match counts as fees all that the balances have lost.
FeesCollected == fees = - SumFunction([a \in Traders \X Products |-> pos[a[1]][a[2]].balance])

\* Every product changes hands without appearing or vanishing, and the money
\* missing from the traders is what the exchange says it collected.
MoneyConserved == UnitsConserved /\ FeesCollected

\* The exchange never writes to the pipe of a trader it knows to be gone: the
\* write would kill the exchange with SIGPIPE.
MessagesToTheLiving == [][\A t \in Traders : out'[t] # <<>> => alive[t]]_vars

\* An order loses its place in its list only by leaving the list: what stays
\* keeps its relative order, its price, and no more than its quantity, and at
\* most one order joins, at the end.
TimePriorityKept ==
  [][\A p \in Products, s \in Sides :
       LET old == book[p][s]
           new == book'[p][s]
       IN  \A k \in DOMAIN new :
             \/ \E i \in DOMAIN old :
                  /\ SameOrder(old[i], new[k])
                  /\ old[i].price = new[k].price
                  /\ old[i].quantity >= new[k].quantity
                  /\ \A j \in i + 1 .. Len(old), l \in 1 .. k : ~ SameOrder(old[j], new[l])
             \/ k = Len(new) /\ \A i \in DOMAIN old : ~ SameOrder(old[i], new[k])]_book

\* While an order is matched, its trader pays no more (or is paid no less) than
\* the order's price for each unit, the fee of the step apart, and any other
\* trader whose units change trades at exactly the price of an order it has in
\* the book.
LimitsRespected ==
  [][~ Idle =>
       LET p == taker.product
       IN  \A t \in Traders :
             LET got  == pos'[t][p].quantity - pos[t][p].quantity
                 paid == pos[t][p].balance - pos'[t][p].balance
             IN  IF t = taker.trader
                 THEN paid <= taker.price * got + (fees' - fees)
                 ELSE \/ got = 0 /\ paid = 0
                      \/ \E i \in DOMAIN book[p][Opposite(taker.side)] :
                           LET o == book[p][Opposite(taker.side)][i]
                           IN  o.trader = t /\ paid = o.price * got]_accounts
=============================================================================
