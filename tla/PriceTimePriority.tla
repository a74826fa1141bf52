------------------------- MODULE PriceTimePriority -------------------------
(***************************************************************************)
(* What the exchange promises its traders: every message it accepts is     *)
(* one step, in which the incoming order trades by price-time priority     *)
(* with the whole book, at the prices of the resting orders, the sender    *)
(* paying a rounded fee on each trade.  There is no ladder, no matching    *)
(* loop, no int, and no message; a refused message is not seen at all.     *)
(***************************************************************************)
EXTENDS Clearing

CONSTANTS Traders, Products, MaxQuantity, MaxPrice, MaxOrderId, FeeDivisor

VARIABLES book, nextId, alive, pos, fees

vars == <<book, nextId, alive, pos, fees>>

Sides == {"buy", "sell"}
Other(s) == CHOOSE r \in Sides : r # s

\* The nearest integer to value / FeeDivisor, a half counting as one.
Nearest(value) ==
  CHOOSE n \in 0 .. value : 2 * (FeeDivisor * n - value) \in 1 - FeeDivisor .. FeeDivisor

Init ==
  /\ book = [p \in Products |-> [s \in Sides |-> <<>>]]
  /\ nextId = [t \in Traders |-> 0]
  /\ alive = [t \in Traders |-> TRUE]
  /\ pos = [t \in Traders |-> [p \in Products |-> [quantity |-> 0, balance |-> 0]]]
  /\ fees = 0

\* Order o, which is in no list of `lists', trades and rests.
Clear(lists, o) ==
  LET list == lists[o.product][Other(o.side)]
  IN  [lists EXCEPT ![o.product][Other(o.side)] = Remaining(list, o),
                    ![o.product][o.side] = Joined(@, list, o)]

\* The accounts after the trades of order o.
Traded(lists, o, accounts) ==
  LET list == lists[o.product][Other(o.side)]
      sign == IF o.side = "buy" THEN 1 ELSE -1
      units == [i \in DOMAIN list |-> Taken(list, o, i)]
      value == [i \in DOMAIN list |-> units[i] * list[i].price]
      charge == [i \in DOMAIN list |-> Nearest(value[i])]
      of(t) == {i \in DOMAIN list : list[i].trader = t}
      got(t) == (IF t = o.trader THEN sign * SumFunction(units) ELSE 0)
                - sign * SumFunctionOnSet(units, of(t))
      paid(t) == (IF t = o.trader THEN sign * SumFunction(value) + SumFunction(charge) ELSE 0)
                 - sign * SumFunctionOnSet(value, of(t))
  IN  [pos |-> [t \in Traders |-> [accounts.pos[t] EXCEPT ![o.product] =
                 [quantity |-> @.quantity + got(t), balance |-> @.balance - paid(t)]]],
       fees |-> accounts.fees + SumFunction(charge)]

Enter(lists, o) ==
  /\ book' = Clear(lists, o)
  /\ LET after == Traded(lists, o, [pos |-> pos, fees |-> fees])
     IN  pos' = after.pos /\ fees' = after.fees

Place(t, p, s, q, c) ==
  /\ alive[t]
  /\ nextId[t] <= MaxOrderId
  /\ nextId' = [nextId EXCEPT ![t] = @ + 1]
  /\ Enter(book, [trader |-> t, id |-> nextId[t], product |-> p, side |-> s,
                  quantity |-> q, price |-> c])
  /\ UNCHANGED alive

\* An order with new terms is the newest order of its side.
Amend(p, s, i, q, c) ==
  /\ alive[book[p][s][i].trader]
  /\ Enter([book EXCEPT ![p][s] = RemoveAt(@, i)],
           [book[p][s][i] EXCEPT !.quantity = q, !.price = c])
  /\ UNCHANGED <<nextId, alive>>

Withdraw(p, s, i) ==
  /\ alive[book[p][s][i].trader]
  /\ book' = [book EXCEPT ![p][s] = RemoveAt(@, i)]
  /\ UNCHANGED <<nextId, alive, pos, fees>>

\* The orders of a trader outlive it.
Leave(t) ==
  /\ alive' = [alive EXCEPT ![t] = FALSE]
  /\ UNCHANGED <<book, nextId, pos, fees>>

Next ==
  \/ \E p \in Products, s \in Sides :
       \/ \E q \in 1 .. MaxQuantity, c \in 1 .. MaxPrice :
            \/ \E t \in Traders : Place(t, p, s, q, c)
            \/ \E i \in DOMAIN book[p][s] : Amend(p, s, i, q, c)
       \/ \E i \in DOMAIN book[p][s] : Withdraw(p, s, i)
  \/ \E t \in Traders : Leave(t)

Spec == Init /\ [][Next]_vars
=============================================================================
