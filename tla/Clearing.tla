------------------------------ MODULE Clearing ------------------------------
(***************************************************************************)
(* What price-time priority means, in closed form: how much of every       *)
(* resting order an incoming order takes, without saying in which steps.   *)
(* A cost puts buys and sells on one scale: for the incoming order, less   *)
(* is better.                                                              *)
(***************************************************************************)
EXTENDS Integers, Sequences, FiniteSets, SequencesExt

\* What a unit of the resting order costs the other side, and the most the
\* incoming order accepts.
Cost(resting)   == IF resting.side = "sell" THEN resting.price ELSE - resting.price
Accepts(taking) == IF taking.side = "buy" THEN taking.price ELSE - taking.price

Eligible(list, taking) == {i \in DOMAIN list : Cost(list[i]) <= Accepts(taking)}

\* The eligible orders served before order i: a lower cost, or the same cost
\* and an earlier place.
Ahead(list, taking, i) ==
  {j \in Eligible(list, taking) :
     \/ Cost(list[j]) < Cost(list[i])
     \/ Cost(list[j]) = Cost(list[i]) /\ j < i}

Quantity(list, indices) ==
  SumFunctionOnSet([j \in DOMAIN list |-> list[j].quantity], indices)

\* The units of order i that the incoming order takes.
Taken(list, taking, i) ==
  LET wanted == taking.quantity - Quantity(list, Ahead(list, taking, i))
  IN  IF i \notin Eligible(list, taking) \/ wanted <= 0 THEN 0
      ELSE IF wanted < list[i].quantity THEN wanted ELSE list[i].quantity

TakenTotal(list, taking) == SumFunction([i \in DOMAIN list |-> Taken(list, taking, i)])

\* What is left of the orders, without those that are used up, in their order.
Thinned(list, left) ==
  LET kept == {i \in DOMAIN list : left[i] > 0}
      nth(k) == CHOOSE i \in kept : Cardinality({j \in kept : j <= i}) = k
  IN  [k \in 1 .. Cardinality(kept) |-> [list[nth(k)] EXCEPT !.quantity = left[nth(k)]]]

\* The resting orders afterwards.
Remaining(list, taking) ==
  Thinned(list, [i \in DOMAIN list |-> list[i].quantity - Taken(list, taking, i)])

\* The incoming order joins the list of its side with what it did not get.
Joined(own, list, taking) ==
  LET left == taking.quantity - TakenTotal(list, taking)
  IN  IF left = 0 THEN own ELSE Append(own, [taking EXCEPT !.quantity = left])
=============================================================================
