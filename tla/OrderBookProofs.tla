-------------------------- MODULE OrderBookProofs --------------------------
(***************************************************************************)
(* For every set of traders, products and messages, and every value of the *)
(* limits: the ladders stay in order, the state keeps its shape, the IDs   *)
(* of live orders are unique, the book is never crossed, orders keep their *)
(* places, and, while the sum of each trade fits in its type, nobody       *)
(* trades beyond its limit.                                                *)
(***************************************************************************)
EXTENDS OrderBook, SequenceTheorems, WellFoundedInduction, TLAPS

(* The ladders: what each operator of PriceLevels does to a ladder as a list *)
(* and as a set of levels; and the existence of least elements on which the *)
(* searches of the code rest.                                              *)

\* A non-empty set of naturals has a least element.
LEMMA LeastOfNaturals ==
  ASSUME NEW T \in SUBSET Nat, T # {}
  PROVE  \E m \in T : \A n \in T : m <= n
<1>1. PICK m \in T : \A n \in T : ~ (<<n, m>> \in OpToRel(<, Nat))
  BY NatLessThanWellFounded, WFMin
<1>2. \A n \in T : ~ (n < m)
  BY <1>1 DEF OpToRel
<1> QED
  BY <1>2

\* Among finitely many keys there is a least one with none equal before it.
LEMMA EarliestLeast ==
  ASSUME NEW n \in Nat \ {0}, NEW key \in [1 .. n -> Nat]
  PROVE  \E i \in 1 .. n : /\ \A j \in 1 .. n : key[i] <= key[j]
                           /\ \A j \in 1 .. i - 1 : key[i] < key[j]
<1>0. {key[i] : i \in 1 .. n} \in SUBSET Nat /\ {key[i] : i \in 1 .. n} # {}
  <2>1. key[1] \in {key[i] : i \in 1 .. n}
    OBVIOUS
  <2> QED
    BY <2>1
<1>1. PICK m \in {key[i] : i \in 1 .. n} : \A k \in {key[i] : i \in 1 .. n} : m <= k
  BY <1>0, LeastOfNaturals
<1> DEFINE At == {i \in 1 .. n : key[i] = m}
<1>2. At \in SUBSET Nat /\ At # {}
  BY <1>1
<1> HIDE DEF At
<1>3. PICK i \in At : \A j \in At : i <= j
  BY <1>2, LeastOfNaturals
<1>4. i \in 1 .. n /\ key[i] = m
  BY <1>3 DEF At
<1>5. \A j \in 1 .. n : key[i] <= key[j]
  BY <1>1, <1>4
<1>6. ASSUME NEW j \in 1 .. i - 1 PROVE key[i] < key[j]
  <2>1. j \in 1 .. n /\ j \notin At
    BY <1>3, <1>4
  <2>2. key[j] # m
    BY <2>1 DEF At
  <2> QED
    BY <2>1, <2>2, <1>4, <1>5
<1> QED
  BY <1>4, <1>5, <1>6

\* An int stays an integer when it wraps around.
LEMMA WrapInt ==
  ASSUME NEW x \in Int
  PROVE  Wrap(x) \in Int
<1>1. IntMax \in Nat /\ 2 * (IntMax + 1) \in Nat \ {0}
  BY IntMaxAssumption
<1> DEFINE width == 2 * (IntMax + 1)
<1> HIDE DEF width
<1>2. width \in Nat \ {0}
  BY <1>1 DEF width
<1>3. (x + IntMax + 1) % width \in Int
  BY <1>1, <1>2
<1> QED
  BY <1>1, <1>3 DEF Wrap, width

\* An int that needs no wrapping is left as it is.
LEMMA WrapFits ==
  ASSUME NEW x \in -(IntMax + 1) .. IntMax
  PROVE  Wrap(x) = x
<1> DEFINE width == 2 * (IntMax + 1)
           y == x + IntMax + 1
<1>1. IntMax \in Nat /\ x \in Int /\ width \in Nat \ {0} /\ y \in 0 .. width - 1
  BY IntMaxAssumption
<1>2. Wrap(x) = (y % width) - (IntMax + 1)
  BY DEF Wrap
<1>3. x = y - (IntMax + 1)
  BY <1>1
<1> HIDE DEF width, y
<1>4. y % width = y
  BY <1>1
<1> QED
  BY <1>1, <1>2, <1>3, <1>4

\* What removing an element leaves, place by place.
LEMMA RemoveAtFacts ==
  ASSUME NEW S, NEW s \in Seq(S), NEW i \in 1 .. Len(s)
  PROVE  /\ RemoveAt(s, i) \in Seq(S)
         /\ Len(RemoveAt(s, i)) = Len(s) - 1
         /\ \A j \in 1 .. Len(s) - 1 :
              RemoveAt(s, i)[j] = IF j < i THEN s[j] ELSE s[j + 1]
<1> DEFINE before == SubSeq(s, 1, i - 1)
           after  == SubSeq(s, i + 1, Len(s))
<1>1. \A j \in 1 .. Len(s) : s[j] \in S
  BY ElementOfSeq
<1>2. /\ before \in Seq(S) /\ Len(before) = i - 1
      /\ \A j \in 1 .. i - 1 : before[j] = s[j]
  BY <1>1, SubSeqProperties
<1>3. /\ after \in Seq(S) /\ Len(after) = Len(s) - i
      /\ \A j \in 1 .. Len(s) - i : after[j] = s[i + j]
  BY <1>1, SubSeqProperties
<1> HIDE DEF before, after
<1>4. /\ before \o after \in Seq(S)
      /\ Len(before \o after) = Len(s) - 1
      /\ \A j \in 1 .. Len(s) - 1 :
           (before \o after)[j] = IF j <= i - 1 THEN before[j] ELSE after[j - (i - 1)]
  BY <1>2, <1>3, ConcatProperties
<1>5. ASSUME NEW j \in 1 .. Len(s) - 1
      PROVE  (before \o after)[j] = IF j < i THEN s[j] ELSE s[j + 1]
  <2>1. i \in Int /\ Len(s) \in Int /\ j \in Int
    BY LenProperties
  <2>2. CASE j < i
    <3>1. j \in 1 .. i - 1 /\ j <= i - 1
      BY <2>1, <2>2
    <3> QED
      BY <1>2, <1>4, <2>2, <3>1
  <2>3. CASE ~ (j < i)
    <3> DEFINE k == j - (i - 1)
    <3>1. k \in 1 .. Len(s) - i /\ ~ (j <= i - 1) /\ i + k = j + 1
      BY <2>1, <2>3
    <3>2. (before \o after)[j] = after[k]
      BY <1>4, <3>1
    <3> HIDE DEF k
    <3> QED
      BY <1>3, <2>3, <3>1, <3>2
  <2> QED
    BY <2>2, <2>3
<1> QED
  BY <1>4, <1>5 DEF RemoveAt, before, after

\* What inserting an element makes, place by place.
Inserted(new, s, i, e) ==
  /\ Len(new) = Len(s) + 1
  /\ \A j \in 1 .. Len(s) + 1 : new[j] = IF j < i THEN s[j] ELSE IF j = i THEN e ELSE s[j - 1]

LEMMA InsertAtFacts ==
  ASSUME NEW S, NEW s \in Seq(S), NEW i \in 1 .. Len(s) + 1, NEW e \in S
  PROVE  InsertAt(s, i, e) \in Seq(S) /\ Inserted(InsertAt(s, i, e), s, i, e)
<1> DEFINE before == SubSeq(s, 1, i - 1)
           after  == SubSeq(s, i, Len(s))
<1>1. \A j \in 1 .. Len(s) : s[j] \in S
  BY ElementOfSeq
<1>2. /\ before \in Seq(S) /\ Len(before) = i - 1
      /\ \A j \in 1 .. i - 1 : before[j] = s[j]
  BY <1>1, SubSeqProperties
<1>3. /\ after \in Seq(S) /\ Len(after) = Len(s) - i + 1
      /\ \A j \in 1 .. Len(s) - i + 1 : after[j] = s[i + j - 1]
  BY <1>1, SubSeqProperties
<1>4. <<e>> \in Seq(S) /\ Len(<<e>>) = 1 /\ <<e>>[1] = e
  OBVIOUS
<1> DEFINE middle == <<e>>
<1> HIDE DEF before, middle, after
<1>5. /\ before \o middle \in Seq(S)
      /\ Len(before \o middle) = i
      /\ \A j \in 1 .. i :
           (before \o middle)[j] = IF j <= i - 1 THEN before[j] ELSE middle[j - (i - 1)]
  BY <1>2, <1>4, ConcatProperties DEF middle
<1> DEFINE start == before \o middle
<1> HIDE DEF start
<1>6. start \in Seq(S) /\ Len(start) = i /\ \A j \in 1 .. i : start[j] = IF j < i THEN s[j] ELSE e
  BY <1>2, <1>4, <1>5 DEF start, middle
<1>7. /\ start \o after \in Seq(S)
      /\ Len(start \o after) = Len(s) + 1
      /\ \A j \in 1 .. Len(s) + 1 :
           (start \o after)[j] = IF j <= i THEN start[j] ELSE after[j - i]
  BY <1>3, <1>6, ConcatProperties
<1>8. ASSUME NEW j \in 1 .. Len(s) + 1
      PROVE  (start \o after)[j] = IF j < i THEN s[j] ELSE IF j = i THEN e ELSE s[j - 1]
  BY <1>3, <1>6, <1>7
<1>9. Inserted(start \o after, s, i, e)
  BY <1>7, <1>8 DEF Inserted
<1> QED
  BY <1>7, <1>9 DEF InsertAt, start, before, middle, after
-----------------------------------------------------------------------------
(* The ladders *)

\* The condition WellKept puts on the list alone.
Decreasing(list) == \A j, k \in 1 .. Len(list) : j < k => list[j].price > list[k].price

\* The search loop of add_to_prints stops in the list, where it should.
LEMMA SearchStopFacts ==
  ASSUME NEW list \in Seq(Level), list # <<>>, NEW price \in Nat
  PROVE  LET k == SearchStop(list, price)
         IN  /\ k \in 1 .. Len(list)
             /\ k = Len(list) \/ list[k + 1].price < price
             /\ \A j \in 1 .. k - 1 : list[j + 1].price >= price
<1>1. Len(list) \in Nat \ {0}
  BY EmptySeq, LenProperties
<1>2. \A j \in 1 .. Len(list) : list[j].price \in Nat
  <2>1. \A j \in 1 .. Len(list) : list[j] \in Level
    BY ElementOfSeq
  <2> QED
    BY <2>1 DEF Level
<1>0. DOMAIN list = 1 .. Len(list)
  BY LenProperties
<1> DEFINE Stops == {k \in 1 .. Len(list) : k = Len(list) \/ list[k + 1].price < price}
<1>3. Stops \in SUBSET Nat /\ Len(list) \in Stops
  BY <1>1
<1> HIDE DEF Stops
<1>4. PICK m \in Stops : \A n \in Stops : m <= n
  BY <1>3, LeastOfNaturals
<1>5. m \in 1 .. Len(list) /\ (m = Len(list) \/ list[m + 1].price < price)
  BY <1>4 DEF Stops
<1>6. ASSUME NEW j \in 1 .. m - 1 PROVE list[j + 1].price >= price
  <2>1. j \in 1 .. Len(list) /\ j + 1 \in 1 .. Len(list) /\ j \notin Stops
    BY <1>1, <1>3, <1>4, <1>5
  <2> QED
    BY <2>1, <1>2 DEF Stops
<1> QED
  BY <1>0, <1>1, <1>5, <1>6 DEF SearchStop

\* add_to_prints keeps the prices strictly decreasing: it finds the level of the
\* order's price whenever there is one.
LEMMA AddToPrintsFacts ==
  ASSUME NEW list \in Seq(Level), Decreasing(list),
         NEW o, o.quantity \in Int, o.price \in Nat
  PROVE  AddToPrints(list, o) \in Seq(Level) /\ Decreasing(AddToPrints(list, o))
<1> DEFINE new == CreatePrintedOrder(o)
<1>1. Len(list) \in Nat
  BY LenProperties
<1>0. \A j \in 1 .. Len(list) : list[j] \in Level
  BY ElementOfSeq
<1>2. \A j \in 1 .. Len(list) : list[j].price \in Nat /\ list[j].quantity \in Int /\ list[j].numOrders \in Int
  BY <1>0 DEF Level
<1>3. new \in Level /\ new.price = o.price
  BY DEF CreatePrintedOrder, Level
<1>4. \A j, k \in 1 .. Len(list) : j < k => list[j].price > list[k].price
  BY DEF Decreasing
<1> HIDE DEF new
<1>5. CASE list = <<>> \/ list[1].price < o.price
  <2> DEFINE single == <<new>>
  <2>1. single \in Seq(Level) /\ Len(single) = 1 /\ single[1] = new
    BY <1>3
  <2> HIDE DEF single
  <2>3. /\ single \o list \in Seq(Level)
        /\ Len(single \o list) = Len(single) + Len(list)
        /\ \A j \in 1 .. Len(single) + Len(list) :
             (single \o list)[j] = IF j <= Len(single) THEN single[j] ELSE list[j - Len(single)]
    BY <2>1, ConcatProperties
  <2>2. /\ single \o list \in Seq(Level)
        /\ Len(single \o list) = 1 + Len(list)
        /\ \A j \in 1 .. 1 + Len(list) :
             (single \o list)[j] = IF j <= 1 THEN single[j] ELSE list[j - 1]
    BY <2>1, <2>3
  <2>4. ASSUME NEW j \in 1 .. Len(list) PROVE o.price > list[j].price
    <3>1. list # <<>> /\ list[1].price < o.price /\ 1 \in 1 .. Len(list)
      BY <1>1, <1>5
    <3> QED
      BY <3>1, <1>2, <1>4
  <2>5. ASSUME NEW j \in 1 .. 1 + Len(list), NEW k \in 1 .. 1 + Len(list), j < k
        PROVE  (single \o list)[j].price > (single \o list)[k].price
    <3>1. (single \o list)[k] = list[k - 1] /\ k - 1 \in 1 .. Len(list)
      BY <1>1, <2>2, <2>5
    <3>2. CASE j = 1
      BY <3>1, <3>2, <1>3, <2>1, <2>2, <2>4
    <3>3. CASE j # 1
      <4>1. (single \o list)[j] = list[j - 1] /\ j - 1 \in 1 .. Len(list) /\ j - 1 < k - 1
        BY <1>1, <2>2, <2>5, <3>3
      <4> QED
        BY <3>1, <4>1, <1>4
    <3> QED
      BY <3>2, <3>3
  <2>6. Decreasing(single \o list)
    BY <2>2, <2>5 DEF Decreasing
  <2> QED
    BY <1>5, <2>2, <2>6 DEF AddToPrints, single, new
<1>6. CASE list # <<>> /\ ~ (list[1].price < o.price)
  <2> DEFINE m == SearchStop(list, o.price)
  <2>1. /\ m \in 1 .. Len(list)
        /\ m = Len(list) \/ list[m + 1].price < o.price
        /\ \A j \in 1 .. m - 1 : list[j + 1].price >= o.price
    BY <1>6, SearchStopFacts
  <2> HIDE DEF m
  <2>4. m \in Nat /\ 1 <= m /\ m <= Len(list)
    BY <2>1, <1>1
  <2>2. CASE list[m].price = o.price
    <3> DEFINE level == [quantity  |-> Wrap(list[m].quantity + o.quantity),
                         price     |-> list[m].price,
                         numOrders |-> list[m].numOrders + 1]
               result == [list EXCEPT ![m] = level]
    <3>1. list[m].quantity + o.quantity \in Int /\ list[m].numOrders + 1 \in Int /\ list[m].price \in Nat
      BY <1>2, <2>4
    <3>2. level \in Level /\ level.price = list[m].price
      BY <3>1, WrapInt DEF Level
    <3> HIDE DEF level
    <3>3. result \in Seq(Level) /\ Len(result) = Len(list)
      BY <3>2, <2>1
    <3>4. \A j \in 1 .. Len(list) : result[j].price = list[j].price
      BY <3>2, <1>1, <2>4
    <3>5. AddToPrints(list, o) = result
      BY <1>6, <2>2 DEF AddToPrints, level, m
    <3> HIDE DEF result
    <3> QED
      BY <3>3, <3>4, <3>5, <1>4 DEF Decreasing
  <2>3. CASE list[m].price # o.price
    <3> DEFINE result == InsertAt(list, m + 1, new)
    <3>1. list[m].price > o.price
      <4>1. CASE m = 1
        BY <4>1, <1>2, <1>6, <2>3, <2>4
      <4>2. CASE m # 1
        <5>1. m - 1 \in 1 .. m - 1 /\ (m - 1) + 1 = m
          BY <4>2, <2>4
        <5>2. list[(m - 1) + 1].price >= o.price
          BY <5>1, <2>1
        <5> QED
          BY <5>1, <5>2, <1>2, <2>3, <2>4
      <4> QED
        BY <4>1, <4>2
    <3>2. m + 1 \in 1 .. Len(list) + 1
      BY <1>1, <2>4
    <3> DEFINE place == m + 1
    <3>9. place \in 1 .. Len(list) + 1
      BY <3>2
    <3> HIDE DEF place
    <3>10. /\ InsertAt(list, place, new) \in Seq(Level)
           /\ Inserted(InsertAt(list, place, new), list, place, new)
      BY <3>9, <1>3, InsertAtFacts
    <3>3. /\ result \in Seq(Level)
          /\ Len(result) = Len(list) + 1
          /\ \A j \in 1 .. Len(list) + 1 :
               result[j] = IF j < m + 1 THEN list[j]
                           ELSE IF j = m + 1 THEN new ELSE list[j - 1]
      BY <3>10 DEF place, Inserted
    <3> HIDE DEF result
    <3>5. \A j \in 1 .. m : list[j].price > o.price
      BY <3>1, <1>1, <1>2, <1>4, <2>1, <2>4
    <3>6. \A j \in m + 1 .. Len(list) : list[j].price < o.price
      <4> SUFFICES ASSUME NEW j \in m + 1 .. Len(list) PROVE list[j].price < o.price
        OBVIOUS
      <4> DEFINE after == m + 1
      <4>1. /\ j \in 1 .. Len(list) /\ after \in 1 .. Len(list) /\ m # Len(list)
            /\ after = j \/ after < j
        BY <1>1, <2>4
      <4>2. list[after].price < o.price
        BY <2>1, <4>1
      <4> HIDE DEF after
      <4>3. list[j].price \in Nat /\ list[after].price \in Nat
        BY <4>1, <1>2
      <4>4. list[after].price >= list[j].price
        BY <4>1, <4>3, <1>4
      <4> QED
        BY <4>2, <4>3, <4>4
    <3>7. ASSUME NEW j \in 1 .. Len(list) + 1, NEW k \in 1 .. Len(list) + 1, j < k
          PROVE  result[j].price > result[k].price
      <4>1. CASE j < m + 1 /\ k < m + 1
        BY <4>1, <3>3, <3>7, <1>1, <1>4, <2>1, <2>4, SMTT(30)
      <4>2. CASE j < m + 1 /\ k = m + 1
        <5>1. j \in 1 .. m
          BY <4>2, <2>4
        <5>2. result[j] = list[j] /\ result[k] = new
          BY <4>2, <3>3
        <5> QED
          BY <5>1, <5>2, <3>5, <1>3
      <4>3. CASE j < m + 1 /\ k > m + 1
        <5>1. result[k] = list[k - 1] /\ k - 1 \in m + 1 .. Len(list) /\ result[j] = list[j]
          BY <4>3, <3>3, <1>1, <2>4
        <5>2. j < k - 1 /\ j \in 1 .. Len(list) /\ k - 1 \in 1 .. Len(list)
          BY <5>1, <4>3, <1>1, <2>4
        <5> QED
          BY <5>1, <5>2, <1>4
      <4>4. CASE j = m + 1
        <5>1. result[k] = list[k - 1] /\ k - 1 \in m + 1 .. Len(list) /\ result[j] = new
          BY <4>4, <3>3, <3>7, <1>1, <2>4
        <5> QED
          <6>1. list[k - 1].price < o.price
            BY <5>1, <3>6
          <6>2. list[k - 1].price \in Nat
            BY <5>1, <1>1, <1>2, <2>4
          <6> QED
            BY <5>1, <6>1, <6>2, <1>3
      <4>5. CASE j > m + 1
        <5>1. /\ result[k] = list[k - 1] /\ k - 1 \in 1 .. Len(list)
              /\ result[j] = list[j - 1] /\ j - 1 \in 1 .. Len(list) /\ j - 1 < k - 1
          BY <4>5, <3>3, <3>7, <1>1, <2>4
        <5> QED
          BY <5>1, <1>4
      <4> QED
        BY <4>1, <4>2, <4>3, <4>4, <4>5, <2>4
    <3>8. AddToPrints(list, o) = result
      BY <1>6, <2>3 DEF AddToPrints, result, new, m
    <3> QED
      BY <3>3, <3>7, <3>8 DEF Decreasing
  <2> QED
    BY <2>2, <2>3
<1> QED
  BY <1>5, <1>6

\* delete_order_prints keeps the prices strictly decreasing.
LEMMA DeleteOrderPrintsFacts ==
  ASSUME NEW ladder \in Ladder, WellKept(ladder),
         NEW o, o.quantity \in Int, o.price \in Nat
  PROVE  /\ DeleteOrderPrints(ladder, o) \in Seq(Level)
         /\ Decreasing(DeleteOrderPrints(ladder, o))
<1> DEFINE list == ladder.list
           at == {k \in DOMAIN list : list[k].price = o.price}
           result == DeleteOrderPrints(ladder, o)
<1>1. list \in Seq(Level)
  BY DEF Ladder
<1>2. Decreasing(list)
  BY DEF WellKept, Decreasing
<1> HIDE DEF list
<1>3. Len(list) \in Nat
  BY <1>1, LenProperties
<1>4. \A j \in 1 .. Len(list) : list[j] \in Level
  BY <1>1, ElementOfSeq
<1>5. \A j \in 1 .. Len(list) :
         list[j].price \in Nat /\ list[j].quantity \in Int /\ list[j].numOrders \in Int
  BY <1>4 DEF Level
<1>6. \A j, k \in 1 .. Len(list) : j < k => list[j].price > list[k].price
  BY <1>2 DEF Decreasing
<1>7. CASE at = {}
  BY <1>1, <1>2, <1>7 DEF DeleteOrderPrints, list
<1>8. CASE at # {}
  <2> DEFINE m == CHOOSE k \in at : \A j \in at : k <= j
             left == [quantity  |-> Wrap(list[m].quantity - o.quantity),
                      price     |-> list[m].price,
                      numOrders |-> list[m].numOrders - 1]
  <2>1. DOMAIN list = 1 .. Len(list)
    BY <1>1, LenProperties
  <2>2. at \in SUBSET Nat
    BY <2>1
  <2>3. m \in at
    <3>1. \E k \in at : \A j \in at : k <= j
      BY <1>8, <2>2, LeastOfNaturals
    <3> QED
      BY <3>1
  <2>4. m \in 1 .. Len(list)
    BY <2>1, <2>3
  <2>5. DeleteOrderPrints(ladder, o) =
          IF left.quantity = 0 THEN RemoveFromProducts(ladder, m)
                               ELSE [list EXCEPT ![m] = left]
    BY <1>8 DEF DeleteOrderPrints, list
  <2> HIDE DEF m, at
  <2>6. left \in Level /\ left.price = list[m].price
    <3>1. /\ list[m].quantity - o.quantity \in Int
          /\ list[m].numOrders - 1 \in Int /\ list[m].price \in Nat
      BY <1>5, <2>4
    <3> QED
      BY <3>1, WrapInt DEF Level
  <2> HIDE DEF left
  <2>7. CASE left.quantity # 0
    <3> DEFINE shorter == [list EXCEPT ![m] = left]
    <3>1. shorter \in Seq(Level) /\ Len(shorter) = Len(list)
      BY <1>1, <2>4, <2>6
    <3>2. \A j \in 1 .. Len(list) : shorter[j].price = list[j].price
      BY <1>1, <2>1, <2>4, <2>6
    <3>3. result = shorter
      BY <2>5, <2>7
    <3> HIDE DEF shorter
    <3> QED
      BY <3>1, <3>2, <3>3, <1>6 DEF Decreasing
  <2>8. CASE left.quantity = 0 /\ ladder.len = 1
    <3>1. result = <<>>
      BY <2>5, <2>8 DEF RemoveFromProducts
    <3> QED
      BY <3>1 DEF Decreasing
  <2>9. CASE left.quantity = 0 /\ ladder.len # 1
    <3> DEFINE shorter == RemoveAt(list, m)
    <3>1. result = shorter
      BY <2>5, <2>9 DEF RemoveFromProducts, list
    <3>2. /\ shorter \in Seq(Level)
          /\ Len(shorter) = Len(list) - 1
          /\ \A j \in 1 .. Len(list) - 1 : shorter[j] = IF j < m THEN list[j] ELSE list[j + 1]
      BY <1>1, <2>4, RemoveAtFacts
    <3> HIDE DEF shorter
    <3>3. ASSUME NEW j \in 1 .. Len(list) - 1, NEW k \in 1 .. Len(list) - 1, j < k
          PROVE  shorter[j].price > shorter[k].price
      <4> DEFINE from(h) == IF h < m THEN h ELSE h + 1
      <4>1. /\ from(j) \in 1 .. Len(list) /\ from(k) \in 1 .. Len(list)
            /\ from(j) < from(k)
        BY <3>3, <1>3, <2>4
      <4>2. shorter[j] = list[from(j)] /\ shorter[k] = list[from(k)]
        BY <3>2
      <4> HIDE DEF from
      <4> QED
        BY <4>1, <4>2, <1>6
    <3> QED
      BY <3>1, <3>2, <3>3 DEF Decreasing
  <2> QED
    BY <2>7, <2>8, <2>9
<1> QED
  BY <1>7, <1>8

\* What the two callers, add_order_prints and cancel_order_prints, keep.
THEOREM LaddersWellKept ==
  ASSUME NEW ladder \in Ladder, WellKept(ladder),
         NEW o, o.quantity \in Int, o.price \in Nat
  PROVE  /\ AddOrderPrints(ladder, o) \in Ladder /\ WellKept(AddOrderPrints(ladder, o))
         /\ CancelOrderPrints(ladder, o) \in Ladder /\ WellKept(CancelOrderPrints(ladder, o))
<1>1. ASSUME NEW list \in Seq(Level), Decreasing(list)
      PROVE  SetLen(list) \in Ladder /\ WellKept(SetLen(list))
  <2>1. Len(list) \in Nat
    BY LenProperties
  <2> QED
    BY <1>1, <2>1 DEF SetLen, Ladder, WellKept, Decreasing
<1>2. ladder.list \in Seq(Level) /\ Decreasing(ladder.list)
  BY DEF Ladder, WellKept, Decreasing
<1>3. AddToPrints(ladder.list, o) \in Seq(Level) /\ Decreasing(AddToPrints(ladder.list, o))
  BY <1>2, AddToPrintsFacts
<1>4. DeleteOrderPrints(ladder, o) \in Seq(Level) /\ Decreasing(DeleteOrderPrints(ladder, o))
  BY DeleteOrderPrintsFacts
<1> QED
  BY <1>1, <1>3, <1>4 DEF AddOrderPrints, CancelOrderPrints
-----------------------------------------------------------------------------
(* The levels of a ladder as a set *)

\* The elements of a list, without their order.
Members(list) == {list[k] : k \in 1 .. Len(list)}

LEMMA MembersOfSeq ==
  ASSUME NEW S, NEW list \in Seq(S)
  PROVE  Members(list) \in SUBSET S
BY ElementOfSeq DEF Members

LEMMA MembersAfterInsert ==
  ASSUME NEW S, NEW s \in Seq(S), NEW i \in 1 .. Len(s) + 1, NEW e \in S
  PROVE  Members(InsertAt(s, i, e)) = Members(s) \cup {e}
<1> DEFINE new == InsertAt(s, i, e)
<1>0. Inserted(new, s, i, e)
  BY InsertAtFacts
<1> HIDE DEF new
<1>1. /\ Len(new) = Len(s) + 1
      /\ \A j \in 1 .. Len(s) + 1 : new[j] = IF j < i THEN s[j] ELSE IF j = i THEN e ELSE s[j - 1]
  BY <1>0 DEF Inserted
<1>2. Len(s) \in Nat
  BY LenProperties
<1>3. ASSUME NEW j \in 1 .. Len(s) + 1 PROVE new[j] \in Members(s) \cup {e}
  <2>1. CASE j < i
    <3>1. new[j] = s[j] /\ j \in 1 .. Len(s)
      BY <1>1, <1>2, <2>1
    <3> QED
      BY <3>1 DEF Members
  <2>2. CASE j = i
    BY <1>1, <2>2
  <2>3. CASE j > i
    <3>1. new[j] = s[j - 1] /\ j - 1 \in 1 .. Len(s)
      BY <1>1, <1>2, <2>3
    <3> QED
      BY <3>1 DEF Members
  <2> QED
    BY <2>1, <2>2, <2>3
<1>4. ASSUME NEW j \in 1 .. Len(s) PROVE \E k \in 1 .. Len(s) + 1 : new[k] = s[j]
  <2>1. CASE j < i
    <3>1. j \in 1 .. Len(s) + 1 /\ new[j] = s[j]
      BY <1>1, <1>2, <2>1
    <3> QED
      BY <3>1
  <2>2. CASE ~ (j < i)
    <3> DEFINE k == j + 1
    <3>1. k \in 1 .. Len(s) + 1 /\ ~ (k < i) /\ k # i /\ k - 1 = j
      BY <1>2, <2>2
    <3> HIDE DEF k
    <3>2. new[k] = s[j]
      BY <1>1, <3>1
    <3> QED
      BY <3>1, <3>2
  <2> QED
    BY <2>1, <2>2
<1>5. i \in 1 .. Len(s) + 1 /\ new[i] = e
  BY <1>1, <1>2
<1> QED
  BY <1>1, <1>3, <1>4, <1>5 DEF Members, new

LEMMA MembersAfterPrepend ==
  ASSUME NEW S, NEW s \in Seq(S), NEW e \in S
  PROVE  Members(<<e>> \o s) = Members(s) \cup {e}
<1> DEFINE single == <<e>>
           new == single \o s
<1>1. single \in Seq(S) /\ Len(single) = 1 /\ single[1] = e
  OBVIOUS
<1>2. Len(s) \in Nat
  BY LenProperties
<1> HIDE DEF single
<1>3. /\ Len(new) = Len(single) + Len(s)
      /\ \A j \in 1 .. Len(single) + Len(s) :
           new[j] = IF j <= Len(single) THEN single[j] ELSE s[j - Len(single)]
  BY <1>1, ConcatProperties
<1> HIDE DEF new
<1>4. /\ Len(new) = 1 + Len(s)
      /\ \A j \in 1 .. 1 + Len(s) : new[j] = IF j = 1 THEN e ELSE s[j - 1]
  BY <1>1, <1>2, <1>3
<1>5. ASSUME NEW j \in 1 .. 1 + Len(s) PROVE new[j] \in Members(s) \cup {e}
  <2>1. CASE j = 1
    BY <1>4, <2>1
  <2>2. CASE j # 1
    <3>1. new[j] = s[j - 1] /\ j - 1 \in 1 .. Len(s)
      BY <1>2, <1>4, <2>2
    <3> QED
      BY <3>1 DEF Members
  <2> QED
    BY <2>1, <2>2
<1>6. ASSUME NEW j \in 1 .. Len(s) PROVE \E k \in 1 .. 1 + Len(s) : new[k] = s[j]
  <2> DEFINE k == j + 1
  <2>1. k \in 1 .. 1 + Len(s) /\ k # 1 /\ k - 1 = j
    BY <1>2
  <2> HIDE DEF k
  <2>2. new[k] = s[j]
    BY <1>4, <2>1
  <2> QED
    BY <2>1, <2>2
<1>7. 1 \in 1 .. 1 + Len(s) /\ new[1] = e
  BY <1>2, <1>4
<1> QED
  BY <1>4, <1>5, <1>6, <1>7 DEF Members, new, single

LEMMA MembersAfterRemove ==
  ASSUME NEW S, NEW s \in Seq(S), NEW i \in 1 .. Len(s),
         \A j \in 1 .. Len(s) : s[j] = s[i] => j = i
  PROVE  Members(RemoveAt(s, i)) = Members(s) \ {s[i]}
<1> DEFINE new == RemoveAt(s, i)
<1>1. /\ Len(new) = Len(s) - 1
      /\ \A j \in 1 .. Len(s) - 1 : new[j] = IF j < i THEN s[j] ELSE s[j + 1]
  BY RemoveAtFacts
<1>2. Len(s) \in Nat
  BY LenProperties
<1> HIDE DEF new
<1>3. ASSUME NEW j \in 1 .. Len(s) - 1 PROVE new[j] \in Members(s) \ {s[i]}
  <2> DEFINE k == IF j < i THEN j ELSE j + 1
  <2>1. k \in 1 .. Len(s) /\ k # i
    BY <1>2
  <2>2. new[j] = s[k]
    BY <1>1
  <2> HIDE DEF k
  <2> QED
    BY <2>1, <2>2 DEF Members
<1>4. ASSUME NEW j \in 1 .. Len(s), j # i PROVE \E k \in 1 .. Len(s) - 1 : new[k] = s[j]
  <2> DEFINE k == IF j < i THEN j ELSE j - 1
  <2>1. k \in 1 .. Len(s) - 1 /\ (IF k < i THEN k ELSE k + 1) = j
    BY <1>2, <1>4
  <2> HIDE DEF k
  <2>2. new[k] = s[j]
    BY <1>1, <2>1
  <2> QED
    BY <2>1, <2>2
<1>5. Members(new) = {new[k] : k \in 1 .. Len(s) - 1}
  BY <1>1 DEF Members
<1>6. Members(new) \subseteq Members(s) \ {s[i]}
  BY <1>3, <1>5
<1>7. ASSUME NEW e \in Members(s) \ {s[i]} PROVE e \in Members(new)
  <2>1. PICK j \in 1 .. Len(s) : s[j] = e
    BY DEF Members
  <2>2. j # i
    BY <2>1
  <2> QED
    BY <1>4, <1>5, <2>1, <2>2
<1> QED
  BY <1>6, <1>7 DEF new

LEMMA MembersAfterUpdate ==
  ASSUME NEW S, NEW s \in Seq(S), NEW i \in 1 .. Len(s), NEW e,
         \A j \in 1 .. Len(s) : s[j] = s[i] => j = i
  PROVE  Members([s EXCEPT ![i] = e]) = (Members(s) \ {s[i]}) \cup {e}
<1> DEFINE new == [s EXCEPT ![i] = e]
<1>1. DOMAIN s = 1 .. Len(s) /\ Len(s) \in Nat
  BY LenProperties
<1>2. Len(new) = Len(s) /\ \A j \in 1 .. Len(s) : new[j] = IF j = i THEN e ELSE s[j]
  BY <1>1
<1> HIDE DEF new
<1>3. ASSUME NEW j \in 1 .. Len(s) PROVE new[j] \in (Members(s) \ {s[i]}) \cup {e}
  BY <1>2 DEF Members
<1>4. ASSUME NEW j \in 1 .. Len(s), j # i PROVE new[j] = s[j]
  BY <1>2, <1>4
<1>5. new[i] = e
  BY <1>2
<1> QED
  BY <1>2, <1>3, <1>4, <1>5 DEF Members, new

\* At one price there is at most one level.
LEMMA OneLevelAtPrice ==
  ASSUME NEW list \in Seq(Level), Decreasing(list),
         NEW j \in 1 .. Len(list), NEW k \in 1 .. Len(list), list[j].price = list[k].price
  PROVE  j = k
<1>1. Len(list) \in Nat /\ list[j] \in Level /\ list[k] \in Level
  BY LenProperties, ElementOfSeq
<1>2. list[j].price \in Nat
  BY <1>1 DEF Level
<1>3. j < k => list[j].price > list[k].price
  BY DEF Decreasing
<1>4. k < j => list[k].price > list[j].price
  BY DEF Decreasing
<1> QED
  BY <1>1, <1>2, <1>3, <1>4

LEMMA OneMemberAtPrice ==
  ASSUME NEW list \in Seq(Level), Decreasing(list), NEW lv \in Members(list)
  PROVE  \A x \in Members(list) : x \in Members(list) \ {lv} <=> x.price # lv.price
<1> SUFFICES ASSUME NEW x \in Members(list), x.price = lv.price PROVE x = lv
  OBVIOUS
<1>1. PICK j \in 1 .. Len(list) : lv = list[j]
  BY DEF Members
<1>2. PICK k \in 1 .. Len(list) : x = list[k]
  BY DEF Members
<1> QED
  BY <1>1, <1>2, OneLevelAtPrice

\* Where the search loop of add_to_prints stops, it has passed every level at a
\* higher price, and if there is a level at the price it is the one.
LEMMA SearchStopFinds ==
  ASSUME NEW list \in Seq(Level), Decreasing(list), NEW price \in Nat,
         list # <<>>, ~ (list[1].price < price)
  PROVE  /\ SearchStop(list, price) \in 1 .. Len(list)
         /\ \A j \in 1 .. Len(list) : list[j].price = price => j = SearchStop(list, price)
<1> DEFINE m == SearchStop(list, price)
<1>1. /\ m \in 1 .. Len(list)
      /\ m = Len(list) \/ list[m + 1].price < price
      /\ \A j \in 1 .. m - 1 : list[j + 1].price >= price
  BY SearchStopFacts
<1>2. Len(list) \in Nat
  BY LenProperties
<1>3. \A j \in 1 .. Len(list) : list[j].price \in Nat
  <2>1. \A j \in 1 .. Len(list) : list[j] \in Level
    BY ElementOfSeq
  <2> QED
    BY <2>1 DEF Level
<1>4. \A j, k \in 1 .. Len(list) : j < k => list[j].price > list[k].price
  BY DEF Decreasing
<1> HIDE DEF m
<1>5. ASSUME NEW j \in 1 .. Len(list), list[j].price = price PROVE j = m
  <2>1. ~ (j < m)
    <3> SUFFICES ASSUME j < m PROVE FALSE
      OBVIOUS
    <3>1. list[j].price > list[m].price /\ list[m].price \in Nat
      BY <1>1, <1>3, <1>4
    <3> DEFINE h == m - 1
    <3>2. h \in 1 .. m - 1 /\ h + 1 = m
      BY <1>1, <1>2
    <3>3. list[h + 1].price >= price
      BY <1>1, <3>2
    <3> QED
      BY <1>5, <3>1, <3>2, <3>3
  <2>2. ~ (m < j)
    <3> SUFFICES ASSUME m < j PROVE FALSE
      OBVIOUS
    <3> DEFINE after == m + 1
    <3>1. after \in 1 .. Len(list) /\ m # Len(list) /\ (after = j \/ after < j)
      BY <1>1, <1>2
    <3>2. list[after].price < price
      BY <1>1, <3>1
    <3> HIDE DEF after
    <3>3. list[after].price >= list[j].price
      BY <1>3, <1>4, <3>1
    <3> QED
      BY <1>3, <1>5, <3>1, <3>2, <3>3
  <2> QED
    BY <1>1, <2>1, <2>2
<1> QED
  BY <1>1, <1>5 DEF m

\* A level after an order has joined it, and after one has left it.
Joined(lv, o) ==
  [quantity |-> Wrap(lv.quantity + o.quantity), price |-> lv.price, numOrders |-> lv.numOrders + 1]

Left(lv, o) ==
  [quantity |-> Wrap(lv.quantity - o.quantity), price |-> lv.price, numOrders |-> lv.numOrders - 1]

\* What add_to_prints does to the levels: an order at a price that has a level
\* joins it, any other gets a level of its own.
LEMMA AddedLevel ==
  ASSUME NEW list \in Seq(Level), Decreasing(list),
         NEW o, o.quantity \in Int, o.price \in Nat
  PROVE  /\ \A lv \in Members(list) : lv.price = o.price =>
              Members(AddToPrints(list, o)) = (Members(list) \ {lv}) \cup {Joined(lv, o)}
         /\ (\A lv \in Members(list) : lv.price # o.price) =>
              Members(AddToPrints(list, o)) = Members(list) \cup {CreatePrintedOrder(o)}
<1> DEFINE new == CreatePrintedOrder(o)
<1>1. Len(list) \in Nat
  BY LenProperties
<1>2. \A j \in 1 .. Len(list) : list[j] \in Level /\ list[j].price \in Nat
  <2>1. \A j \in 1 .. Len(list) : list[j] \in Level
    BY ElementOfSeq
  <2> QED
    BY <2>1 DEF Level
<1>3. new \in Level
  BY DEF CreatePrintedOrder, Level
<1> HIDE DEF new
<1>4. CASE list = <<>> \/ list[1].price < o.price
  <2>1. AddToPrints(list, o) = <<new>> \o list
    BY <1>4 DEF AddToPrints, new
  <2>2. Members(AddToPrints(list, o)) = Members(list) \cup {new}
    BY <1>3, <2>1, MembersAfterPrepend
  <2>3. ASSUME NEW j \in 1 .. Len(list) PROVE list[j].price # o.price
    <3>1. list # <<>> /\ list[1].price < o.price /\ 1 \in 1 .. Len(list)
      BY <1>1, <1>4
    <3>2. j = 1 \/ list[1].price > list[j].price
      BY <1>1, <3>1 DEF Decreasing
    <3> QED
      BY <1>2, <3>1, <3>2
  <2>4. \A lv \in Members(list) : lv.price # o.price
    BY <2>3 DEF Members
  <2> QED
    BY <2>2, <2>4 DEF new
<1>5. CASE list # <<>> /\ ~ (list[1].price < o.price)
  <2> DEFINE m == SearchStop(list, o.price)
  <2>1. m \in 1 .. Len(list) /\ \A j \in 1 .. Len(list) : list[j].price = o.price => j = m
    BY <1>5, SearchStopFinds
  <2>2. AddToPrints(list, o) = IF list[m].price = o.price
                               THEN [list EXCEPT ![m] = Joined(list[m], o)]
                               ELSE InsertAt(list, m + 1, new)
    BY <1>5, <1>1, <2>1 DEF AddToPrints, new, Joined
  <2> HIDE DEF m
  <2>3. \A lv \in Members(list) : lv.price = o.price => lv = list[m]
    BY <2>1 DEF Members
  <2>4. CASE list[m].price = o.price
    <3>1. \A j \in 1 .. Len(list) : list[j] = list[m] => j = m
      BY <2>1, <2>4
    <3>2. Members(AddToPrints(list, o)) = (Members(list) \ {list[m]}) \cup {Joined(list[m], o)}
      <4> DEFINE e == Joined(list[m], o)
      <4>1. AddToPrints(list, o) = [list EXCEPT ![m] = e]
        BY <2>2, <2>4
      <4> HIDE DEF e
      <4>2. Members([list EXCEPT ![m] = e]) = (Members(list) \ {list[m]}) \cup {e}
        BY <2>1, <3>1, MembersAfterUpdate
      <4> QED
        BY <4>1, <4>2 DEF e
    <3>3. list[m] \in Members(list)
      BY <2>1 DEF Members
    <3> QED
      BY <2>3, <2>4, <3>2, <3>3
  <2>5. CASE list[m].price # o.price
    <3> DEFINE place == m + 1
    <3>1. place \in 1 .. Len(list) + 1
      BY <1>1, <2>1
    <3>2. AddToPrints(list, o) = InsertAt(list, place, new)
      BY <2>2, <2>5
    <3> HIDE DEF place
    <3>3. Members(AddToPrints(list, o)) = Members(list) \cup {new}
      BY <1>3, <3>1, <3>2, MembersAfterInsert
    <3>4. \A lv \in Members(list) : lv.price # o.price
      BY <2>3, <2>5
    <3> QED
      BY <3>3, <3>4 DEF new
  <2> QED
    BY <2>4, <2>5
<1> QED
  BY <1>4, <1>5

\* What delete_order_prints does to the level at the price of the order: the
\* order leaves it, and an empty level goes.
LEMMA DeletedLevel ==
  ASSUME NEW ladder \in Ladder, WellKept(ladder),
         NEW o, o.quantity \in Int, o.price \in Nat,
         NEW lv \in Members(ladder.list), lv.price = o.price
  PROVE  Members(DeleteOrderPrints(ladder, o)) =
           IF Left(lv, o).quantity = 0 THEN Members(ladder.list) \ {lv}
                                       ELSE (Members(ladder.list) \ {lv}) \cup {Left(lv, o)}
<1> DEFINE list == ladder.list
           at == {k \in DOMAIN list : list[k].price = o.price}
           m == CHOOSE k \in at : \A j \in at : k <= j
           left == Left(lv, o)
<1>1. list \in Seq(Level) /\ ladder.len = Len(list) /\ Decreasing(list)
  BY DEF Ladder, WellKept, Decreasing
<1> HIDE DEF list
<1>2. Len(list) \in Nat /\ DOMAIN list = 1 .. Len(list)
  BY <1>1, LenProperties
<1>3. PICK k \in 1 .. Len(list) : lv = list[k]
  BY DEF Members, list
<1>4. at = {k}
  <2>1. \A j \in 1 .. Len(list) : list[j].price = o.price => j = k
    BY <1>1, <1>3, OneLevelAtPrice
  <2> QED
    BY <1>2, <1>3, <2>1
<1>5. m = k
  <2>1. \A j \in at : j = k
    BY <1>4
  <2>2. k \in at /\ k <= k
    BY <1>2, <1>4
  <2> HIDE DEF at
  <2> QED
    BY <2>1, <2>2
<1>6. DeleteOrderPrints(ladder, o) =
        IF left.quantity = 0 THEN RemoveFromProducts(ladder, k) ELSE [list EXCEPT ![k] = left]
  <2>1. at # {}
    BY <1>4
  <2>2. DeleteOrderPrints(ladder, o) =
          IF Left(list[m], o).quantity = 0 THEN RemoveFromProducts(ladder, m)
                                           ELSE [list EXCEPT ![m] = Left(list[m], o)]
    BY <2>1 DEF DeleteOrderPrints, Left, list
  <2> HIDE DEF m, at
  <2> QED
    BY <1>3, <1>5, <2>2
<1> HIDE DEF m, at, left
<1>7. \A j \in 1 .. Len(list) : list[j] = list[k] => j = k
  BY <1>1, OneLevelAtPrice
<1>8. CASE left.quantity # 0
  <2>1. Members(DeleteOrderPrints(ladder, o)) = (Members(list) \ {list[k]}) \cup {left}
    <3>1. DeleteOrderPrints(ladder, o) = [list EXCEPT ![k] = left]
      BY <1>6, <1>8
    <3>2. Members([list EXCEPT ![k] = left]) = (Members(list) \ {list[k]}) \cup {left}
      <4>1. list \in Seq(Level)
        BY <1>1
      <4> QED
        BY <4>1, <1>7, MembersAfterUpdate
    <3> QED
      BY <3>1, <3>2
  <2> QED
    BY <1>3, <1>8, <2>1 DEF left, list
<1>9. CASE left.quantity = 0
  <2>1. Members(DeleteOrderPrints(ladder, o)) = Members(list) \ {list[k]}
    <3>1. CASE ladder.len = 1
      <4>1. DeleteOrderPrints(ladder, o) = <<>>
        BY <1>6, <1>9, <3>1 DEF RemoveFromProducts
      <4>2. Members(list) = {list[k]}
        BY <1>1, <1>2, <3>1 DEF Members
      <4>3. Members(<<>>) = {}
        BY DEF Members
      <4> QED
        BY <4>1, <4>2, <4>3
    <3>2. CASE ladder.len # 1
      <4>1. DeleteOrderPrints(ladder, o) = RemoveAt(list, k)
        BY <1>6, <1>9, <3>2 DEF RemoveFromProducts, list
      <4> QED
        BY <1>1, <1>7, <4>1, MembersAfterRemove
    <3> QED
      BY <3>1, <3>2
  <2> QED
    BY <1>3, <1>9, <2>1 DEF left, list
<1> QED
  BY <1>8, <1>9
-----------------------------------------------------------------------------
(* Ladders that show what is in the lists *)

\* The levels show, for each price, how many orders there are at it (numbers) and
\* their total quantity (totals), and only prices where there is any.
Mirrors(list, numbers, totals) ==
  /\ \A lv \in Members(list) : lv.quantity = totals[lv.price] /\ lv.numOrders = numbers[lv.price]
  /\ \A c \in Nat : totals[c] # 0 <=> \E lv \in Members(list) : lv.price = c

\* At each price, no orders where there is nothing.
Counted(numbers, totals) ==
  /\ numbers \in [Nat -> Nat] /\ totals \in [Nat -> Nat]
  /\ \A c \in Nat : totals[c] = 0 => numbers[c] = 0

\* One order more, or one less, at one price.
Raised(new, old, c, n) == new[c] = old[c] + n /\ \A d \in Nat \ {c} : new[d] = old[d]

\* add_to_prints keeps the levels true to the orders, if the total fits in an int.
LEMMA AddMirrors ==
  ASSUME NEW list \in Seq(Level), Decreasing(list),
         NEW o, o.quantity \in Nat \ {0}, o.price \in Nat,
         NEW numbers, NEW totals, Counted(numbers, totals),
         NEW numbersAfter, NEW totalsAfter, Counted(numbersAfter, totalsAfter),
         Raised(numbersAfter, numbers, o.price, 1), Raised(totalsAfter, totals, o.price, o.quantity),
         totalsAfter[o.price] <= IntMax,
         Mirrors(list, numbers, totals)
  PROVE  Mirrors(AddToPrints(list, o), numbersAfter, totalsAfter)
<1> DEFINE new == AddToPrints(list, o)
<1>1. /\ Members(list) \in SUBSET Level
      /\ \A lv \in Members(list) : lv.price \in Nat /\ lv.quantity \in Int /\ lv.numOrders \in Int
  <2>1. Members(list) \in SUBSET Level
    BY MembersOfSeq
  <2> QED
    BY <2>1 DEF Level
<1>2. /\ totals[o.price] \in Nat /\ totalsAfter[o.price] = totals[o.price] + o.quantity
      /\ numbers[o.price] \in Nat /\ numbersAfter[o.price] = numbers[o.price] + 1
      /\ totalsAfter[o.price] \in Nat /\ totalsAfter[o.price] # 0 /\ o.quantity \in Int
  <2>1. /\ totals[o.price] \in Nat /\ totalsAfter[o.price] \in Nat
        /\ numbers[o.price] \in Nat
    BY DEF Counted
  <2>2. /\ totalsAfter[o.price] = totals[o.price] + o.quantity
        /\ numbersAfter[o.price] = numbers[o.price] + 1
    BY DEF Raised
  <2>3. o.quantity \in Nat /\ o.quantity > 0
    OBVIOUS
  <2>4. \A a, b, q \in Nat : b = a + q /\ q > 0 => b # 0
    OBVIOUS
  <2>5. totalsAfter[o.price] # 0
    BY <2>1, <2>2, <2>3, <2>4, Zenon
  <2>6. o.quantity \in Int
    BY <2>3
  <2> QED
    BY <2>1, <2>2, <2>5, <2>6
<1>3. Wrap(totals[o.price] + o.quantity) = totalsAfter[o.price]
  <2>1. totalsAfter[o.price] \in -(IntMax + 1) .. IntMax
    BY <1>2, IntMaxAssumption
  <2> QED
    BY <1>2, <2>1, WrapFits
<1>4. ASSUME NEW others \in SUBSET Members(list), NEW added,
             added.price = o.price,
             added.quantity = totalsAfter[o.price], added.numOrders = numbersAfter[o.price],
             \A lv \in Members(list) : lv \in others <=> lv.price # o.price,
             Members(new) = others \cup {added}
      PROVE  Mirrors(new, numbersAfter, totalsAfter)
  <2>1. ASSUME NEW lv \in Members(new)
        PROVE  lv.quantity = totalsAfter[lv.price] /\ lv.numOrders = numbersAfter[lv.price]
    <3>1. CASE lv = added
      BY <1>4, <3>1
    <3>2. CASE lv \in others
      <4>1. lv \in Members(list) /\ lv.price # o.price /\ lv.price \in Nat
        BY <1>1, <1>4, <3>2
      <4> QED
        BY <4>1 DEF Raised, Mirrors
    <3> QED
      BY <1>4, <3>1, <3>2
  <2>2. ASSUME NEW c \in Nat
        PROVE  totalsAfter[c] # 0 <=> \E lv \in Members(new) : lv.price = c
    <3>1. CASE c = o.price
      BY <1>2, <1>4, <3>1
    <3>2. CASE c # o.price
      <4>1. totalsAfter[c] = totals[c]
        BY <3>2 DEF Raised
      <4>2. (\E lv \in Members(new) : lv.price = c) <=> \E lv \in Members(list) : lv.price = c
        BY <1>4, <3>2
      <4> QED
        BY <4>1, <4>2 DEF Mirrors
    <3> QED
      BY <3>1, <3>2
  <2> HIDE DEF new
  <2> QED
    BY <2>1, <2>2 DEF Mirrors
<1>5. CASE \E lv \in Members(list) : lv.price = o.price
  <2>1. PICK lv \in Members(list) : lv.price = o.price
    BY <1>5
  <2> DEFINE others == Members(list) \ {lv}
             added == Joined(lv, o)
  <2>2. Members(new) = others \cup {added}
    BY <1>2, <2>1, AddedLevel
  <2>3. lv.quantity = totals[o.price] /\ lv.numOrders = numbers[o.price]
    BY <2>1 DEF Mirrors
  <2>4. /\ added.price = o.price
        /\ added.quantity = totalsAfter[o.price] /\ added.numOrders = numbersAfter[o.price]
    BY <1>2, <1>3, <2>1, <2>3 DEF Joined
  <2>5. \A x \in Members(list) : x \in others <=> x.price # o.price
    BY <2>1, OneMemberAtPrice
  <2> HIDE DEF new, added
  <2> QED
    BY <1>4, <2>2, <2>4, <2>5 DEF new
<1>6. CASE \A lv \in Members(list) : lv.price # o.price
  <2> DEFINE others == Members(list)
             added == CreatePrintedOrder(o)
  <2>1. Members(new) = others \cup {added}
    BY <1>2, <1>6, AddedLevel
  <2>2. totals[o.price] = 0 /\ numbers[o.price] = 0
    BY <1>6 DEF Mirrors, Counted
  <2>3. /\ added.price = o.price
        /\ added.quantity = totalsAfter[o.price] /\ added.numOrders = numbersAfter[o.price]
    <3>1. added.price = o.price /\ added.quantity = o.quantity /\ added.numOrders = 1
      BY DEF CreatePrintedOrder
    <3> HIDE DEF added
    <3>2. totalsAfter[o.price] = 0 + o.quantity /\ numbersAfter[o.price] = 0 + 1
      BY <1>2, <2>2
    <3>3. 0 + o.quantity = o.quantity /\ 0 + 1 = 1
      BY <1>2
    <3> QED
      BY <3>1, <3>2, <3>3, Zenon
  <2> HIDE DEF new, added
  <2> QED
    BY <1>4, <1>6, <2>1, <2>3 DEF new
<1> QED
  BY <1>5, <1>6

\* delete_order_prints, too.
LEMMA DeleteMirrors ==
  ASSUME NEW ladder \in Ladder, WellKept(ladder),
         NEW o, o.quantity \in Nat \ {0}, o.price \in Nat,
         NEW numbers, NEW totals, Counted(numbers, totals),
         NEW numbersAfter, NEW totalsAfter, Counted(numbersAfter, totalsAfter),
         Raised(numbers, numbersAfter, o.price, 1), Raised(totals, totalsAfter, o.price, o.quantity),
         totals[o.price] <= IntMax,
         Mirrors(ladder.list, numbers, totals)
  PROVE  Mirrors(DeleteOrderPrints(ladder, o), numbersAfter, totalsAfter)
<1> DEFINE list == ladder.list
           new == DeleteOrderPrints(ladder, o)
<1>1. list \in Seq(Level) /\ Decreasing(list)
  BY DEF Ladder, WellKept, Decreasing
<1>2. \A lv \in Members(list) : lv.price \in Nat
  <2>1. Members(list) \in SUBSET Level
    BY <1>1, MembersOfSeq
  <2> QED
    BY <2>1 DEF Level
<1>3. /\ totals[o.price] \in Nat /\ totalsAfter[o.price] \in Nat
      /\ totalsAfter[o.price] = totals[o.price] - o.quantity
      /\ numbersAfter[o.price] = numbers[o.price] - 1
      /\ totals[o.price] # 0
      /\ totalsAfter[o.price] <= IntMax
  <2>1. /\ totals[o.price] \in Nat /\ totalsAfter[o.price] \in Nat
        /\ numbers[o.price] \in Nat /\ numbersAfter[o.price] \in Nat
    BY DEF Counted
  <2>2. /\ totals[o.price] = totalsAfter[o.price] + o.quantity
        /\ numbers[o.price] = numbersAfter[o.price] + 1
    BY DEF Raised
  <2>3. o.quantity \in Nat /\ o.quantity > 0 /\ totals[o.price] <= IntMax /\ IntMax \in Nat
    BY IntMaxAssumption
  <2> DEFINE a == totals[o.price]
             b == totalsAfter[o.price]
             m == numbers[o.price]
             n == numbersAfter[o.price]
             q == o.quantity
  <2>4. a \in Nat /\ b \in Nat /\ m \in Nat /\ n \in Nat /\ a = b + q /\ m = n + 1
    BY <2>1, <2>2
  <2>5. q \in Nat /\ q > 0 /\ a <= IntMax /\ IntMax \in Nat
    BY <2>3
  <2> HIDE DEF a, b, m, n, q
  <2>6. b = a - q /\ n = m - 1 /\ a # 0 /\ b <= IntMax
    BY <2>4, <2>5
  <2> QED
    BY <2>1, <2>6 DEF a, b, m, n, q
<1>4. PICK lv \in Members(list) : lv.price = o.price
  BY <1>3 DEF Mirrors
<1> DEFINE left == Left(lv, o)
           others == Members(list) \ {lv}
<1>5. left.quantity = totalsAfter[o.price] /\ left.numOrders = numbersAfter[o.price]
  <2>1. totalsAfter[o.price] \in -(IntMax + 1) .. IntMax
    BY <1>3, IntMaxAssumption
  <2>2. lv.quantity = totals[o.price] /\ lv.numOrders = numbers[o.price]
    BY <1>4 DEF Mirrors
  <2> QED
    BY <1>3, <2>1, <2>2, WrapFits DEF Left
<1>6. left.price = o.price
  BY <1>4 DEF Left
<1>7. Members(new) = IF left.quantity = 0 THEN others ELSE others \cup {left}
  BY <1>4, DeletedLevel
<1>8. \A x \in Members(list) : x \in others <=> x.price # o.price
  BY <1>1, <1>4, OneMemberAtPrice
<1> HIDE DEF new, left, others, list
<1>9. ASSUME NEW x \in Members(new)
      PROVE  x.quantity = totalsAfter[x.price] /\ x.numOrders = numbersAfter[x.price]
  <2>1. CASE x = left
    BY <1>5, <1>6, <2>1
  <2>2. CASE x \in others
    <3>1. x \in Members(list) /\ x.price # o.price /\ x.price \in Nat
      BY <1>2, <1>8, <2>2 DEF others
    <3> QED
      BY <3>1 DEF Raised, Mirrors, list
  <2> QED
    BY <1>7, <2>1, <2>2
<1>10. ASSUME NEW c \in Nat
       PROVE  totalsAfter[c] # 0 <=> \E x \in Members(new) : x.price = c
  <2>0. others \subseteq Members(list)
    BY DEF others
  <2>1. CASE c = o.price
    BY <1>5, <1>6, <1>7, <1>8, <2>0, <2>1
  <2>2. CASE c # o.price
    <3>1. totalsAfter[c] = totals[c]
      BY <2>2 DEF Raised
    <3>2. (\E x \in Members(new) : x.price = c) <=> \E x \in Members(list) : x.price = c
      BY <1>6, <1>7, <1>8, <2>0, <2>2
    <3> QED
      BY <3>1, <3>2 DEF Mirrors, list
  <2> QED
    BY <2>1, <2>2
<1> QED
  BY <1>9, <1>10 DEF Mirrors, new
-----------------------------------------------------------------------------
(* The invariant *)

\* The parts of the invariant that speak of the lists alone, for any lists.
FiledIn(b, n) ==
  \A p \in Products, s \in Sides : \A i \in DOMAIN b[p][s] :
    b[p][s][i].product = p /\ b[p][s][i].side = s /\ b[p][s][i].id < n[b[p][s][i].trader]

UniqueIn(b) ==
  \A p, q \in Products, s, r \in Sides :
    \A i \in DOMAIN b[p][s], j \in DOMAIN b[q][r] :
       SameOrder(b[p][s][i], b[q][r][j]) => p = q /\ s = r /\ i = j

AbsentIn(b, o) ==
  \A p \in Products, s \in Sides : \A i \in DOMAIN b[p][s] : ~ SameOrder(b[p][s][i], o)

UncrossedIn(b) ==
  \A p \in Products :
    \A i \in DOMAIN b[p]["buy"], j \in DOMAIN b[p]["sell"] :
       b[p]["buy"][i].price < b[p]["sell"][j].price

Lists == [Products -> [Sides -> Seq(Order)]]

LevelsWellKept == \A p \in Products, s \in Sides : WellKept(levels[p][s])

\* The inductive invariant.
IInv == TypeOK /\ Filed /\ OrderIdsUnique /\ Uncrossed /\ LevelsWellKept
-----------------------------------------------------------------------------
(* Lists that lose orders *)

SameTerms(a, b) ==
  /\ a.trader = b.trader /\ a.id = b.id
  /\ a.product = b.product /\ a.side = b.side /\ a.price = b.price

\* Every order of new has its origin in old, with the same terms but for the
\* quantity, and no two share one; those in `gone' are no origin.
Thinned(new, old, gone) ==
  /\ new \in Seq(Order)
  /\ \E f \in [DOMAIN new -> DOMAIN old \ gone] :
       /\ \A j, k \in DOMAIN new : f[j] = f[k] => j = k
       /\ \A j \in DOMAIN new : SameTerms(new[j], old[f[j]])

LEMMA RemoveThins ==
  ASSUME NEW list \in Seq(Order), NEW i \in DOMAIN list
  PROVE  Thinned(RemoveAt(list, i), list, {i})
<1> DEFINE new == RemoveAt(list, i)
           f == [j \in 1 .. Len(list) - 1 |-> IF j < i THEN j ELSE j + 1]
<1>1. Len(list) \in Nat /\ i \in 1 .. Len(list)
  BY LenProperties
<1>2. /\ new \in Seq(Order) /\ Len(new) = Len(list) - 1
      /\ \A j \in 1 .. Len(list) - 1 : new[j] = IF j < i THEN list[j] ELSE list[j + 1]
  BY <1>1, RemoveAtFacts
<1> HIDE DEF new
<1>3. \A j \in 1 .. Len(list) - 1 : f[j] \in 1 .. Len(list) /\ f[j] # i
  BY <1>1
<1>4. \A j, k \in 1 .. Len(list) - 1 : f[j] = f[k] => j = k
  BY <1>1
<1>5. \A j \in 1 .. Len(list) - 1 : new[j] = list[f[j]]
  BY <1>2
<1>6. DOMAIN new = 1 .. Len(list) - 1 /\ DOMAIN list = 1 .. Len(list)
  BY <1>2, LenProperties
<1>7. f \in [DOMAIN new -> DOMAIN list \ {i}]
  BY <1>3, <1>6
<1> HIDE DEF f
<1>8. \A j \in DOMAIN new : SameTerms(new[j], list[f[j]])
  BY <1>5, <1>6 DEF SameTerms
<1>9. \A j, k \in DOMAIN new : f[j] = f[k] => j = k
  BY <1>4, <1>6
<1>10. Thinned(new, list, {i})
  BY <1>2, <1>7, <1>8, <1>9 DEF Thinned
<1> QED
  BY <1>10 DEF new

LEMMA ReduceThins ==
  ASSUME NEW list \in Seq(Order), NEW i \in DOMAIN list,
         NEW o \in Order, SameTerms(o, list[i])
  PROVE  Thinned([list EXCEPT ![i] = o], list, {})
<1> DEFINE new == [list EXCEPT ![i] = o]
           f == [j \in DOMAIN list |-> j]
<1>1. new \in Seq(Order) /\ DOMAIN new = DOMAIN list
  OBVIOUS
<1>2. \A j \in DOMAIN list : new[j] = IF j = i THEN o ELSE list[j]
  OBVIOUS
<1>3. f \in [DOMAIN new -> DOMAIN list \ {}]
  BY <1>1
<1>4. \A j \in DOMAIN new : SameTerms(new[j], list[f[j]])
  BY <1>1, <1>2 DEF SameTerms
<1>5. \A j, k \in DOMAIN new : f[j] = f[k] => j = k
  BY <1>1
<1> HIDE DEF new, f
<1> QED
  BY <1>1, <1>3, <1>4, <1>5 DEF Thinned, new

\* Taking an order out of the book, or some of its quantity, disturbs nothing.
LEMMA ThinnedBook ==
  ASSUME NEW b \in Lists, NEW n, FiledIn(b, n), UniqueIn(b), UncrossedIn(b),
         NEW p \in Products, NEW s \in Sides, NEW new, NEW gone,
         Thinned(new, b[p][s], gone)
  PROVE  LET c == [b EXCEPT ![p][s] = new]
         IN  /\ c \in Lists
             /\ FiledIn(c, n) /\ UniqueIn(c) /\ UncrossedIn(c)
             /\ \A o : AbsentIn(b, o) => AbsentIn(c, o)
             /\ \A i \in gone : i \in DOMAIN b[p][s] => AbsentIn(c, b[p][s][i])
<1> DEFINE c == [b EXCEPT ![p][s] = new]
<1>1. c \in Lists
  BY DEF Thinned, Lists
<1>2. PICK f \in [DOMAIN new -> DOMAIN b[p][s] \ gone] :
        /\ \A j, k \in DOMAIN new : f[j] = f[k] => j = k
        /\ \A j \in DOMAIN new : SameTerms(new[j], b[p][s][f[j]])
  BY DEF Thinned
<1>3. \A q \in Products, r \in Sides : c[q][r] = IF q = p /\ r = s THEN new ELSE b[q][r]
  BY DEF Lists
<1> HIDE DEF c
<1> DEFINE from(q, r, j) == IF q = p /\ r = s THEN f[j] ELSE j
<1>4. ASSUME NEW q \in Products, NEW r \in Sides, NEW j \in DOMAIN c[q][r]
      PROVE  /\ from(q, r, j) \in DOMAIN b[q][r]
             /\ SameTerms(c[q][r][j], b[q][r][from(q, r, j)])
  BY <1>2, <1>3 DEF SameTerms
<1>5. ASSUME NEW q \in Products, NEW r \in Sides, NEW j \in DOMAIN c[q][r], NEW k \in DOMAIN c[q][r],
             from(q, r, j) = from(q, r, k)
      PROVE  j = k
  BY <1>2, <1>3, <1>5
<1>6. ASSUME NEW j \in DOMAIN c[p][s] PROVE from(p, s, j) \notin gone
  BY <1>2, <1>3
<1> HIDE DEF from
<1>7. FiledIn(c, n)
  BY <1>4 DEF FiledIn, SameTerms
<1>8. UniqueIn(c)
  <2> SUFFICES ASSUME NEW q \in Products, NEW q2 \in Products, NEW r \in Sides, NEW r2 \in Sides,
                      NEW i \in DOMAIN c[q][r], NEW j \in DOMAIN c[q2][r2],
                      SameOrder(c[q][r][i], c[q2][r2][j])
               PROVE  q = q2 /\ r = r2 /\ i = j
    BY DEF UniqueIn
  <2>1. SameOrder(b[q][r][from(q, r, i)], b[q2][r2][from(q2, r2, j)])
    BY <1>4 DEF SameOrder, SameTerms
  <2>2. q = q2 /\ r = r2 /\ from(q, r, i) = from(q2, r2, j)
    BY <2>1, <1>4 DEF UniqueIn
  <2> QED
    BY <2>2, <1>5
<1>9. UncrossedIn(c)
  BY <1>4 DEF UncrossedIn, SameTerms, Sides
<1>10. ASSUME NEW o, AbsentIn(b, o) PROVE AbsentIn(c, o)
  BY <1>4, <1>10 DEF AbsentIn, SameOrder, SameTerms
<1>11. ASSUME NEW i \in gone, i \in DOMAIN b[p][s] PROVE AbsentIn(c, b[p][s][i])
  <2> SUFFICES ASSUME NEW q \in Products, NEW r \in Sides, NEW j \in DOMAIN c[q][r],
                      SameOrder(c[q][r][j], b[p][s][i])
               PROVE  FALSE
    BY DEF AbsentIn
  <2>1. SameOrder(b[q][r][from(q, r, j)], b[p][s][i])
    BY <1>4 DEF SameOrder, SameTerms
  <2>2. q = p /\ r = s /\ from(q, r, j) = i
    BY <2>1, <1>4, <1>11 DEF UniqueIn
  <2> QED
    BY <2>2, <1>6, <1>11
<1> QED
  BY <1>1, <1>7, <1>8, <1>9, <1>10, <1>11 DEF c

\* Resting an order that is new to the book and crosses nothing in it disturbs
\* nothing either.
LEMMA AppendedBook ==
  ASSUME NEW b \in Lists, NEW n, FiledIn(b, n), UniqueIn(b), UncrossedIn(b),
         NEW o \in Order, AbsentIn(b, o), o.id < n[o.trader],
         \A i \in DOMAIN b[o.product][Opposite(o.side)] :
            ~ Crosses(o, b[o.product][Opposite(o.side)][i])
  PROVE  LET c == [b EXCEPT ![o.product][o.side] = Append(@, o)]
         IN  c \in Lists /\ FiledIn(c, n) /\ UniqueIn(c) /\ UncrossedIn(c)
<1> DEFINE p == o.product
           s == o.side
           list == b[p][s]
           new == Append(list, o)
           c == [b EXCEPT ![p][s] = Append(@, o)]
<1>1. p \in Products /\ s \in Sides /\ o.price \in Nat
  BY OrderBookAssumption, IntMaxAssumption DEF Order
<1>2. list \in Seq(Order)
  BY <1>1 DEF Lists
<1>3. c \in Lists
  BY <1>1, <1>2 DEF Lists
<1>4. \A q \in Products, r \in Sides : c[q][r] = IF q = p /\ r = s THEN new ELSE b[q][r]
  BY <1>1 DEF Lists
<1>5. \A j \in DOMAIN new : \/ j \in DOMAIN list /\ new[j] = list[j]
                            \/ j = Len(list) + 1 /\ new[j] = o
  <2>1. /\ new \in Seq(Order) /\ Len(new) = Len(list) + 1
        /\ \A i \in 1 .. Len(list) : new[i] = list[i]
        /\ new[Len(list) + 1] = o
    BY <1>2, AppendProperties
  <2>2. DOMAIN new = 1 .. Len(list) + 1 /\ DOMAIN list = 1 .. Len(list)
    BY <1>2, <2>1, LenProperties
  <2>3. Len(list) \in Nat
    BY <1>2, LenProperties
  <2> HIDE DEF list, new
  <2> SUFFICES ASSUME NEW j \in DOMAIN new
               PROVE  \/ j \in DOMAIN list /\ new[j] = list[j]
                      \/ j = Len(list) + 1 /\ new[j] = o
    OBVIOUS
  <2>4. j \in 1 .. Len(list) + 1
    BY <2>2
  <2>5. j \in 1 .. Len(list) \/ j = Len(list) + 1
    BY <2>3, <2>4
  <2>6. CASE j \in 1 .. Len(list)
    BY <2>6, <2>1, <2>2
  <2>7. CASE j = Len(list) + 1
    BY <2>7, <2>1
  <2> QED
    BY <2>5, <2>6, <2>7
<1> HIDE DEF c, new
<1>6. ASSUME NEW q \in Products, NEW r \in Sides, NEW j \in DOMAIN c[q][r]
      PROVE  \/ j \in DOMAIN b[q][r] /\ c[q][r][j] = b[q][r][j]
             \/ q = p /\ r = s /\ j = Len(list) + 1 /\ c[q][r][j] = o
  BY <1>4, <1>5
<1> HIDE DEF list
<1>7. FiledIn(c, n)
  BY <1>6 DEF FiledIn
<1>8. UniqueIn(c)
  <2> SUFFICES ASSUME NEW q \in Products, NEW q2 \in Products, NEW r \in Sides, NEW r2 \in Sides,
                      NEW i \in DOMAIN c[q][r], NEW j \in DOMAIN c[q2][r2],
                      SameOrder(c[q][r][i], c[q2][r2][j])
               PROVE  q = q2 /\ r = r2 /\ i = j
    BY DEF UniqueIn
  <2> DEFINE Old(q3, r3, k) == k \in DOMAIN b[q3][r3] /\ c[q3][r3][k] = b[q3][r3][k]
             New(q3, r3, k) == q3 = p /\ r3 = s /\ k = Len(list) + 1 /\ c[q3][r3][k] = o
  <2>1. (Old(q, r, i) \/ New(q, r, i)) /\ (Old(q2, r2, j) \/ New(q2, r2, j))
    BY <1>6
  <2>2. CASE Old(q, r, i) /\ Old(q2, r2, j)
    BY <2>2 DEF UniqueIn
  <2>3. CASE New(q, r, i) /\ New(q2, r2, j)
    BY <2>3
  <2>4. CASE Old(q, r, i) /\ New(q2, r2, j)
    BY <2>4 DEF AbsentIn
  <2>5. CASE New(q, r, i) /\ Old(q2, r2, j)
    BY <2>5 DEF AbsentIn, SameOrder
  <2> QED
    BY <2>1, <2>2, <2>3, <2>4, <2>5
<1>9. UncrossedIn(c)
  <2> SUFFICES ASSUME NEW q \in Products, NEW i \in DOMAIN c[q]["buy"], NEW j \in DOMAIN c[q]["sell"]
               PROVE  c[q]["buy"][i].price < c[q]["sell"][j].price
    BY DEF UncrossedIn
  <2>1. "buy" \in Sides /\ "sell" \in Sides
    BY DEF Sides
  <2>2. ASSUME NEW k \in DOMAIN b[q][Opposite(s)] , q = p
        PROVE  b[q][Opposite(s)][k].price \in Nat
    <3>1. Opposite(s) \in Sides
      BY DEF Opposite, Sides
    <3>2. b[q][Opposite(s)] \in Seq(Order)
      BY <3>1 DEF Lists
    <3>3. b[q][Opposite(s)][k] \in Order
      BY <3>2, <2>2
    <3> QED
      BY <3>3, OrderBookAssumption DEF Order
  <2>3. CASE q = p /\ s = "buy" /\ c[q]["buy"][i] = o
    <3>1. j \in DOMAIN b[q]["sell"] /\ c[q]["sell"][j] = b[q]["sell"][j]
      BY <1>6, <2>1, <2>3
    <3>2. ~ Crosses(o, b[q]["sell"][j])
      BY <3>1, <2>3 DEF Opposite
    <3>3. b[q]["sell"][j].price \in Nat
      BY <2>2, <2>3, <3>1 DEF Opposite
    <3> QED
      BY <1>1, <2>3, <3>1, <3>2, <3>3 DEF Crosses
  <2>4. CASE q = p /\ s = "sell" /\ c[q]["sell"][j] = o
    <3>1. i \in DOMAIN b[q]["buy"] /\ c[q]["buy"][i] = b[q]["buy"][i]
      BY <1>6, <2>1, <2>4
    <3>2. ~ Crosses(o, b[q]["buy"][i])
      BY <3>1, <2>4 DEF Opposite
    <3>3. b[q]["buy"][i].price \in Nat
      BY <2>2, <2>4, <3>1 DEF Opposite
    <3> QED
      BY <1>1, <2>4, <3>1, <3>2, <3>3 DEF Crosses
  <2>5. CASE /\ i \in DOMAIN b[q]["buy"] /\ c[q]["buy"][i] = b[q]["buy"][i]
             /\ j \in DOMAIN b[q]["sell"] /\ c[q]["sell"][j] = b[q]["sell"][j]
    BY <2>5 DEF UncrossedIn
  <2> QED
    BY <1>6, <2>1, <2>3, <2>4, <2>5
<1> QED
  BY <1>3, <1>7, <1>8, <1>9 DEF c
-----------------------------------------------------------------------------
(* What the actions are made of *)

LEMMA OrderFields ==
  ASSUME NEW o \in Order
  PROVE  /\ o.trader \in Traders /\ o.id \in Nat /\ o.product \in Products /\ o.side \in Sides
         /\ o.quantity \in Nat /\ o.quantity >= 1 /\ o.quantity <= MaxQuantity
         /\ o.price \in Nat /\ o.price >= 1 /\ o.price <= MaxPrice
         /\ Opposite(o.side) \in Sides
BY OrderBookAssumption, IntMaxAssumption DEF Order, Opposite, Sides

LEMMA BookOrders ==
  ASSUME NEW b \in Lists, NEW p \in Products, NEW s \in Sides
  PROVE  /\ b[p][s] \in Seq(Order)
         /\ Len(b[p][s]) \in Nat
         /\ DOMAIN b[p][s] = 1 .. Len(b[p][s])
         /\ \A i \in DOMAIN b[p][s] : b[p][s][i] \in Order
<1>1. b[p][s] \in Seq(Order)
  BY DEF Lists
<1> QED
  BY <1>1, LenProperties, ElementOfSeq

\* find_best_sell and find_best_buy find an order whenever one crosses.
LEMMA FindBestFinds ==
  ASSUME book \in Lists, FiledIn(book, nextId), NEW o \in Order,
         NEW i \in DOMAIN book[o.product][Opposite(o.side)],
         Crosses(o, book[o.product][Opposite(o.side)][i])
  PROVE  FindBest(o) # {}
<1> DEFINE s == Opposite(o.side)
           list == book[o.product][s]
<1>1. o.product \in Products /\ s \in Sides /\ ((o.side = "buy" /\ s = "sell") \/ (o.side = "sell" /\ s = "buy"))
  BY OrderFields DEF Opposite, Sides
<1>2. DOMAIN list = 1 .. Len(list)
  BY <1>1, BookOrders
<1>3. Len(list) \in Nat
  BY <1>1, BookOrders
<1>4. \A j \in DOMAIN list : list[j] \in Order /\ list[j].side = s
  BY <1>1, BookOrders DEF FiledIn
<1>5. \A j \in 1 .. Len(list) : list[j].price \in Nat /\ list[j].price <= MaxPrice
  BY <1>2, <1>4, OrderFields
<1>6. i \in 1 .. Len(list)
  BY <1>2
<1> DEFINE key == [j \in 1 .. Len(list) |->
                     IF s = "sell" THEN list[j].price ELSE MaxPrice - list[j].price]
<1>7. MaxPrice \in Nat
  BY OrderBookAssumption, IntMaxAssumption
<1>8. FindBest(o) = {k \in DOMAIN list :
                       /\ Crosses(o, list[k])
                       /\ \A j \in DOMAIN list : ~ BetterPrice(list[j], list[k])
                       /\ \A j \in 1 .. k - 1 : BetterPrice(list[k], list[j])}
  BY DEF FindBest
<1> HIDE DEF list, s
<1>9. key \in [1 .. Len(list) -> Nat]
  BY <1>5, <1>7
<1>10. \A j \in 1 .. Len(list) :
          key[j] = IF s = "sell" THEN list[j].price ELSE MaxPrice - list[j].price
  OBVIOUS
<1> HIDE DEF key
<1>11. Len(list) \in Nat \ {0}
  BY <1>3, <1>6
<1>12. PICK k \in 1 .. Len(list) : /\ \A j \in 1 .. Len(list) : key[k] <= key[j]
                                   /\ \A j \in 1 .. k - 1 : key[k] < key[j]
  BY <1>9, <1>11, EarliestLeast
<1>13. ASSUME NEW j \in 1 .. Len(list), NEW h \in 1 .. Len(list)
       PROVE  BetterPrice(list[j], list[h]) <=> key[j] < key[h]
  <2>1. list[j].side = s
    BY <1>2, <1>4
  <2> QED
    BY <2>1, <1>1, <1>5, <1>7, <1>10 DEF BetterPrice
<1>14. \A j \in DOMAIN list : ~ BetterPrice(list[j], list[k])
  <2> SUFFICES ASSUME NEW j \in 1 .. Len(list) PROVE ~ (key[j] < key[k])
    BY <1>2, <1>13
  <2>1. key[j] \in Nat /\ key[k] \in Nat /\ key[k] <= key[j]
    BY <1>9, <1>12
  <2> QED
    BY <2>1
<1>15. \A j \in 1 .. k - 1 : BetterPrice(list[k], list[j])
  <2> SUFFICES ASSUME NEW j \in 1 .. k - 1 PROVE BetterPrice(list[k], list[j])
    OBVIOUS
  <2>1. j \in 1 .. Len(list)
    BY <1>3
  <2> QED
    BY <2>1, <1>12, <1>13
<1>16. Crosses(o, list[k])
  <2>1. key[k] <= key[i]
    BY <1>6, <1>12
  <2>2. Crosses(o, list[i])
    BY DEF list, s
  <2>3. o.price \in Nat /\ list[k].price \in Nat /\ list[i].price \in Nat
    BY <1>5, <1>6, OrderFields
  <2>4. CASE o.side = "buy"
    <3>1. key[k] = list[k].price /\ key[i] = list[i].price
      BY <2>4, <1>1, <1>6, <1>10
    <3>2. list[i].price <= o.price
      BY <2>2, <2>4 DEF Crosses
    <3>3. list[k].price <= o.price
      BY <2>1, <2>3, <3>1, <3>2
    <3> QED
      BY <2>4, <3>3 DEF Crosses
  <2>5. CASE o.side # "buy"
    <3>1. key[k] = MaxPrice - list[k].price /\ key[i] = MaxPrice - list[i].price
      BY <2>5, <1>1, <1>6, <1>10
    <3>2. list[i].price >= o.price
      BY <2>2, <2>5 DEF Crosses
    <3>3. list[k].price >= o.price
      BY <2>1, <2>3, <3>1, <3>2, <1>7
    <3> QED
      BY <2>5, <3>3 DEF Crosses
  <2> QED
    BY <2>4, <2>5
<1> QED
  BY <1>2, <1>8, <1>14, <1>15, <1>16

LEMMA FeeInt ==
  ASSUME NEW value \in Int
  PROVE  Fee(value) \in Int
<1> DEFINE width == 2 * FeeDivisor
<1>1. FeeDivisor \in Nat /\ width \in Nat \ {0}
  BY OrderBookAssumption
<1> HIDE DEF width
<1>2. (2 * value + FeeDivisor) \div width \in Int /\ (FeeDivisor - 2 * value) \div width \in Int
  BY <1>1
<1> QED
  BY <1>1, <1>2 DEF Fee, width

\* The accounts stay integers.
LEMMA SettleType ==
  ASSUME pos \in [Traders -> [Products -> [quantity : Int, balance : Int]]], fees \in Int,
         NEW taking \in Order, NEW resting \in Order, NEW n \in Nat, Settle(taking, resting, n)
  PROVE  pos' \in [Traders -> [Products -> [quantity : Int, balance : Int]]] /\ fees' \in Int
<1> DEFINE total  == TotalPrice(taking, resting, n)
           buyer  == IF taking.side = "buy" THEN taking.trader ELSE resting.trader
           seller == IF taking.side = "buy" THEN resting.trader ELSE taking.trader
           moved(t) == [quantity |-> Wrap(pos[t][taking.product].quantity + When(t = buyer, n) - When(t = seller, n)),
                        balance |-> pos[t][taking.product].balance + When(t = seller, total)
                                      - When(t = buyer, total) - When(t = taking.trader, Fee(total))]
<1>1. total \in Int
  <2>1. resting.price * n \in Int
    BY OrderFields
  <2> QED
    BY <2>1, WrapInt DEF TotalPrice
<1>2. Fee(total) \in Int
  BY <1>1, FeeInt
<1>3. /\ fees' = fees + Fee(total)
      /\ pos' = [t \in Traders |-> [pos[t] EXCEPT ![taking.product] = moved(t)]]
  BY DEF Settle
<1>4. taking.product \in Products
  BY OrderFields
<1> HIDE DEF total, buyer, seller
<1>5. ASSUME NEW t \in Traders PROVE moved(t) \in [quantity : Int, balance : Int]
  <2>1. pos[t][taking.product].quantity \in Int /\ pos[t][taking.product].balance \in Int
    BY <1>4
  <2>2. pos[t][taking.product].quantity + When(t = buyer, n) - When(t = seller, n) \in Int
    BY <2>1 DEF When
  <2>3. pos[t][taking.product].balance + When(t = seller, total)
          - When(t = buyer, total) - When(t = taking.trader, Fee(total)) \in Int
    BY <2>1, <1>1, <1>2 DEF When
  <2> QED
    BY <2>2, <2>3, WrapInt
<1> HIDE DEF moved
<1>6. ASSUME NEW t \in Traders
      PROVE  [pos[t] EXCEPT ![taking.product] = moved(t)] \in [Products -> [quantity : Int, balance : Int]]
  BY <1>4, <1>5
<1>7. pos' \in [Traders -> [Products -> [quantity : Int, balance : Int]]]
  BY <1>3, <1>6
<1> QED
  BY <1>2, <1>3, <1>7

\* One part of the ladders is replaced by a well-kept one.
LEMMA LevelsReplaced ==
  ASSUME levels \in [Products -> [Sides -> Ladder]], LevelsWellKept,
         NEW p \in Products, NEW s \in Sides, NEW ladder \in Ladder, WellKept(ladder),
         levels' = [levels EXCEPT ![p][s] = ladder]
  PROVE  levels' \in [Products -> [Sides -> Ladder]] /\ LevelsWellKept'
<1>1. levels' \in [Products -> [Sides -> Ladder]]
  OBVIOUS
<1>2. \A q \in Products, r \in Sides :
         levels'[q][r] = IF q = p /\ r = s THEN ladder ELSE levels[q][r]
  OBVIOUS
<1> QED
  BY <1>1, <1>2 DEF LevelsWellKept

\* What a step on the lists leaves true of them.
BookInv(n) ==
  /\ book \in Lists /\ FiledIn(book, n) /\ UniqueIn(book) /\ UncrossedIn(book)
  /\ levels \in [Products -> [Sides -> Ladder]] /\ LevelsWellKept

LEMMA UnlistKeeps ==
  ASSUME NEW n, BookInv(n), NEW p \in Products, NEW s \in Sides, NEW i \in DOMAIN book[p][s],
         Unlist(p, s, i)
  PROVE  /\ book' \in Lists /\ FiledIn(book', n) /\ UniqueIn(book') /\ UncrossedIn(book')
         /\ levels' \in [Products -> [Sides -> Ladder]] /\ LevelsWellKept'
         /\ \A o : AbsentIn(book, o) => AbsentIn(book', o)
         /\ AbsentIn(book', book[p][s][i])
<1> DEFINE o == book[p][s][i]
<1>1. o \in Order /\ book[p][s] \in Seq(Order)
  BY BookOrders DEF BookInv
<1>2. Thinned(RemoveAt(book[p][s], i), book[p][s], {i})
  BY <1>1, RemoveThins
<1>3. book' = [book EXCEPT ![p][s] = RemoveAt(book[p][s], i)]
  BY DEF Unlist
<1>4. /\ book' \in Lists /\ FiledIn(book', n) /\ UniqueIn(book') /\ UncrossedIn(book')
      /\ \A a : AbsentIn(book, a) => AbsentIn(book', a)
      /\ AbsentIn(book', o)
  BY <1>2, <1>3, ThinnedBook DEF BookInv
<1>5. levels[p][s] \in Ladder /\ WellKept(levels[p][s])
  BY DEF BookInv, LevelsWellKept
<1>6. o.quantity \in Int /\ o.price \in Nat
  BY <1>1, OrderFields
<1> DEFINE ladder == CancelOrderPrints(levels[p][s], o)
<1>7. ladder \in Ladder /\ WellKept(ladder)
  BY <1>5, <1>6, LaddersWellKept
<1>8. levels' = [levels EXCEPT ![p][s] = ladder]
  BY DEF Unlist
<1> HIDE DEF ladder
<1>9. levels' \in [Products -> [Sides -> Ladder]] /\ LevelsWellKept'
  BY <1>7, <1>8, LevelsReplaced DEF BookInv
<1> QED
  BY <1>4, <1>9

LEMMA ReduceKeeps ==
  ASSUME NEW n, BookInv(n), NEW p \in Products, NEW s \in Sides, NEW i \in DOMAIN book[p][s],
         NEW units \in Nat, units < book[p][s][i].quantity, Reduce(p, s, i, units)
  PROVE  /\ book' \in Lists /\ FiledIn(book', n) /\ UniqueIn(book') /\ UncrossedIn(book')
         /\ levels' \in [Products -> [Sides -> Ladder]] /\ LevelsWellKept'
         /\ \A o : AbsentIn(book, o) => AbsentIn(book', o)
<1> DEFINE o == book[p][s][i]
           rest == [o EXCEPT !.quantity = @ - units]
<1>1. o \in Order /\ book[p][s] \in Seq(Order)
  BY BookOrders DEF BookInv
<1>2. o.quantity - units \in 1 .. MaxQuantity
  BY <1>1, OrderFields, OrderBookAssumption, IntMaxAssumption
<1>3. rest \in Order /\ SameTerms(rest, o)
  BY <1>1, <1>2 DEF Order, SameTerms
<1>4. /\ book' = [book EXCEPT ![p][s] = [book[p][s] EXCEPT ![i] = rest]]
      /\ levels' = [levels EXCEPT ![p][s] = AddOrderPrints(CancelOrderPrints(levels[p][s], o), rest)]
  BY DEF Reduce, BookInv, Lists
<1> HIDE DEF rest
<1>5. Thinned([book[p][s] EXCEPT ![i] = rest], book[p][s], {})
  BY <1>1, <1>3, ReduceThins
<1>6. /\ book' \in Lists /\ FiledIn(book', n) /\ UniqueIn(book') /\ UncrossedIn(book')
      /\ \A a : AbsentIn(book, a) => AbsentIn(book', a)
  BY <1>4, <1>5, ThinnedBook DEF BookInv
<1>7. levels[p][s] \in Ladder /\ WellKept(levels[p][s])
  BY DEF BookInv, LevelsWellKept
<1>8. o.quantity \in Int /\ o.price \in Nat /\ rest.quantity \in Int /\ rest.price \in Nat
  BY <1>1, <1>3, OrderFields
<1> DEFINE shorter == CancelOrderPrints(levels[p][s], o)
           ladder == AddOrderPrints(shorter, rest)
<1>9. shorter \in Ladder /\ WellKept(shorter)
  BY <1>7, <1>8, LaddersWellKept
<1> HIDE DEF shorter
<1>10. ladder \in Ladder /\ WellKept(ladder)
  BY <1>8, <1>9, LaddersWellKept
<1>11. levels' = [levels EXCEPT ![p][s] = ladder]
  BY <1>4 DEF shorter
<1> HIDE DEF ladder
<1>12. levels' \in [Products -> [Sides -> Ladder]] /\ LevelsWellKept'
  BY <1>10, <1>11, LevelsReplaced DEF BookInv
<1> QED
  BY <1>6, <1>12

\* Whatever a trader sends is answered with messages.
LEMMA AnnounceType ==
  ASSUME NEW t, NEW answer \in Message, NEW news \in Message, Announce(t, answer, news)
  PROVE  out' \in [Traders -> Seq(Message)]
<1>1. <<answer>> \in Seq(Message) /\ <<news>> \in Seq(Message) /\ <<>> \in Seq(Message)
  OBVIOUS
<1> QED
  BY <1>1 DEF Announce

LEMMA WriteFillType ==
  ASSUME NEW buy \in Order, NEW sell \in Order, NEW n \in Nat, WriteFill(buy, sell, n)
  PROVE  out' \in [Traders -> Seq(Message)]
<1>1. Fill(buy.id, n) \in Message /\ Fill(sell.id, n) \in Message
  BY OrderFields DEF Fill, Message
<1> DEFINE first(u) == IF u = buy.trader /\ alive[u] THEN <<Fill(buy.id, n)>> ELSE <<>>
           second(u) == IF u = sell.trader /\ alive[u] THEN <<Fill(sell.id, n)>> ELSE <<>>
<1>2. ASSUME NEW u PROVE first(u) \in Seq(Message) /\ second(u) \in Seq(Message)
  <2>1. /\ <<Fill(buy.id, n)>> \in Seq(Message)
        /\ <<Fill(sell.id, n)>> \in Seq(Message)
        /\ <<>> \in Seq(Message)
    BY <1>1
  <2> QED
    BY <2>1
<1>3. out' = [u \in Traders |-> first(u) \o second(u)]
  BY DEF WriteFill
<1> HIDE DEF first, second
<1>4. ASSUME NEW u PROVE first(u) \o second(u) \in Seq(Message)
  BY <1>2, ConcatProperties
<1> QED
  BY <1>3, <1>4
-----------------------------------------------------------------------------
(* The invariant holds at first and through every action *)

\* The rest of the invariant: the shape of the other variables, and that the
\* order being matched is one the book does not hold.
Shapes ==
  /\ nextId \in [Traders -> Nat]
  /\ alive \in [Traders -> BOOLEAN]
  /\ pos \in [Traders -> [Products -> [quantity : Int, balance : Int]]]
  /\ fees \in Int
  /\ taker \in Order \cup {NoOrder}
  /\ out \in [Traders -> Seq(Message)]

TakerApart == ~ Idle => taker.id < nextId[taker.trader] /\ AbsentIn(book, taker)

LEMMA InvariantInParts ==
  /\ IInv <=> BookInv(nextId) /\ Shapes /\ TakerApart
  /\ IInv' <=> BookInv(nextId)' /\ Shapes' /\ TakerApart'
<1>1. TypeOK <=> Shapes /\ book \in Lists /\ levels \in [Products -> [Sides -> Ladder]]
  BY DEF TypeOK, Shapes, Lists
<1>2. Filed <=> FiledIn(book, nextId) /\ (~ Idle => taker.id < nextId[taker.trader])
  BY DEF Filed, FiledIn
<1>3. OrderIdsUnique <=> UniqueIn(book) /\ (~ Idle => AbsentIn(book, taker))
  BY DEF OrderIdsUnique, UniqueIn, AbsentIn
<1>4. Uncrossed <=> UncrossedIn(book)
  BY DEF Uncrossed, UncrossedIn
<1>5. IInv <=> BookInv(nextId) /\ Shapes /\ TakerApart
  BY <1>1, <1>2, <1>3, <1>4 DEF IInv, BookInv, TakerApart
<1>6. TypeOK' <=> Shapes' /\ book' \in Lists /\ levels' \in [Products -> [Sides -> Ladder]]
  BY DEF TypeOK, Shapes, Lists
<1>7. Filed' <=> FiledIn(book', nextId') /\ (~ Idle' => taker'.id < nextId'[taker'.trader])
  BY DEF Filed, FiledIn
<1>8. OrderIdsUnique' <=> UniqueIn(book') /\ (~ Idle' => AbsentIn(book', taker'))
  BY DEF OrderIdsUnique, UniqueIn, AbsentIn
<1>9. Uncrossed' <=> UncrossedIn(book')
  BY DEF Uncrossed, UncrossedIn
<1>10. IInv' <=> BookInv(nextId)' /\ Shapes' /\ TakerApart'
  BY <1>6, <1>7, <1>8, <1>9 DEF IInv, BookInv, TakerApart
<1> QED
  BY <1>5, <1>10

LEMMA InitInvariant == Init => IInv
<1> SUFFICES ASSUME Init PROVE IInv
  OBVIOUS
<1>1. <<>> \in Seq(Order) /\ <<>> \in Seq(Message) /\ <<>> \in Seq(Level) /\ DOMAIN <<>> = {}
  OBVIOUS
<1>2. \A p \in Products, s \in Sides : book[p][s] = <<>> /\ levels[p][s] = EmptyLadder
  BY DEF Init
<1>3. EmptyLadder \in Ladder /\ WellKept(EmptyLadder)
  BY <1>1, EmptySeq DEF EmptyLadder, Ladder, WellKept
<1>4. book \in Lists /\ levels \in [Products -> [Sides -> Ladder]]
  BY <1>1, <1>3 DEF Init, Lists
<1>5. FiledIn(book, nextId) /\ UniqueIn(book) /\ UncrossedIn(book)
  BY <1>1, <1>2 DEF FiledIn, UniqueIn, UncrossedIn, Sides
<1>6. LevelsWellKept
  BY <1>2, <1>3 DEF LevelsWellKept
<1>7. Shapes
  BY <1>1 DEF Init, Shapes
<1>8. TakerApart
  BY DEF Init, TakerApart, Idle
<1> QED
  BY <1>4, <1>5, <1>6, <1>7, <1>8, InvariantInParts DEF BookInv

LEMMA BuySellMsgKeeps ==
  ASSUME IInv, Idle, NEW t \in Traders, NEW m \in Commands, BuySellMsg(t, m)
  PROVE  IInv'
<1> DEFINE o == [trader |-> t, id |-> m.id, product |-> m.product, side |-> OrderSide(m),
                 quantity |-> m.quantity, price |-> m.price]
<1>1. BookInv(nextId) /\ Shapes
  BY InvariantInParts
<1>2. /\ m.type \in {"BUY", "SELL"} /\ m.product \in Products /\ m.id = nextId[t]
      /\ m.quantity \in 1 .. MaxQuantity /\ m.price \in 1 .. MaxPrice
  BY DEF BuySellMsg, ValidNew, ValidTerms
<1>3. nextId[t] \in Nat /\ OrderSide(m) \in Sides
  BY <1>1 DEF Shapes, OrderSide, Sides
<1>4. o \in Order
  BY <1>2, <1>3 DEF Order
<1>5. taker' = o /\ UNCHANGED <<book, levels, pos, fees, alive>>
  BY DEF BuySellMsg, books, accounts
<1>6. nextId' \in [Traders -> Nat] /\ nextId'[t] = m.id + 1 /\ \A u \in Traders : nextId[u] <= nextId'[u]
  BY <1>1, <1>2, <1>3 DEF BuySellMsg, Shapes
<1>7. FiledIn(book, nextId')
  <2> SUFFICES ASSUME NEW p \in Products, NEW s \in Sides, NEW i \in DOMAIN book[p][s]
               PROVE  /\ book[p][s][i].product = p /\ book[p][s][i].side = s
                      /\ book[p][s][i].id < nextId'[book[p][s][i].trader]
    BY DEF FiledIn
  <2>1. book[p][s][i] \in Order
    BY <1>1, BookOrders DEF BookInv
  <2>2. book[p][s][i].id \in Nat /\ book[p][s][i].trader \in Traders
    BY <2>1, OrderFields
  <2>3. /\ book[p][s][i].product = p /\ book[p][s][i].side = s
        /\ book[p][s][i].id < nextId[book[p][s][i].trader]
    BY <1>1 DEF BookInv, FiledIn
  <2>4. nextId[book[p][s][i].trader] \in Nat /\ nextId'[book[p][s][i].trader] \in Nat
    BY <1>1, <1>6, <2>2 DEF Shapes
  <2> QED
    BY <1>6, <2>2, <2>3, <2>4
<1>8. AbsentIn(book, o)
  <2> SUFFICES ASSUME NEW p \in Products, NEW s \in Sides, NEW i \in DOMAIN book[p][s],
                      SameOrder(book[p][s][i], o)
               PROVE  FALSE
    BY DEF AbsentIn
  <2>1. book[p][s][i].id < nextId[book[p][s][i].trader]
    BY <1>1 DEF BookInv, FiledIn
  <2>2. book[p][s][i].trader = t /\ book[p][s][i].id = nextId[t]
    BY <1>2 DEF SameOrder
  <2> QED
    BY <1>3, <2>1, <2>2
<1>9. out' \in [Traders -> Seq(Message)]
  <2>1. Ack("ACCEPTED", m.id) \in Message
    BY <1>2, <1>3 DEF Ack, Message
  <2>2. m.quantity \in Nat /\ m.price \in Nat
    BY <1>2, OrderBookAssumption, IntMaxAssumption
  <2>3. Market(OrderSide(m), m.product, m.quantity, m.price) \in Message
    BY <1>2, <1>3, <2>2 DEF Market, Message
  <2> QED
    BY <2>1, <2>3, AnnounceType DEF BuySellMsg
<1> HIDE DEF o
<1>10. BookInv(nextId)'
  BY <1>1, <1>5, <1>7 DEF BookInv, LevelsWellKept, UniqueIn, UncrossedIn
<1>11. Shapes'
  BY <1>1, <1>4, <1>5, <1>6, <1>9 DEF Shapes
<1>12. TakerApart'
  <2>1. o.trader = t /\ o.id = m.id
    BY DEF o
  <2>2. m.id < nextId'[t]
    BY <1>2, <1>3, <1>6
  <2> QED
    BY <1>5, <1>8, <2>1, <2>2 DEF TakerApart, AbsentIn
<1> QED
  BY <1>10, <1>11, <1>12, InvariantInParts

\* find_order finds an order of the book.
LEMMA FindOrderFinds ==
  ASSUME BookInv(nextId), NEW t, NEW id, NEW at \in FindOrder(t, id)
  PROVE  /\ at[1] \in Products /\ at[2] \in Sides /\ at[3] \in DOMAIN book[at[1]][at[2]]
         /\ book[at[1]][at[2]][at[3]] \in Order
         /\ book[at[1]][at[2]][at[3]].id = id
         /\ book[at[1]][at[2]][at[3]].id < nextId[book[at[1]][at[2]][at[3]].trader]
<1>1. PICK p \in Products, s \in Sides : at \in {p} \X {s} \X DOMAIN book[p][s]
  BY DEF FindOrder
<1>2. at[1] = p /\ at[2] = s /\ at[3] \in DOMAIN book[p][s]
  BY <1>1
<1>3. book[at[1]][at[2]][at[3]].id = id
  BY DEF FindOrder
<1>4. book[p][s][at[3]] \in Order
  BY <1>2, BookOrders DEF BookInv
<1> QED
  BY <1>2, <1>3, <1>4 DEF BookInv, FiledIn

\* An AMEND takes an order of the sender out of the book and makes it the taker,
\* with its own ID; a CANCEL only takes it out.
LEMMA AmendMsgKeeps ==
  ASSUME IInv, Idle, NEW t \in Traders, NEW m \in Commands, AmendMsg(t, m)
  PROVE  IInv'
<1>1. BookInv(nextId) /\ Shapes
  BY InvariantInParts
<1>2. PICK at \in FindOrder(t, m.id) :
        /\ taker' = [book[at[1]][at[2]][at[3]] EXCEPT !.quantity = m.quantity, !.price = m.price]
        /\ Announce(t, Ack("AMENDED", book[at[1]][at[2]][at[3]].id),
                       Market(book[at[1]][at[2]][at[3]].side, book[at[1]][at[2]][at[3]].product,
                              m.quantity, m.price))
        /\ Unlist(at[1], at[2], at[3])
  BY DEF AmendMsg
<1> DEFINE o == book[at[1]][at[2]][at[3]]
<1>3. /\ at[1] \in Products /\ at[2] \in Sides /\ at[3] \in DOMAIN book[at[1]][at[2]]
      /\ o \in Order /\ o.id < nextId[o.trader]
  BY <1>1, FindOrderFinds
<1>4. /\ m.quantity \in 1 .. MaxQuantity /\ m.price \in 1 .. MaxPrice
      /\ UNCHANGED <<pos, fees, nextId, alive>>
  BY DEF AmendMsg, ValidAmend, ValidTerms, accounts
<1>5. /\ book' \in Lists /\ FiledIn(book', nextId) /\ UniqueIn(book') /\ UncrossedIn(book')
      /\ levels' \in [Products -> [Sides -> Ladder]] /\ LevelsWellKept'
      /\ AbsentIn(book', o)
  BY <1>1, <1>2, <1>3, UnlistKeeps
<1>6. taker' \in Order /\ taker'.trader = o.trader /\ taker'.id = o.id
  BY <1>2, <1>3, <1>4 DEF Order
<1>7. out' \in [Traders -> Seq(Message)]
  <2>1. m.quantity \in Nat /\ m.price \in Nat
    BY <1>4, OrderBookAssumption, IntMaxAssumption
  <2>2. o.id \in Nat /\ o.side \in Sides /\ o.product \in Products
    BY <1>3, OrderFields
  <2>3. Ack("AMENDED", o.id) \in Message /\ Market(o.side, o.product, m.quantity, m.price) \in Message
    BY <2>1, <2>2 DEF Ack, Market, Message
  <2> QED
    BY <1>2, <2>3, AnnounceType
<1> HIDE DEF o
<1>8. BookInv(nextId)'
  BY <1>4, <1>5 DEF BookInv
<1>9. Shapes'
  BY <1>1, <1>4, <1>6, <1>7 DEF Shapes
<1>10. TakerApart'
  BY <1>3, <1>4, <1>5, <1>6 DEF TakerApart, AbsentIn, SameOrder
<1> QED
  BY <1>8, <1>9, <1>10, InvariantInParts

LEMMA CancelMsgKeeps ==
  ASSUME IInv, Idle, NEW t \in Traders, NEW m \in Commands, CancelMsg(t, m)
  PROVE  IInv'
<1>1. BookInv(nextId) /\ Shapes
  BY InvariantInParts
<1>2. PICK at \in FindOrder(t, m.id) :
        /\ Announce(t, Ack("CANCELLED", m.id),
                       Market(book[at[1]][at[2]][at[3]].side, book[at[1]][at[2]][at[3]].product, 0, 0))
        /\ Unlist(at[1], at[2], at[3])
  BY DEF CancelMsg
<1> DEFINE o == book[at[1]][at[2]][at[3]]
<1>3. /\ at[1] \in Products /\ at[2] \in Sides /\ at[3] \in DOMAIN book[at[1]][at[2]]
      /\ o \in Order /\ o.id = m.id
  BY <1>1, FindOrderFinds
<1>4. UNCHANGED <<pos, fees, nextId, alive, taker>>
  BY DEF CancelMsg, accounts
<1>5. /\ book' \in Lists /\ FiledIn(book', nextId) /\ UniqueIn(book') /\ UncrossedIn(book')
      /\ levels' \in [Products -> [Sides -> Ladder]] /\ LevelsWellKept'
  BY <1>1, <1>2, <1>3, UnlistKeeps
<1>6. out' \in [Traders -> Seq(Message)]
  <2>1. m.id \in Nat /\ o.side \in Sides /\ o.product \in Products
    BY <1>3, OrderFields
  <2>2. Ack("CANCELLED", m.id) \in Message /\ Market(o.side, o.product, 0, 0) \in Message
    BY <2>1 DEF Ack, Market, Message
  <2> QED
    BY <1>2, <2>2, AnnounceType
<1>7. BookInv(nextId)'
  BY <1>4, <1>5 DEF BookInv
<1>8. Shapes'
  BY <1>1, <1>4, <1>6 DEF Shapes
<1>9. TakerApart'
  BY <1>4 DEF TakerApart, Idle
<1> QED
  BY <1>7, <1>8, <1>9, InvariantInParts

\* Steps that leave the lists, the IDs and the accounts alone.
LEMMA QuietStepKeeps ==
  ASSUME IInv, UNCHANGED <<book, levels, nextId, pos, fees, taker>>,
         alive' \in [Traders -> BOOLEAN], out' \in [Traders -> Seq(Message)]
  PROVE  IInv'
<1>1. BookInv(nextId) /\ Shapes /\ TakerApart
  BY InvariantInParts
<1>2. BookInv(nextId)'
  BY <1>1 DEF BookInv, LevelsWellKept, FiledIn, UniqueIn, UncrossedIn
<1>3. Shapes' /\ TakerApart'
  BY <1>1 DEF Shapes, TakerApart, Idle, AbsentIn
<1> QED
  BY <1>2, <1>3, InvariantInParts

\* A pass of the matching loop.
LEMMA MatchKeeps ==
  ASSUME IInv, Match
  PROVE  IInv'
<1>1. BookInv(nextId) /\ Shapes /\ TakerApart
  BY InvariantInParts
<1> DEFINE p == taker.product
           s == Opposite(taker.side)
<1>2. taker \in Order /\ taker.id < nextId[taker.trader] /\ AbsentIn(book, taker)
  BY <1>1 DEF Match, Idle, Shapes, TakerApart
<1>3. PICK i \in FindBest(taker) :
        LET resting == book[p][s][i]
            n == Fewer(taker.quantity, resting.quantity)
        IN  /\ IF taker.side = "buy" THEN WriteFill(taker, resting, n)
                                     ELSE WriteFill(resting, taker, n)
            /\ Settle(taker, resting, n)
            /\ IF resting.quantity = n THEN Unlist(p, s, i) ELSE Reduce(p, s, i, n)
            /\ taker' = IF taker.quantity = n THEN NoOrder
                                              ELSE [taker EXCEPT !.quantity = @ - n]
  BY DEF Match
<1> DEFINE resting == book[p][s][i]
           n == Fewer(taker.quantity, resting.quantity)
<1>4. i \in DOMAIN book[p][s]
  BY DEF FindBest
<1>5. p \in Products /\ s \in Sides
  BY <1>2, OrderFields
<1>6. resting \in Order
  BY <1>1, <1>4, <1>5, BookOrders DEF BookInv
<1>7. UNCHANGED <<nextId, alive>>
  BY DEF Match
<1>8. /\ n \in Nat /\ n >= 1 /\ n <= taker.quantity /\ n <= resting.quantity
      /\ taker.quantity \in Nat /\ resting.quantity \in Nat /\ taker.quantity <= MaxQuantity
  BY <1>2, <1>6, OrderFields DEF Fewer
<1>9. /\ IF taker.side = "buy" THEN WriteFill(taker, resting, n) ELSE WriteFill(resting, taker, n)
      /\ Settle(taker, resting, n)
      /\ IF resting.quantity = n THEN Unlist(p, s, i) ELSE Reduce(p, s, i, n)
      /\ taker' = IF taker.quantity = n THEN NoOrder ELSE [taker EXCEPT !.quantity = @ - n]
  BY <1>3
<1> HIDE DEF n
<1>10. /\ book' \in Lists /\ FiledIn(book', nextId) /\ UniqueIn(book') /\ UncrossedIn(book')
       /\ levels' \in [Products -> [Sides -> Ladder]] /\ LevelsWellKept'
       /\ AbsentIn(book', taker)
  <2>1. CASE resting.quantity = n
    BY <2>1, <1>1, <1>2, <1>4, <1>5, <1>9, UnlistKeeps
  <2>2. CASE resting.quantity # n
    <3>1. n < resting.quantity /\ Reduce(p, s, i, n)
      BY <2>2, <1>8, <1>9
    <3> QED
      BY <3>1, <1>1, <1>2, <1>4, <1>5, <1>8, ReduceKeeps
  <2> QED
    BY <2>1, <2>2
<1>11. pos' \in [Traders -> [Products -> [quantity : Int, balance : Int]]] /\ fees' \in Int
  BY <1>1, <1>2, <1>6, <1>8, <1>9, SettleType DEF Shapes
<1>12. out' \in [Traders -> Seq(Message)]
  BY <1>2, <1>6, <1>8, <1>9, WriteFillType
<1> HIDE DEF p, s, resting
<1>13. \/ taker' = NoOrder
       \/ taker' \in Order /\ taker'.trader = taker.trader /\ taker'.id = taker.id
  <2>1. CASE taker.quantity = n
    BY <2>1, <1>9
  <2>2. CASE taker.quantity # n
    <3>1. taker.quantity - n \in 1 .. MaxQuantity
      BY <2>2, <1>8, OrderBookAssumption, IntMaxAssumption
    <3>2. taker' = [taker EXCEPT !.quantity = @ - n]
      BY <2>2, <1>9
    <3> QED
      BY <3>1, <3>2, <1>2 DEF Order
  <2> QED
    BY <2>1, <2>2
<1>14. BookInv(nextId)'
  BY <1>7, <1>10 DEF BookInv
<1>15. Shapes'
  BY <1>1, <1>7, <1>11, <1>12, <1>13 DEF Shapes
<1>16. TakerApart'
  BY <1>2, <1>7, <1>10, <1>13 DEF TakerApart, Idle, AbsentIn, SameOrder
<1> QED
  BY <1>14, <1>15, <1>16, InvariantInParts

\* The end of the matching loop: what is left of the order joins the book, and
\* there is nothing for it to trade with, because FindBest would have found it.
LEMMA RestKeeps ==
  ASSUME IInv, Rest
  PROVE  IInv'
<1>1. BookInv(nextId) /\ Shapes /\ TakerApart
  BY InvariantInParts
<1>2. taker \in Order /\ taker.id < nextId[taker.trader] /\ AbsentIn(book, taker)
  BY <1>1 DEF Rest, Idle, Shapes, TakerApart
<1> DEFINE p == taker.product
           s == taker.side
<1>3. /\ levels' = [levels EXCEPT ![p][s] = AddOrderPrints(@, taker)]
      /\ book' = [book EXCEPT ![p][s] = Append(@, taker)]
      /\ taker' = NoOrder
      /\ out' = [t \in Traders |-> <<>>]
      /\ UNCHANGED <<pos, fees, nextId, alive>>
  BY DEF Rest, accounts
<1>4. p \in Products /\ s \in Sides /\ taker.quantity \in Int /\ taker.price \in Nat
  BY <1>2, OrderFields
<1>5. \A i \in DOMAIN book[p][Opposite(s)] : ~ Crosses(taker, book[p][Opposite(s)][i])
  BY <1>1, <1>2, FindBestFinds DEF Rest, BookInv
<1>6. book' \in Lists /\ FiledIn(book', nextId) /\ UniqueIn(book') /\ UncrossedIn(book')
  BY <1>1, <1>2, <1>3, <1>5, AppendedBook DEF BookInv
<1>7. levels' \in [Products -> [Sides -> Ladder]] /\ LevelsWellKept'
  <2> DEFINE ladder == AddOrderPrints(levels[p][s], taker)
  <2>1. levels[p][s] \in Ladder /\ WellKept(levels[p][s])
    BY <1>1, <1>4 DEF BookInv, LevelsWellKept
  <2>2. ladder \in Ladder /\ WellKept(ladder)
    BY <2>1, <1>4, LaddersWellKept
  <2>3. levels' = [levels EXCEPT ![p][s] = ladder]
    BY <1>3
  <2> HIDE DEF ladder
  <2> QED
    BY <2>2, <2>3, <1>1, <1>4, LevelsReplaced DEF BookInv
<1> HIDE DEF p, s
<1>8. BookInv(nextId)'
  BY <1>3, <1>6, <1>7 DEF BookInv
<1>9. Shapes'
  <2>1. <<>> \in Seq(Message)
    OBVIOUS
  <2> QED
    BY <2>1, <1>1, <1>3 DEF Shapes
<1>10. TakerApart'
  BY <1>3 DEF TakerApart, Idle
<1> QED
  BY <1>8, <1>9, <1>10, InvariantInParts

LEMMA NextKeeps == IInv /\ [Next]_vars => IInv'
<1> SUFFICES ASSUME IInv, [Next]_vars PROVE IInv'
  OBVIOUS
<1>1. Shapes
  BY InvariantInParts
<1>2. <<>> \in Seq(Message) /\ <<Invalid>> \in Seq(Message)
  BY DEF Invalid, Message
<1>3. ASSUME NEW t \in Traders, NEW m \in Commands, ParseMsg(t, m) PROVE IInv'
  <2>1. CASE BuySellMsg(t, m)
    BY <1>3, <2>1, BuySellMsgKeeps DEF ParseMsg
  <2>2. CASE AmendMsg(t, m)
    BY <1>3, <2>2, AmendMsgKeeps DEF ParseMsg
  <2>3. CASE CancelMsg(t, m)
    BY <1>3, <2>3, CancelMsgKeeps DEF ParseMsg
  <2>4. CASE InvalidMsg(t, m)
    <3>1. out' \in [Traders -> Seq(Message)]
      BY <1>2, <2>4 DEF InvalidMsg
    <3>2. UNCHANGED <<book, levels, nextId, alive, pos, fees, taker>>
      BY <2>4 DEF InvalidMsg, books, accounts
    <3> QED
      BY <1>1, <3>1, <3>2, QuietStepKeeps DEF Shapes
  <2> QED
    BY <1>3, <2>1, <2>2, <2>3, <2>4 DEF ParseMsg
<1>4. ASSUME NEW t \in Traders, TraderDied(t) PROVE IInv'
  <2>1. /\ alive' \in [Traders -> BOOLEAN]
        /\ out' \in [Traders -> Seq(Message)]
        /\ UNCHANGED <<book, levels, nextId, pos, fees, taker>>
    BY <1>1, <1>2, <1>4 DEF TraderDied, Shapes, books, accounts
  <2> QED
    BY <2>1, QuietStepKeeps
<1>5. CASE UNCHANGED vars
  BY <1>1, <1>5, QuietStepKeeps DEF vars, Shapes
<1> QED
  BY <1>3, <1>4, <1>5, MatchKeeps, RestKeeps DEF Next, Completed
-----------------------------------------------------------------------------
\* Whatever the traders send and whenever they die, the inductive invariant
\* holds: the shape of the state, orders filed in the lists of their product
\* and side with an ID already used, unique IDs, a book that is never crossed,
\* and ladders whose prices strictly decrease and whose cached length is right.
THEOREM Invariance == Spec => []IInv
BY InitInvariant, NextKeeps, PTL DEF Spec

\* pe_orderbook.c and pe_pipes.c keep the exchange's state in its shape.
THEOREM TypeCorrect == Spec => []TypeOK
<1>1. IInv => TypeOK
  BY DEF IInv
<1> QED
  BY <1>1, Invariance, PTL

\* find_order, which stops at the first hit, can find only one order: a trader
\* never has two live orders of the same ID (create_order accepts only the next
\* ID, and an amended order leaves the book before it is matched again).
THEOREM IdsUnique == Spec => []OrderIdsUnique
<1>1. IInv => OrderIdsUnique
  BY DEF IInv
<1> QED
  BY <1>1, Invariance, PTL

\* check_for_match never leaves in the book a buy and a sell that could trade,
\* not even between two passes of its loop.
THEOREM NeverCrossed == Spec => []Uncrossed
<1>1. IInv => Uncrossed
  BY DEF IInv
<1> QED
  BY <1>1, Invariance, PTL

LEMMA AnnouncedToTheLiving ==
  ASSUME NEW t \in Traders, alive[t], NEW answer, NEW news, Announce(t, answer, news),
         NEW u \in Traders, out'[u] # <<>>
  PROVE  alive[u]
BY DEF Announce

LEMMA FilledAreLiving ==
  ASSUME NEW buy, NEW sell, NEW n, WriteFill(buy, sell, n),
         NEW u \in Traders, out'[u] # <<>>
  PROVE  alive[u]
<1> SUFFICES ASSUME ~ alive[u] PROVE out'[u] = <<>>
  OBVIOUS
<1>1. out'[u] = <<>> \o <<>>
  BY DEF WriteFill
<1>2. <<>> \in Seq({}) /\ Len(<<>>) = 0
  BY EmptySeq
<1>3. <<>> \o <<>> = <<>>
  BY <1>2, ConcatEmptySeq
<1> QED
  BY <1>1, <1>3

\* write_accepted, write_amended, write_cancelled, write_invalid and write_fill:
\* whatever the history, the exchange writes only to traders not known to be gone.
THEOREM WritesToTheLiving == Spec => MessagesToTheLiving
<1>1. [Next]_vars => [\A t \in Traders : out'[t] # <<>> => alive[t]]_vars
  <2> SUFFICES ASSUME Next, NEW u \in Traders, out'[u] # <<>>
               PROVE  alive[u] \/ UNCHANGED vars
    OBVIOUS
  <2>1. ASSUME NEW t \in Traders, NEW m \in Commands, ParseMsg(t, m) PROVE alive[u]
    <3>1. alive[t]
      BY <2>1 DEF ParseMsg
    <3>2. CASE BuySellMsg(t, m)
      BY <3>1, <3>2, AnnouncedToTheLiving DEF BuySellMsg
    <3>3. CASE AmendMsg(t, m)
      BY <3>1, <3>3, AnnouncedToTheLiving DEF AmendMsg
    <3>4. CASE CancelMsg(t, m)
      BY <3>1, <3>4, AnnouncedToTheLiving DEF CancelMsg
    <3>5. CASE InvalidMsg(t, m)
      BY <3>1, <3>5 DEF InvalidMsg
    <3> QED
      BY <2>1, <3>2, <3>3, <3>4, <3>5 DEF ParseMsg
  <2>2. CASE Match
    BY <2>2, FilledAreLiving DEF Match
  <2>3. CASE Rest
    BY <2>3 DEF Rest
  <2>4. ASSUME NEW t \in Traders, TraderDied(t) PROVE alive[u]
    BY <2>4 DEF TraderDied
  <2>5. CASE Completed
    BY <2>5 DEF Completed
  <2> QED
    BY <2>1, <2>2, <2>3, <2>4, <2>5 DEF Next
<1> QED
  BY <1>1, PTL DEF Spec, MessagesToTheLiving
-----------------------------------------------------------------------------
(* The places of the orders in their lists *)

\* What TimePriorityKept says of a list and what becomes of it in a step.
KeepsPlaces(old, new) ==
  \A k \in DOMAIN new :
    \/ \E i \in DOMAIN old :
         /\ SameOrder(old[i], new[k])
         /\ old[i].price = new[k].price
         /\ old[i].quantity >= new[k].quantity
         /\ \A j \in i + 1 .. Len(old), l \in 1 .. k : ~ SameOrder(old[j], new[l])
    \/ k = Len(new) /\ \A i \in DOMAIN old : ~ SameOrder(old[i], new[k])

\* No list holds an order twice.
UniqueList(list) == \A i, j \in DOMAIN list : SameOrder(list[i], list[j]) => i = j

\* A list whose orders come from an old one, in the same relative order, keeps
\* their places.
LEMMA SiftingKeepsPlaces ==
  ASSUME NEW old \in Seq(Order), UniqueList(old), NEW new \in Seq(Order),
         NEW f \in [DOMAIN new -> DOMAIN old],
         \A k \in DOMAIN new : /\ SameTerms(new[k], old[f[k]])
                               /\ old[f[k]].quantity >= new[k].quantity,
         \A k, l \in DOMAIN new : l <= k => f[l] <= f[k]
  PROVE  KeepsPlaces(old, new)
<1>1. /\ DOMAIN old = 1 .. Len(old) /\ DOMAIN new = 1 .. Len(new)
      /\ Len(old) \in Nat /\ Len(new) \in Nat
  BY LenProperties
<1>2. ASSUME NEW k \in DOMAIN new
      PROVE  /\ SameOrder(old[f[k]], new[k]) /\ old[f[k]].price = new[k].price
             /\ old[f[k]].quantity >= new[k].quantity
             /\ \A j \in f[k] + 1 .. Len(old), l \in 1 .. k : ~ SameOrder(old[j], new[l])
  <2>1. SameOrder(old[f[k]], new[k]) /\ old[f[k]].price = new[k].price
    BY DEF SameTerms, SameOrder
  <2>2. ASSUME NEW j \in f[k] + 1 .. Len(old), NEW l \in 1 .. k, SameOrder(old[j], new[l])
        PROVE  FALSE
    <3>1. f[k] \in 1 .. Len(old) /\ k \in 1 .. Len(new)
      BY <1>1
    <3>2. j \in DOMAIN old /\ l \in DOMAIN new /\ l <= k
      BY <1>1, <3>1
    <3>3. f[l] <= f[k] /\ f[l] \in 1 .. Len(old)
      BY <1>1, <3>2
    <3>4. SameOrder(old[j], old[f[l]])
      BY <2>2, <3>2 DEF SameTerms, SameOrder
    <3>5. j = f[l]
      BY <1>1, <3>2, <3>3, <3>4 DEF UniqueList
    <3> QED
      BY <3>1, <3>3, <3>5
  <2> QED
    BY <2>1, <2>2
<1> QED
  BY <1>2 DEF KeepsPlaces

LEMMA RemovingKeepsPlaces ==
  ASSUME NEW list \in Seq(Order), UniqueList(list), NEW i \in DOMAIN list
  PROVE  KeepsPlaces(list, RemoveAt(list, i))
<1> DEFINE new == RemoveAt(list, i)
           f == [j \in 1 .. Len(list) - 1 |-> IF j < i THEN j ELSE j + 1]
<1>1. /\ Len(list) \in Nat /\ i \in 1 .. Len(list) /\ DOMAIN list = 1 .. Len(list)
      /\ \A j \in DOMAIN list : list[j].quantity \in Nat
  BY LenProperties, ElementOfSeq, OrderFields
<1>2. /\ new \in Seq(Order) /\ Len(new) = Len(list) - 1
      /\ \A j \in 1 .. Len(list) - 1 : new[j] = IF j < i THEN list[j] ELSE list[j + 1]
  BY <1>1, RemoveAtFacts
<1>3. DOMAIN new = 1 .. Len(list) - 1
  BY <1>2, LenProperties
<1> HIDE DEF new
<1>4. \A j \in 1 .. Len(list) - 1 : f[j] \in 1 .. Len(list)
  BY <1>1
<1>5. \A k, l \in 1 .. Len(list) - 1 : l <= k => f[l] <= f[k]
  BY <1>1
<1>6. \A j \in 1 .. Len(list) - 1 : new[j] = list[f[j]]
  BY <1>2
<1>7. f \in [DOMAIN new -> DOMAIN list]
  BY <1>1, <1>3, <1>4
<1> HIDE DEF f
<1>8. \A k \in DOMAIN new : SameTerms(new[k], list[f[k]]) /\ list[f[k]].quantity >= new[k].quantity
  BY <1>1, <1>3, <1>4, <1>6 DEF SameTerms
<1>9. KeepsPlaces(list, new)
  BY <1>2, <1>3, <1>5, <1>7, <1>8, SiftingKeepsPlaces
<1> QED
  BY <1>9 DEF new

LEMMA ReducingKeepsPlaces ==
  ASSUME NEW list \in Seq(Order), UniqueList(list), NEW i \in DOMAIN list,
         NEW o \in Order, SameTerms(o, list[i]), o.quantity <= list[i].quantity
  PROVE  KeepsPlaces(list, [list EXCEPT ![i] = o])
<1> DEFINE new == [list EXCEPT ![i] = o]
           f == [j \in DOMAIN list |-> j]
<1>1. /\ new \in Seq(Order) /\ DOMAIN new = DOMAIN list
      /\ \A j \in DOMAIN list : list[j].quantity \in Nat
      /\ \A j \in DOMAIN list : new[j] = IF j = i THEN o ELSE list[j]
  BY ElementOfSeq, OrderFields
<1>2. f \in [DOMAIN new -> DOMAIN list] /\ \A j \in DOMAIN list : f[j] = j
  BY <1>1
<1> HIDE DEF f
<1>3. o.quantity \in Nat
  BY OrderFields
<1>4. \A k \in DOMAIN new : SameTerms(new[k], list[f[k]]) /\ list[f[k]].quantity >= new[k].quantity
  BY <1>1, <1>2, <1>3 DEF SameTerms
<1>5. \A k, l \in DOMAIN new : l <= k => f[l] <= f[k]
  BY <1>1, <1>2
<1> HIDE DEF new
<1> QED
  BY <1>1, <1>2, <1>4, <1>5, SiftingKeepsPlaces DEF new

LEMMA AppendingKeepsPlaces ==
  ASSUME NEW list \in Seq(Order), UniqueList(list), NEW o \in Order,
         \A i \in DOMAIN list : ~ SameOrder(list[i], o)
  PROVE  KeepsPlaces(list, Append(list, o))
<1> DEFINE new == Append(list, o)
<1>1. /\ Len(list) \in Nat /\ DOMAIN list = 1 .. Len(list)
      /\ new \in Seq(Order) /\ Len(new) = Len(list) + 1 /\ DOMAIN new = 1 .. Len(list) + 1
      /\ \A j \in 1 .. Len(list) : new[j] = list[j]
      /\ new[Len(list) + 1] = o
  BY LenProperties, AppendProperties
<1>2. \A j \in DOMAIN list : list[j].quantity \in Nat
  BY ElementOfSeq, OrderFields
<1> HIDE DEF new
<1>3. ASSUME NEW k \in 1 .. Len(list)
      PROVE  /\ SameOrder(list[k], new[k]) /\ list[k].price = new[k].price
             /\ list[k].quantity >= new[k].quantity
             /\ \A j \in k + 1 .. Len(list), l \in 1 .. k : ~ SameOrder(list[j], new[l])
  <2>1. new[k] = list[k] /\ k \in DOMAIN list
    BY <1>1
  <2>2. ASSUME NEW j \in k + 1 .. Len(list), NEW l \in 1 .. k PROVE ~ SameOrder(list[j], new[l])
    <3>1. j \in DOMAIN list /\ l \in DOMAIN list /\ new[l] = list[l] /\ j # l
      BY <1>1
    <3> QED
      BY <3>1 DEF UniqueList
  <2> QED
    BY <1>2, <2>1, <2>2 DEF SameOrder
<1>4. \A k \in DOMAIN new : k \in DOMAIN list \/ (k = Len(new) /\ new[k] = o)
  BY <1>1
<1>5. KeepsPlaces(list, new)
  BY <1>1, <1>3, <1>4 DEF KeepsPlaces
<1> QED
  BY <1>5 DEF new

\* A step that changes one list, and keeps its places, keeps those of all.
LEMMA OneListKeepsPlaces ==
  ASSUME IInv, NEW p \in Products, NEW s \in Sides, NEW new,
         book' = [book EXCEPT ![p][s] = new], KeepsPlaces(book[p][s], new),
         NEW q \in Products, NEW r \in Sides
  PROVE  KeepsPlaces(book[q][r], book'[q][r])
<1>1. book \in Lists /\ UniqueIn(book)
  BY InvariantInParts DEF BookInv
<1>2. book'[q][r] = IF q = p /\ r = s THEN new ELSE book[q][r]
  BY <1>1 DEF Lists
<1>3. CASE q = p /\ r = s
  BY <1>2, <1>3
<1>4. CASE ~ (q = p /\ r = s)
  <2> DEFINE list == book[q][r]
             f == [j \in DOMAIN list |-> j]
  <2>1. list \in Seq(Order) /\ UniqueList(list)
    BY <1>1, BookOrders DEF UniqueIn, UniqueList
  <2>2. \A j \in DOMAIN list : list[j].quantity \in Nat /\ f[j] = j
    BY <2>1, ElementOfSeq, OrderFields
  <2>3. f \in [DOMAIN list -> DOMAIN list]
    OBVIOUS
  <2> HIDE DEF list, f
  <2>4. /\ \A k \in DOMAIN list : /\ SameTerms(list[k], list[f[k]])
                                  /\ list[f[k]].quantity >= list[k].quantity
        /\ \A k, l \in DOMAIN list : l <= k => f[l] <= f[k]
    BY <2>2 DEF SameTerms
  <2>5. KeepsPlaces(list, list)
    BY <2>1, <2>3, <2>4, SiftingKeepsPlaces
  <2>6. book'[q][r] = list
    BY <1>2, <1>4 DEF list
  <2> QED
    BY <2>5, <2>6 DEF list
<1> QED
  BY <1>3, <1>4

\* buy_sell_msg, amend_msg, cancel_msg and check_for_match: an order loses its
\* place only by leaving its list.
THEOREM TimePriority == Spec => TimePriorityKept
<1>1. ASSUME IInv, NEW p \in Products, NEW s \in Sides, NEW i \in DOMAIN book[p][s], Unlist(p, s, i),
             NEW q \in Products, NEW r \in Sides
      PROVE  KeepsPlaces(book[q][r], book'[q][r])
  <2>1. book[p][s] \in Seq(Order) /\ UniqueList(book[p][s])
    BY <1>1, BookOrders, InvariantInParts DEF BookInv, UniqueIn, UniqueList
  <2>2. book' = [book EXCEPT ![p][s] = RemoveAt(book[p][s], i)]
    BY <1>1 DEF Unlist
  <2> QED
    BY <1>1, <2>1, <2>2, RemovingKeepsPlaces, OneListKeepsPlaces
<1>2. ASSUME IInv, NEW t \in Traders, NEW m \in Commands, AmendMsg(t, m) \/ CancelMsg(t, m),
             NEW q \in Products, NEW r \in Sides
      PROVE  KeepsPlaces(book[q][r], book'[q][r])
  <2>1. PICK at \in FindOrder(t, m.id) : Unlist(at[1], at[2], at[3])
    BY <1>2 DEF AmendMsg, CancelMsg
  <2>2. at[1] \in Products /\ at[2] \in Sides /\ at[3] \in DOMAIN book[at[1]][at[2]]
    BY <1>2, FindOrderFinds, InvariantInParts
  <2> QED
    BY <1>1, <1>2, <2>1, <2>2
<1>3. ASSUME IInv, Match, NEW q \in Products, NEW r \in Sides
      PROVE  KeepsPlaces(book[q][r], book'[q][r])
  <2> DEFINE p == taker.product
             s == Opposite(taker.side)
  <2>1. PICK i \in FindBest(taker) :
          LET n == Fewer(taker.quantity, book[p][s][i].quantity)
          IN  IF book[p][s][i].quantity = n THEN Unlist(p, s, i) ELSE Reduce(p, s, i, n)
    BY <1>3 DEF Match
  <2> DEFINE o == book[p][s][i]
             n == Fewer(taker.quantity, o.quantity)
             rest == [o EXCEPT !.quantity = @ - n]
  <2>2. taker \in Order /\ BookInv(nextId)
    BY <1>3, InvariantInParts DEF Match, Idle, Shapes
  <2>3. p \in Products /\ s \in Sides /\ i \in DOMAIN book[p][s]
    BY <2>2, OrderFields DEF FindBest
  <2>4. book[p][s] \in Seq(Order) /\ UniqueList(book[p][s]) /\ o \in Order
    BY <2>2, <2>3, BookOrders DEF BookInv, UniqueIn, UniqueList
  <2>5. CASE o.quantity = n
    BY <1>1, <1>3, <2>1, <2>3, <2>5
  <2>6. CASE o.quantity # n
    <3>1. n \in Nat /\ n >= 1 /\ n < o.quantity /\ o.quantity \in Nat /\ o.quantity <= MaxQuantity
      BY <2>2, <2>4, <2>6, OrderFields DEF Fewer
    <3>2. Reduce(p, s, i, n)
      BY <2>1, <2>6
    <3>3. book' = [book EXCEPT ![p][s] = [book[p][s] EXCEPT ![i] = rest]]
      BY <2>2, <2>3, <3>2 DEF Reduce, BookInv, Lists
    <3> HIDE DEF n
    <3>4. o.quantity - n \in 1 .. MaxQuantity /\ o.quantity - n <= o.quantity
      BY <3>1, OrderBookAssumption, IntMaxAssumption
    <3>5. rest \in Order /\ SameTerms(rest, o) /\ rest.quantity <= o.quantity
      BY <2>4, <3>4 DEF Order, SameTerms
    <3> HIDE DEF p, s, rest
    <3>6. KeepsPlaces(book[p][s], [book[p][s] EXCEPT ![i] = rest])
      BY <2>3, <2>4, <3>5, ReducingKeepsPlaces
    <3> QED
      BY <1>3, <2>3, <3>3, <3>6, OneListKeepsPlaces
  <2> QED
    BY <2>5, <2>6
<1>4. ASSUME IInv, Rest, NEW q \in Products, NEW r \in Sides
      PROVE  KeepsPlaces(book[q][r], book'[q][r])
  <2> DEFINE p == taker.product
             s == taker.side
  <2>1. taker \in Order /\ AbsentIn(book, taker) /\ BookInv(nextId)
    BY <1>4, InvariantInParts DEF Rest, Idle, Shapes, TakerApart
  <2>2. p \in Products /\ s \in Sides
    BY <2>1, OrderFields
  <2>3. book[p][s] \in Seq(Order) /\ UniqueList(book[p][s])
    BY <2>1, <2>2, BookOrders DEF BookInv, UniqueIn, UniqueList
  <2>4. book' = [book EXCEPT ![p][s] = Append(book[p][s], taker)]
    BY <1>4 DEF Rest
  <2>5. KeepsPlaces(book[p][s], Append(book[p][s], taker))
    BY <2>1, <2>2, <2>3, AppendingKeepsPlaces DEF AbsentIn
  <2> HIDE DEF p, s
  <2> QED
    BY <1>4, <2>2, <2>4, <2>5, OneListKeepsPlaces
<1>5. IInv /\ [Next]_vars
        => [\A p \in Products, s \in Sides : KeepsPlaces(book[p][s], book'[p][s])]_book
  <2> SUFFICES ASSUME IInv, Next, book' # book, NEW q \in Products, NEW r \in Sides
               PROVE  KeepsPlaces(book[q][r], book'[q][r])
    BY DEF vars
  <2>1. ASSUME NEW t \in Traders, NEW m \in Commands, ParseMsg(t, m)
        PROVE  KeepsPlaces(book[q][r], book'[q][r])
    BY <1>2, <2>1 DEF ParseMsg, BuySellMsg, InvalidMsg, books
  <2> QED
    BY <1>3, <1>4, <2>1 DEF Next, TraderDied, Completed, vars, books
<1>6. [][\A p \in Products, s \in Sides : KeepsPlaces(book[p][s], book'[p][s])]_book => TimePriorityKept
  BY DEF TimePriorityKept, KeepsPlaces
<1> QED
  BY <1>5, <1>6, Invariance, PTL DEF Spec
-----------------------------------------------------------------------------
(* The accounts *)

\* The value of a trade that is started by a sell is an int in match_new_sell.
TradesFit ==
  ~ Idle /\ taker.side = "sell" =>
    \A i \in FindBest(taker) :
      LET resting == book[taker.product]["buy"][i]
      IN  resting.price * Fewer(taker.quantity, resting.quantity) <= IntMax

\* Every position can take one more trade.
PositionsFit ==
  \A t \in Traders, p \in Products :
    pos[t][p].quantity \in - (IntMax - MaxQuantity) .. IntMax - MaxQuantity

\* The account of one trader in one product after a trade.
LEMMA SettledAccount ==
  ASSUME pos \in [Traders -> [Products -> [quantity : Int, balance : Int]]], fees \in Int,
         NEW taking \in Order, NEW resting \in Order, NEW n \in Nat, Settle(taking, resting, n),
         NEW t \in Traders, NEW q \in Products
  PROVE  LET total  == TotalPrice(taking, resting, n)
             buyer  == IF taking.side = "buy" THEN taking.trader ELSE resting.trader
             seller == IF taking.side = "buy" THEN resting.trader ELSE taking.trader
         IN  IF q = taking.product
             THEN /\ pos'[t][q].quantity =
                       Wrap(pos[t][q].quantity + When(t = buyer, n) - When(t = seller, n))
                  /\ pos'[t][q].balance =
                       pos[t][q].balance + When(t = seller, total) - When(t = buyer, total)
                                         - When(t = taking.trader, Fee(total))
             ELSE pos'[t][q] = pos[t][q]
BY DEF Settle

\* The trade of a pass of the matching loop.
LEMMA MatchTrades ==
  ASSUME IInv, Match
  PROVE  \E i \in FindBest(taker) :
           LET p == taker.product
               s == Opposite(taker.side)
               resting == book[p][s][i]
               n == Fewer(taker.quantity, resting.quantity)
           IN  /\ p \in Products /\ s \in Sides /\ i \in DOMAIN book[p][s]
               /\ taker \in Order /\ resting \in Order /\ Crosses(taker, resting)
               /\ n \in Nat /\ n >= 1 /\ n <= MaxQuantity
               /\ n <= taker.quantity /\ n <= resting.quantity
               /\ Settle(taker, resting, n)
               /\ IF resting.quantity = n THEN Unlist(p, s, i) ELSE Reduce(p, s, i, n)
               /\ taker' = IF taker.quantity = n THEN NoOrder
                                                 ELSE [taker EXCEPT !.quantity = @ - n]
<1> DEFINE p == taker.product
           s == Opposite(taker.side)
           resting(i) == book[p][s][i]
           n(i) == Fewer(taker.quantity, resting(i).quantity)
<1>1. PICK i \in FindBest(taker) :
        /\ Settle(taker, resting(i), n(i))
        /\ IF resting(i).quantity = n(i) THEN Unlist(p, s, i) ELSE Reduce(p, s, i, n(i))
        /\ taker' = IF taker.quantity = n(i) THEN NoOrder
                                             ELSE [taker EXCEPT !.quantity = @ - n(i)]
  BY DEF Match
<1>2. taker \in Order /\ BookInv(nextId)
  BY InvariantInParts DEF Match, Idle, Shapes
<1>3. p \in Products /\ s \in Sides /\ i \in DOMAIN book[p][s] /\ Crosses(taker, resting(i))
  BY <1>2, OrderFields DEF FindBest
<1>4. resting(i) \in Order
  BY <1>2, <1>3, BookOrders DEF BookInv
<1>5. /\ n(i) \in Nat /\ n(i) >= 1 /\ n(i) <= MaxQuantity
      /\ n(i) <= taker.quantity /\ n(i) <= resting(i).quantity
  <2>1. MaxQuantity \in Nat
    BY OrderBookAssumption, IntMaxAssumption
  <2>2. /\ taker.quantity \in Nat /\ taker.quantity >= 1 /\ taker.quantity <= MaxQuantity
        /\ resting(i).quantity \in Nat /\ resting(i).quantity >= 1
    BY <1>2, <1>4, OrderFields
  <2> HIDE DEF resting
  <2> QED
    BY <2>1, <2>2 DEF Fewer
<1> HIDE DEF n
<1>6. /\ p \in Products /\ s \in Sides /\ i \in DOMAIN book[p][s]
      /\ taker \in Order /\ resting(i) \in Order /\ Crosses(taker, resting(i))
      /\ n(i) \in Nat /\ n(i) >= 1 /\ n(i) <= MaxQuantity
      /\ n(i) <= taker.quantity /\ n(i) <= resting(i).quantity
      /\ Settle(taker, resting(i), n(i))
      /\ IF resting(i).quantity = n(i) THEN Unlist(p, s, i) ELSE Reduce(p, s, i, n(i))
      /\ taker' = IF taker.quantity = n(i) THEN NoOrder
                                           ELSE [taker EXCEPT !.quantity = @ - n(i)]
  BY <1>1, <1>2, <1>3, <1>4, <1>5
<1> QED
  BY <1>6 DEF n

\* More units at a price, or the same at a higher one, are worth more.
LEMMA Worth ==
  ASSUME NEW a \in Nat, NEW b \in Nat, a <= b, NEW n \in Nat
  PROVE  a * n \in Nat /\ b * n \in Nat /\ a * n <= b * n /\ a * (-n) = -(a * n) /\ b * (-n) = -(b * n)
OBVIOUS

\* match_new_buy, match_new_sell and update_inventory: as long as the sums of
\* a trade fit in their types, nobody trades beyond its limit.
THEOREM LimitsKept == Spec /\ []PositionsFit /\ []TradesFit => LimitsRespected
<1> DEFINE p == taker.product
           got(t) == pos'[t][p].quantity - pos[t][p].quantity
           paid(t) == pos[t][p].balance - pos'[t][p].balance
           Respected(t) ==
             IF t = taker.trader
             THEN paid(t) <= taker.price * got(t) + (fees' - fees)
             ELSE \/ got(t) = 0 /\ paid(t) = 0
                  \/ \E i \in DOMAIN book[p][Opposite(taker.side)] :
                       LET o == book[p][Opposite(taker.side)][i]
                       IN  o.trader = t /\ paid(t) = o.price * got(t)
<1>1. ASSUME IInv, Match, PositionsFit, TradesFit, NEW t \in Traders
      PROVE  Respected(t)
  <2> DEFINE s == Opposite(taker.side)
  <2>1. PICK i \in FindBest(taker) :
          LET resting == book[p][s][i]
              n == Fewer(taker.quantity, resting.quantity)
          IN  /\ p \in Products /\ s \in Sides /\ i \in DOMAIN book[p][s]
              /\ taker \in Order /\ resting \in Order /\ Crosses(taker, resting)
              /\ n \in Nat /\ n >= 1 /\ n <= MaxQuantity
              /\ Settle(taker, resting, n)
    BY <1>1, MatchTrades
  <2> DEFINE resting == book[p][s][i]
             n == Fewer(taker.quantity, resting.quantity)
             T == resting.price * n
             buyer == IF taker.side = "buy" THEN taker.trader ELSE resting.trader
             seller == IF taker.side = "buy" THEN resting.trader ELSE taker.trader
  <2>2. /\ p \in Products /\ taker.price \in Nat /\ resting.price \in Nat /\ resting.price >= 1
        /\ n \in Nat /\ n >= 1 /\ n <= MaxQuantity /\ taker.side \in Sides
    BY <2>1, OrderFields
  <2>3. taker.price * n \in Nat /\ T \in Nat
    BY <2>2, Worth
  <2>4. TotalPrice(taker, resting, n) = T
    <3>1. CASE taker.side = "buy"
      BY <3>1 DEF TotalPrice
    <3>2. CASE taker.side = "sell"
      <4>1. T <= IntMax
        BY <1>1, <2>1, <3>2 DEF TradesFit, Match, Opposite
      <4> HIDE DEF T
      <4>2. Wrap(T) = T
        BY <2>3, <4>1, WrapFits, IntMaxAssumption
      <4> QED
        BY <3>2, <4>2 DEF TotalPrice, T
    <3> QED
      BY <2>2, <3>1, <3>2 DEF Sides
  <2>5. /\ pos \in [Traders -> [Products -> [quantity : Int, balance : Int]]] /\ fees \in Int
        /\ pos[t][p].quantity \in Int /\ pos[t][p].balance \in Int
    BY <1>1, <2>2, InvariantInParts DEF Shapes
  <2> DEFINE F == Fee(T)
  <2>6. fees' - fees = F /\ F \in Int
    <3>1. fees' = fees + F
      BY <2>1, <2>4 DEF Settle
    <3>2. F \in Int
      BY <2>3, FeeInt
    <3> HIDE DEF F
    <3> QED
      BY <2>5, <3>1, <3>2
  <2>7. /\ pos'[t][p].quantity = Wrap(pos[t][p].quantity + When(t = buyer, n) - When(t = seller, n))
        /\ pos'[t][p].balance = pos[t][p].balance + When(t = seller, T) - When(t = buyer, T)
                                                  - When(t = taker.trader, Fee(T))
    <3>1. taker \in Order /\ resting \in Order /\ Settle(taker, resting, n)
      BY <2>1
    <3> HIDE DEF n, T, resting
    <3>2. /\ pos'[t][p].quantity = Wrap(pos[t][p].quantity + When(t = buyer, n) - When(t = seller, n))
          /\ pos'[t][p].balance = pos[t][p].balance + When(t = seller, TotalPrice(taker, resting, n))
                                    - When(t = buyer, TotalPrice(taker, resting, n))
                                    - When(t = taker.trader, Fee(TotalPrice(taker, resting, n)))
      BY <2>2, <2>5, <3>1, SettledAccount
    <3> QED
      BY <2>4, <3>2
  <2> HIDE DEF n, T, F, buyer, seller
  <2>8. got(t) = When(t = buyer, n) - When(t = seller, n)
    <3> DEFINE x == pos[t][p].quantity + When(t = buyer, n) - When(t = seller, n)
    <3>1. /\ pos[t][p].quantity \in - (IntMax - MaxQuantity) .. IntMax - MaxQuantity
          /\ IntMax \in Nat /\ MaxQuantity \in Nat /\ MaxQuantity <= IntMax
      BY <1>1, <2>2, OrderBookAssumption, IntMaxAssumption DEF PositionsFit
    <3>2. x \in -(IntMax + 1) .. IntMax
      BY <2>2, <3>1 DEF When
    <3>3. Wrap(x) = x
      BY <3>2, WrapFits
    <3> QED
      BY <2>2, <2>5, <2>7, <3>3 DEF When
  <2>9. paid(t) = When(t = buyer, T) - When(t = seller, T) + When(t = taker.trader, F)
    <3>1. /\ When(t = buyer, T) \in Int /\ When(t = seller, T) \in Int
          /\ When(t = taker.trader, F) \in Int
      BY <2>3, <2>6 DEF When
    <3>2. pos'[t][p].balance = pos[t][p].balance + When(t = seller, T) - When(t = buyer, T)
                                                 - When(t = taker.trader, F)
      BY <2>7 DEF F
    <3> QED
      BY <2>5, <3>1, <3>2
  <2>10. /\ resting.price * n = T /\ resting.price * (-n) = -T
         /\ taker.price * 0 = 0 /\ taker.price * (-n) = -(taker.price * n)
    <3>1. resting.price * n = T
      BY DEF T
    <3>2. resting.price * (-n) = -(resting.price * n) /\ taker.price * (-n) = -(taker.price * n)
      BY <2>2, Worth
    <3> QED
      BY <2>2, <3>1, <3>2
  <2> HIDE DEF got, paid, resting
  <2>11. CASE t = taker.trader
    <3>1. When(t = taker.trader, F) = F
      BY <2>11 DEF When
    <3>2. /\ taker.side = "buy" => T <= taker.price * n
          /\ taker.side = "sell" => taker.price * n <= T
      BY <2>1, <2>2, Worth DEF Crosses, T, resting, n
    <3>3. CASE resting.trader = t
      <4>1. t = buyer /\ t = seller
        BY <2>11, <3>3 DEF buyer, seller
      <4>2. got(t) = 0 /\ paid(t) = F
        BY <2>2, <2>3, <2>6, <2>8, <2>9, <3>1, <4>1 DEF When
      <4> QED
        BY <2>6, <2>10, <2>11, <4>2
    <3>4. CASE resting.trader # t /\ taker.side = "buy"
      <4>1. t = buyer /\ t # seller
        BY <2>11, <3>4 DEF buyer, seller
      <4>2. got(t) = n /\ paid(t) = T + F
        BY <2>2, <2>3, <2>6, <2>8, <2>9, <3>1, <4>1 DEF When
      <4> QED
        BY <2>3, <2>6, <2>11, <3>2, <3>4, <4>2
    <3>5. CASE resting.trader # t /\ taker.side = "sell"
      <4>1. t # buyer /\ t = seller
        BY <2>11, <3>5 DEF buyer, seller
      <4>2. got(t) = -n /\ paid(t) = -T + F
        BY <2>2, <2>3, <2>6, <2>8, <2>9, <3>1, <4>1 DEF When
      <4> QED
        BY <2>3, <2>6, <2>10, <2>11, <3>2, <3>5, <4>2
    <3> QED
      BY <2>2, <3>3, <3>4, <3>5 DEF Sides
  <2>12. CASE t # taker.trader /\ t = resting.trader
    <3>1. When(t = taker.trader, F) = 0
      BY <2>12 DEF When
    <3>2. ASSUME taker.side = "buy" PROVE paid(t) = resting.price * got(t)
      <4>1. t # buyer /\ t = seller
        BY <2>12, <3>2 DEF buyer, seller
      <4>2. got(t) = -n /\ paid(t) = -T
        BY <2>2, <2>3, <2>8, <2>9, <3>1, <4>1 DEF When
      <4> QED
        BY <2>10, <4>2
    <3>3. ASSUME taker.side = "sell" PROVE paid(t) = resting.price * got(t)
      <4>1. t = buyer /\ t # seller
        BY <2>12, <3>3 DEF buyer, seller
      <4>2. got(t) = n /\ paid(t) = T
        BY <2>2, <2>3, <2>8, <2>9, <3>1, <4>1 DEF When
      <4> QED
        BY <2>10, <4>2
    <3>4. paid(t) = resting.price * got(t)
      BY <2>2, <3>2, <3>3 DEF Sides
    <3> QED
      BY <2>1, <2>12, <3>4 DEF resting
  <2>13. CASE t # taker.trader /\ t # resting.trader
    <3>1. t # buyer /\ t # seller
      BY <2>13 DEF buyer, seller
    <3>2. got(t) = 0 /\ paid(t) = 0
      BY <2>8, <2>9, <2>13, <3>1 DEF When
    <3> QED
      BY <2>13, <3>2
  <2> QED
    BY <2>11, <2>12, <2>13
<1>2. IInv /\ [Next]_vars /\ PositionsFit /\ TradesFit
        => [~ Idle => \A t \in Traders : Respected(t)]_accounts
  <2> SUFFICES ASSUME IInv, Next, PositionsFit, TradesFit, ~ Idle, accounts' # accounts
               PROVE  \A t \in Traders : Respected(t)
    BY DEF vars, accounts
  <2> HIDE DEF Respected
  <2>1. Match
    BY DEF Next, ParseMsg, Rest, TraderDied, Completed, vars, accounts
  <2> QED
    BY <1>1, <2>1
<1>3. [][~ Idle => \A t \in Traders : Respected(t)]_accounts => LimitsRespected
  BY DEF LimitsRespected
<1> HIDE DEF Respected
<1> QED
  BY <1>2, <1>3, Invariance, PTL DEF Spec
=============================================================================
