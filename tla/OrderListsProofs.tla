-------------------------- MODULE OrderListsProofs --------------------------
(***************************************************************************)
(* The order lists on the heap, for any products, any number of orders and *)
(* any history: the surgery of add_to_tail and delete_order keeps every    *)
(* list whole, and no order is lost, freed twice or used after its end.    *)
(***************************************************************************)
EXTENDS OrderLists, TLAPS

OnceEach(s) == \A i, j \in DOMAIN s : s[i] = s[j] => i = j
-----------------------------------------------------------------------------
(* Sequences *)

\* What follows the first part of a concatenation.
LEMMA SecondPart ==
  ASSUME NEW a \in Seq(Orders), NEW b \in Seq(Orders), NEW k \in 1 .. Len(b)
  PROVE  (a \o b)[Len(a) + k] = b[k]
<1>1. Len(a) \in Nat /\ Len(b) \in Nat
  OBVIOUS
<1>2. Len(a) + k \in 1 .. Len(a) + Len(b) /\ ~ (Len(a) + k <= Len(a)) /\ (Len(a) + k) - Len(a) = k
  BY <1>1
<1> QED
  BY <1>1, <1>2

\* What is in a sequence that has lost one element.
LEMMA WithoutFacts ==
  ASSUME NEW s \in Seq(Orders), OnceEach(s), NEW i \in DOMAIN s
  PROVE  /\ Without(s, s[i]) \in Seq(Orders) /\ Len(Without(s, s[i])) = Len(s) - 1
         /\ \A j \in 1 .. Len(s) - 1 : Without(s, s[i])[j] = IF j < i THEN s[j] ELSE s[j + 1]
<1> DEFINE k == CHOOSE j \in DOMAIN s : s[j] = s[i]
<1>1. k \in DOMAIN s /\ s[k] = s[i]
  OBVIOUS
<1>2. k = i
  BY <1>1 DEF OnceEach
<1>3. Without(s, s[i]) = SubSeq(s, 1, i - 1) \o SubSeq(s, i + 1, Len(s))
  BY <1>2 DEF Without, RemoveAt
<1> DEFINE a == SubSeq(s, 1, i - 1)  b == SubSeq(s, i + 1, Len(s))
<1>4. i \in 1 .. Len(s) /\ Len(s) \in Nat
  OBVIOUS
<1>5. a \in Seq(Orders) /\ Len(a) = i - 1 /\ \A j \in 1 .. i - 1 : a[j] = s[j]
  BY <1>4
<1>6. b \in Seq(Orders) /\ Len(b) = Len(s) - i /\ \A j \in 1 .. Len(s) - i : b[j] = s[i + j]
  BY <1>4
<1> HIDE DEF a, b
<1>7. a \o b \in Seq(Orders) /\ Len(a \o b) = Len(s) - 1
  BY <1>4, <1>5, <1>6
<1>8. ASSUME NEW j \in 1 .. Len(s) - 1 PROVE (a \o b)[j] = IF j < i THEN s[j] ELSE s[j + 1]
  <2>1. CASE j < i
    <3>1. j \in 1 .. i - 1
      BY <1>4, <2>1
    <3>2. (a \o b)[j] = a[j]
      BY <1>4, <1>5, <1>6, <3>1
    <3> QED
      BY <1>5, <2>1, <3>1, <3>2
  <2>2. CASE j >= i
    <3> DEFINE m == j - (i - 1)
    <3>1. m \in 1 .. Len(s) - i /\ i + m = j + 1 /\ j = (i - 1) + m /\ ~ (j < i)
      BY <1>4, <2>2
    <3> HIDE DEF m
    <3>2. (a \o b)[Len(a) + m] = b[m]
      <4>1. a \in Seq(Orders) /\ b \in Seq(Orders) /\ m \in 1 .. Len(b)
        BY <1>5, <1>6, <3>1
      <4> QED
        BY <4>1, SecondPart, Zenon
    <3>3. b[m] = s[i + m]
      BY <1>6, <3>1
    <3> QED
      BY <1>5, <3>1, <3>2, <3>3
  <2>3. j < i \/ j >= i
    BY <1>4
  <2> QED
    BY <2>1, <2>2, <2>3
<1> QED
  BY <1>3, <1>7, <1>8 DEF a, b
-----------------------------------------------------------------------------
(* The surgery *)

\* A list is whatever its head, its tail and the pointers of its orders say.
LEMMA ChainedElsewhere ==
  ASSUME NEW h \in Heap, NEW g \in Heap, NEW l \in Lists, NEW s \in Seq(Orders), Chained(h, l, s),
         g.head[l] = h.head[l], g.tail[l] = h.tail[l],
         \A i \in DOMAIN s : g.next[s[i]] = h.next[s[i]] /\ g.prev[s[i]] = h.prev[s[i]]
  PROVE  Chained(g, l, s)
BY DEF Chained

\* add_to_tail extends its list by the new order, and touches nothing but the
\* new order and the old tail.
LEMMA AddToTailChains ==
  ASSUME NEW h \in Heap, NEW l \in Lists, NEW s \in Seq(Orders), Chained(h, l, s), OnceEach(s),
         NEW o \in Orders, \A i \in DOMAIN s : s[i] # o
  PROVE  /\ AddToTail(h, o, l) \in Heap
         /\ Chained(AddToTail(h, o, l), l, Append(s, o))
         /\ \A m \in Lists \ {l} : /\ AddToTail(h, o, l).head[m] = h.head[m]
                                   /\ AddToTail(h, o, l).tail[m] = h.tail[m]
         /\ \A u \in Orders : u # o /\ (\A i \in DOMAIN s : s[i] # u) =>
              /\ AddToTail(h, o, l).next[u] = h.next[u]
              /\ AddToTail(h, o, l).prev[u] = h.prev[u]
<1> DEFINE g == AddToTail(h, o, l)  r == Append(s, o)
<1>1. /\ h \in Heap
      /\ h.head \in [Lists -> Pointer] /\ h.tail \in [Lists -> Pointer]
      /\ h.next \in [Orders -> Pointer] /\ h.prev \in [Orders -> Pointer]
      /\ o \in Pointer /\ Null \in Pointer
  BY DEF Heap, Pointer
<1>2. r \in Seq(Orders) /\ Len(r) = Len(s) + 1 /\ r[Len(s) + 1] = o /\ Len(s) \in Nat
      /\ \A i \in 1 .. Len(s) : r[i] = s[i]
  OBVIOUS
<1>3. Len(s) \in Nat
  OBVIOUS
<1>4. DOMAIN s = 1 .. Len(s) /\ DOMAIN r = 1 .. Len(r) /\ r # <<>>
  BY <1>2
<1>5. CASE s = <<>>
  <2>1. h.tail[l] = Null /\ Len(s) = 0
    BY <1>5 DEF Chained
  <2>2. g = [h EXCEPT !.head[l] = o, !.tail[l] = o, !.prev[o] = Null, !.next[o] = Null]
    BY <2>1 DEF AddToTail
  <2> HIDE DEF g
  <2>3. /\ g \in Heap
        /\ g.head = [h.head EXCEPT ![l] = o] /\ g.tail = [h.tail EXCEPT ![l] = o]
        /\ g.next = [h.next EXCEPT ![o] = Null] /\ g.prev = [h.prev EXCEPT ![o] = Null]
    BY <1>1, <2>2 DEF Heap, Pointer
  <2>4. /\ g.head[l] = o /\ g.tail[l] = o /\ g.next[o] = Null /\ g.prev[o] = Null
        /\ \A m \in Lists \ {l} : g.head[m] = h.head[m] /\ g.tail[m] = h.tail[m]
        /\ \A u \in Orders \ {o} : g.next[u] = h.next[u] /\ g.prev[u] = h.prev[u]
    BY <1>1, <2>3
  <2> HIDE DEF g, r
  <2>5. Len(r) = 1 /\ r[1] = o
    BY <1>2, <2>1
  <2>6. Chained(g, l, r)
    BY <1>4, <2>4, <2>5 DEF Chained
  <2> QED
    BY <2>3, <2>4, <2>6 DEF g, r
<1>6. CASE s # <<>>
  <2> DEFINE last == s[Len(s)]
  <2>1. Len(s) \in 1 .. Len(s) /\ last \in Orders /\ last # o /\ last # Null
    BY <1>2, <1>4, <1>6, OrderListsAssumption
  <2>2. h.tail[l] = last
    BY <1>6 DEF Chained
  <2> HIDE DEF last
  <2>3. g = [h EXCEPT !.prev[o] = last, !.next[last] = o, !.tail[l] = o, !.next[o] = Null]
    BY <2>1, <2>2 DEF AddToTail
  <2> HIDE DEF g, r
  <2>4. /\ g \in Heap
        /\ g.head = h.head /\ g.tail = [h.tail EXCEPT ![l] = o]
        /\ g.next = [h.next EXCEPT ![last] = o, ![o] = Null] /\ g.prev = [h.prev EXCEPT ![o] = last]
    BY <1>1, <2>1, <2>3 DEF Heap, Pointer
  <2>5. /\ g.head[l] = h.head[l] /\ g.tail[l] = o
        /\ g.next[o] = Null /\ g.prev[o] = last /\ g.next[last] = o /\ g.prev[last] = h.prev[last]
        /\ \A m \in Lists \ {l} : g.head[m] = h.head[m] /\ g.tail[m] = h.tail[m]
        /\ \A u \in Orders \ {o, last} : g.next[u] = h.next[u] /\ g.prev[u] = h.prev[u]
    BY <1>1, <2>1, <2>4
  <2>6. g.head[l] = r[1] /\ g.tail[l] = r[Len(r)]
    BY <1>2, <1>4, <1>6, <2>1, <2>5 DEF Chained
  <2>7. ASSUME NEW i \in 1 .. Len(r)
        PROVE  /\ g.next[r[i]] = IF i = Len(r) THEN Null ELSE r[i + 1]
               /\ g.prev[r[i]] = IF i = 1 THEN Null ELSE r[i - 1]
    <3>1. CASE i = Len(s) + 1
      <4>1. r[i] = o /\ i # 1 /\ r[i - 1] = last /\ i = Len(r)
        BY <1>2, <2>1, <3>1 DEF last
      <4> QED
        BY <2>5, <4>1
    <3>2. CASE i = Len(s)
      <4>1. r[i] = last /\ r[i + 1] = o /\ i # Len(r) /\ i \in DOMAIN s
        BY <1>2, <1>4, <2>1, <3>2 DEF last
      <4>2. h.prev[last] = IF i = 1 THEN Null ELSE s[i - 1]
        BY <3>2, <4>1 DEF Chained, last
      <4>3. i # 1 => r[i - 1] = s[i - 1]
        BY <1>2, <2>1, <3>2
      <4> QED
        BY <2>5, <4>1, <4>2, <4>3
    <3>3. CASE i \in 1 .. Len(s) - 1
      <4>1. i \in 1 .. Len(s) /\ i # Len(s) /\ i + 1 \in 1 .. Len(s) /\ i # Len(s) + 1
        BY <1>3, <3>3
      <4>2. i \in DOMAIN s /\ i # Len(s) /\ i + 1 \in 1 .. Len(s) /\ i # Len(r)
        BY <1>2, <1>4, <4>1
      <4>3. r[i] = s[i] /\ r[i + 1] = s[i + 1] /\ (i # 1 => r[i - 1] = s[i - 1])
        BY <1>2, <3>3, <4>2
      <4>4. s[i] \in Orders \ {o, last}
        BY <1>4, <2>1, <4>2 DEF OnceEach, last
      <4>5. /\ h.next[s[i]] = s[i + 1]
            /\ h.prev[s[i]] = IF i = 1 THEN Null ELSE s[i - 1]
        BY <4>2 DEF Chained
      <4> QED
        BY <2>5, <4>2, <4>3, <4>4, <4>5
    <3> QED
      BY <1>2, <3>1, <3>2, <3>3
  <2>8. Chained(g, l, r)
    BY <1>4, <2>6, <2>7 DEF Chained
  <2>9. \A u \in Orders : u # o /\ (\A i \in DOMAIN s : s[i] # u) => u \in Orders \ {o, last}
    BY <1>4, <2>1 DEF last
  <2> QED
    BY <2>4, <2>5, <2>8, <2>9 DEF g, r
<1> QED
  BY <1>5, <1>6

\* delete_order takes its order out of the list, and touches nothing but that
\* order's neighbours.
LEMMA DeleteOrderChains ==
  ASSUME NEW h \in Heap, NEW l \in Lists, NEW s \in Seq(Orders), Chained(h, l, s), OnceEach(s),
         NEW i \in DOMAIN s
  PROVE  /\ DeleteOrder(h, s[i], l) \in Heap
         /\ Chained(DeleteOrder(h, s[i], l), l, Without(s, s[i]))
         /\ \A m \in Lists \ {l} : /\ DeleteOrder(h, s[i], l).head[m] = h.head[m]
                                   /\ DeleteOrder(h, s[i], l).tail[m] = h.tail[m]
         /\ \A u \in Orders : (\A j \in DOMAIN s : s[j] # u) =>
              /\ DeleteOrder(h, s[i], l).next[u] = h.next[u]
              /\ DeleteOrder(h, s[i], l).prev[u] = h.prev[u]
<1> DEFINE o == s[i]  g == DeleteOrder(h, o, l)  r == Without(s, o)  n == Len(s)
           after == IF i = n THEN Null ELSE s[i + 1]
           before == IF i = 1 THEN Null ELSE s[i - 1]
<1>1. /\ h.head \in [Lists -> Pointer] /\ h.tail \in [Lists -> Pointer]
      /\ h.next \in [Orders -> Pointer] /\ h.prev \in [Orders -> Pointer]
      /\ Null \in Pointer /\ Orders \subseteq Pointer
  BY DEF Heap, Pointer
<1>2. n \in Nat /\ i \in 1 .. n /\ DOMAIN s = 1 .. n /\ s # <<>>
  OBVIOUS
<1>3. /\ r \in Seq(Orders) /\ Len(r) = n - 1
      /\ \A j \in 1 .. n - 1 : r[j] = IF j < i THEN s[j] ELSE s[j + 1]
  BY WithoutFacts
<1>4. \A j \in 1 .. n : s[j] \in Orders /\ s[j] # Null
  BY <1>2, OrderListsAssumption
<1>5. \A j, k \in 1 .. n : s[j] = s[k] => j = k
  BY <1>2 DEF OnceEach
<1>6. /\ h.head[l] = s[1] /\ h.tail[l] = s[n]
      /\ h.next[o] = after /\ h.prev[o] = before
  BY <1>2 DEF Chained
<1> HIDE DEF n, r
\* What the four cases of delete_order have in common.
<1>7. /\ g \in Heap
      /\ g.head[l] = (IF i = 1 THEN after ELSE s[1])
      /\ g.tail[l] = (IF i = n THEN before ELSE s[n])
      /\ \A m \in Lists \ {l} : g.head[m] = h.head[m] /\ g.tail[m] = h.tail[m]
      /\ \A j \in 1 .. n : j # i => /\ g.next[s[j]] = (IF j = i - 1 THEN after ELSE h.next[s[j]])
                                    /\ g.prev[s[j]] = (IF j = i + 1 THEN before ELSE h.prev[s[j]])
      /\ \A u \in Orders : (\A j \in DOMAIN s : s[j] # u) => g.next[u] = h.next[u] /\ g.prev[u] = h.prev[u]
  <2>1. CASE n = 1
    <3>1. i = 1 /\ after = Null /\ before = Null
      BY <1>2, <2>1
    <3>2. g = [h EXCEPT !.head[l] = Null, !.tail[l] = Null]
      BY <1>6, <2>1, <3>1 DEF DeleteOrder
    <3> HIDE DEF g, after, before, o
    <3>3. /\ g \in Heap /\ g.next = h.next /\ g.prev = h.prev
          /\ g.head = [h.head EXCEPT ![l] = Null] /\ g.tail = [h.tail EXCEPT ![l] = Null]
      BY <1>1, <3>2 DEF Heap, Pointer
    <3>4. \A j \in 1 .. n : j = i
      BY <2>1, <3>1
    <3> QED
      BY <1>1, <2>1, <3>1, <3>3, <3>4
  <2>2. CASE n # 1 /\ i = 1
    <3>1. h.tail[l] # h.head[l] /\ h.head[l] = o /\ i # n /\ 1 \in 1 .. n /\ n \in 1 .. n /\ i + 1 \in 1 .. n
      BY <1>2, <1>5, <1>6, <2>2
    <3>2. after = s[i + 1] /\ after \in Orders /\ before = Null /\ after # Null
      BY <1>4, <2>2, <3>1
    <3>3. g = [h EXCEPT !.head[l] = after, !.prev[after] = Null]
      BY <1>6, <3>1 DEF DeleteOrder
    <3> HIDE DEF g, after, before, o
    <3>4. /\ g \in Heap /\ g.next = h.next /\ g.tail = h.tail
          /\ g.head = [h.head EXCEPT ![l] = after] /\ g.prev = [h.prev EXCEPT ![after] = Null]
      BY <1>1, <3>2, <3>3 DEF Heap, Pointer
    <3>5. \A j \in 1 .. n : (j # i + 1 => s[j] # after) /\ j # i - 1
      BY <1>5, <2>2, <3>1, <3>2
    <3>6. \A u \in Orders : (\A j \in DOMAIN s : s[j] # u) => u # after
      BY <1>2, <3>1, <3>2
    <3>7. \A j \in 1 .. n : j # i => /\ g.next[s[j]] = (IF j = i - 1 THEN after ELSE h.next[s[j]])
                                    /\ g.prev[s[j]] = (IF j = i + 1 THEN before ELSE h.prev[s[j]])
      BY <1>1, <1>4, <3>2, <3>4, <3>5
    <3> QED
      BY <1>1, <1>6, <2>2, <3>1, <3>2, <3>4, <3>6, <3>7
  <2>3. CASE n # 1 /\ i = n
    <3>1. h.tail[l] # h.head[l] /\ h.head[l] # o /\ h.tail[l] = o /\ i # 1 /\ 1 \in 1 .. n /\ n \in 1 .. n
          /\ i - 1 \in 1 .. n
      BY <1>2, <1>5, <1>6, <2>3
    <3>2. before = s[i - 1] /\ before \in Orders /\ after = Null /\ before # Null
      BY <1>4, <2>3, <3>1
    <3>3. g = [h EXCEPT !.tail[l] = before, !.next[before] = Null]
      BY <1>6, <3>1 DEF DeleteOrder
    <3> HIDE DEF g, after, before, o
    <3>4. /\ g \in Heap /\ g.prev = h.prev /\ g.head = h.head
          /\ g.tail = [h.tail EXCEPT ![l] = before] /\ g.next = [h.next EXCEPT ![before] = Null]
      BY <1>1, <3>2, <3>3 DEF Heap, Pointer
    <3>5. \A j \in 1 .. n : (j # i - 1 => s[j] # before) /\ j # i + 1
      BY <1>2, <1>5, <2>3, <3>1, <3>2
    <3>6. \A u \in Orders : (\A j \in DOMAIN s : s[j] # u) => u # before
      BY <1>2, <3>1, <3>2
    <3>7. \A j \in 1 .. n : j # i => /\ g.next[s[j]] = (IF j = i - 1 THEN after ELSE h.next[s[j]])
                                    /\ g.prev[s[j]] = (IF j = i + 1 THEN before ELSE h.prev[s[j]])
      BY <1>1, <1>4, <3>2, <3>4, <3>5
    <3> QED
      BY <1>1, <1>6, <2>3, <3>1, <3>2, <3>4, <3>6, <3>7
  <2>4. CASE i # 1 /\ i # n
    <3>1. h.head[l] # o /\ h.tail[l] # o /\ i - 1 \in 1 .. n /\ i + 1 \in 1 .. n /\ 1 \in 1 .. n /\ n \in 1 .. n
      BY <1>2, <1>5, <1>6, <2>4
    <3>2. /\ after = s[i + 1] /\ after \in Orders /\ after # Null
          /\ before = s[i - 1] /\ before \in Orders /\ before # Null
      BY <1>4, <2>4, <3>1
    <3>3. g = [h EXCEPT !.next[before] = after, !.prev[after] = before]
      BY <1>6, <3>1 DEF DeleteOrder
    <3> HIDE DEF g, after, before, o
    <3>4. /\ g \in Heap /\ g.head = h.head /\ g.tail = h.tail
          /\ g.next = [h.next EXCEPT ![before] = after] /\ g.prev = [h.prev EXCEPT ![after] = before]
      BY <1>1, <3>2, <3>3 DEF Heap, Pointer
    <3>5. \A j \in 1 .. n : (j # i - 1 => s[j] # before) /\ (j # i + 1 => s[j] # after)
      BY <1>5, <3>1, <3>2
    <3>6. \A u \in Orders : (\A j \in DOMAIN s : s[j] # u) => u # before /\ u # after
      BY <1>2, <3>1, <3>2
    <3>7. \A j \in 1 .. n : j # i => /\ g.next[s[j]] = (IF j = i - 1 THEN after ELSE h.next[s[j]])
                                    /\ g.prev[s[j]] = (IF j = i + 1 THEN before ELSE h.prev[s[j]])
      BY <1>1, <1>4, <3>2, <3>4, <3>5
    <3> QED
      BY <1>1, <1>6, <2>4, <3>1, <3>2, <3>4, <3>6, <3>7
  <2> QED
    BY <2>1, <2>2, <2>3, <2>4
<1> HIDE DEF g
<1>8. Chained(g, l, r)
  <2>1. /\ g.head[l] = (IF r = <<>> THEN Null ELSE r[1])
        /\ g.tail[l] = (IF r = <<>> THEN Null ELSE r[Len(r)])
    <3>1. CASE n = 1
      BY <1>2, <1>3, <1>7, <3>1
    <3>2. CASE n # 1
      <4>1. r # <<>> /\ 1 \in 1 .. n - 1 /\ n - 1 \in 1 .. n - 1
        BY <1>2, <1>3, <3>2
      <4>2. r[1] = (IF i = 1 THEN s[2] ELSE s[1]) /\ r[n - 1] = (IF i = n THEN s[n - 1] ELSE s[n])
        BY <1>2, <1>3, <4>1
      <4> QED
        BY <1>2, <1>3, <1>7, <3>2, <4>1, <4>2
    <3> QED
      BY <3>1, <3>2
  <2>2. ASSUME NEW j \in 1 .. n - 1
        PROVE  /\ g.next[r[j]] = IF j = n - 1 THEN Null ELSE r[j + 1]
               /\ g.prev[r[j]] = IF j = 1 THEN Null ELSE r[j - 1]
    <3>1. CASE j < i
      <4>1. /\ j \in 1 .. n /\ j # i /\ j # i + 1 /\ r[j] = s[j] /\ j # n
            /\ (j # 1 => j - 1 \in 1 .. n - 1 /\ j - 1 < i)
            /\ (j # n - 1 => j + 1 \in 1 .. n - 1)
            /\ (j = i - 1 <=> ~ (j + 1 < i)) /\ (j = i - 1 => (i = n <=> j = n - 1) /\ j + 1 = i)
        BY <1>2, <1>3, <3>1
      <4>2. h.next[s[j]] = s[j + 1] /\ h.prev[s[j]] = IF j = 1 THEN Null ELSE s[j - 1]
        BY <1>2, <4>1 DEF Chained, n
      <4>3. g.prev[r[j]] = IF j = 1 THEN Null ELSE r[j - 1]
        BY <1>3, <1>7, <4>1, <4>2
      <4>4. CASE j = i - 1
        <5>1. g.next[r[j]] = after
          BY <1>7, <4>1, <4>4
        <5>2. j # n - 1 => r[j + 1] = s[i + 1]
          BY <1>3, <4>1, <4>4
        <5> QED
          BY <4>1, <4>3, <4>4, <5>1, <5>2
      <4>5. CASE j # i - 1
        <5>1. g.next[r[j]] = s[j + 1]
          BY <1>7, <4>1, <4>2, <4>5
        <5>2. j # n - 1 /\ r[j + 1] = s[j + 1]
          BY <1>2, <1>3, <3>1, <4>1, <4>5
        <5> QED
          BY <4>3, <5>1, <5>2
      <4> QED
        BY <4>4, <4>5
    <3>2. CASE j >= i
      <4>1. /\ j + 1 \in 1 .. n /\ j + 1 # i /\ j + 1 # i - 1 /\ j + 1 # 1 /\ r[j] = s[j + 1]
            /\ (j + 1 = n <=> j = n - 1) /\ (j + 1) - 1 = j /\ (j + 1 = i + 1 <=> j = i)
            /\ (j # 1 => j - 1 \in 1 .. n - 1 /\ (j - 1 < i <=> j = i) /\ (j - 1) + 1 = j)
            /\ (j # n - 1 => j + 1 \in 1 .. n - 1 /\ ~ (j + 1 < i))
        BY <1>2, <1>3, <3>2
      <4>2. /\ h.next[s[j + 1]] = IF j = n - 1 THEN Null ELSE s[(j + 1) + 1]
            /\ h.prev[s[j + 1]] = s[j]
        <5>1. /\ h.next[s[j + 1]] = IF j + 1 = n THEN Null ELSE s[(j + 1) + 1]
              /\ h.prev[s[j + 1]] = IF j + 1 = 1 THEN Null ELSE s[(j + 1) - 1]
          BY <1>2, <4>1 DEF Chained, n
        <5> QED
          BY <4>1, <5>1
      <4>3. g.next[r[j]] = IF j = n - 1 THEN Null ELSE r[j + 1]
        <5>1. g.next[s[j + 1]] = h.next[s[j + 1]]
          BY <1>7, <4>1
        <5>2. j # n - 1 => r[j + 1] = s[(j + 1) + 1]
          BY <1>3, <4>1
        <5> QED
          BY <4>1, <4>2, <5>1, <5>2
      <4>4. g.prev[r[j]] = IF j = i THEN before ELSE s[j]
        BY <1>7, <4>1, <4>2
      <4>5. CASE j = i
        BY <1>3, <4>1, <4>3, <4>4, <4>5
      <4>6. CASE j # i
        <5>1. j # 1 /\ r[j - 1] = s[j]
          BY <1>2, <1>3, <3>2, <4>1, <4>6
        <5> QED
          BY <4>3, <4>4, <4>6, <5>1
      <4> QED
        BY <4>5, <4>6
    <3>3. j < i \/ j >= i
      BY <1>2
    <3> QED
      BY <3>1, <3>2, <3>3
  <2>3. DOMAIN r = 1 .. n - 1
    BY <1>3
  <2> QED
    BY <1>3, <2>1, <2>2, <2>3 DEF Chained
<1> QED
  BY <1>7, <1>8 DEF g, r
-----------------------------------------------------------------------------
(* All lists at once *)

\* Every list of heap h is what ls says of it.
Whole(h, ls) == \A l \in Lists : Chained(h, l, ls[l])

\* EachOrderOnce, of the lists ls, the homes hm, the allocated orders al and
\* the order in hand hd.
Listed(ls, hm, al, hd) ==
  \A l \in Lists : /\ OnceEach(ls[l])
                   /\ \A i \in DOMAIN ls[l] :
                        ls[l][i] \in al /\ ls[l][i] # hd /\ hm[ls[l][i]] = l
Kept(ls, hm, al, hd) ==
  \A o \in al : o = hd \/ \E i \in DOMAIN ls[hm[o]] : ls[hm[o]][i] = o
Placed(ls, hm, al, hd) == Listed(ls, hm, al, hd) /\ Kept(ls, hm, al, hd)

LEMMA PlacedIsEachOrderOnce == EachOrderOnce <=> Placed(listed, home, allocated, hand)
BY DEF EachOrderOnce, Placed, Listed, Kept, OnceEach

\* Allocating an order puts it in hand.
LEMMA PlacedNew ==
  ASSUME NEW ls \in [Lists -> Seq(Orders)], NEW hm \in [Orders -> Lists], NEW al \in SUBSET Orders,
         Placed(ls, hm, al, Null), NEW o \in Orders \ al, NEW l \in Lists
  PROVE  Placed(ls, [hm EXCEPT ![o] = l], al \cup {o}, o)
<1>1. \A m \in Lists : \A i \in DOMAIN ls[m] : ls[m][i] \in Orders
  OBVIOUS
<1>2. Null \notin Orders
  BY OrderListsAssumption
<1>3. Listed(ls, [hm EXCEPT ![o] = l], al \cup {o}, o)
  BY <1>1 DEF Placed, Listed
<1>4. Kept(ls, [hm EXCEPT ![o] = l], al \cup {o}, o)
  BY <1>2 DEF Placed, Kept
<1> QED
  BY <1>3, <1>4 DEF Placed

\* Freeing the order in hand leaves no hand.
LEMMA PlacedDrop ==
  ASSUME NEW ls \in [Lists -> Seq(Orders)], NEW hm \in [Orders -> Lists], NEW al \in SUBSET Orders,
         NEW hd, Placed(ls, hm, al, hd)
  PROVE  Placed(ls, hm, al \ {hd}, Null)
<1>1. \A m \in Lists : \A i \in DOMAIN ls[m] : ls[m][i] # Null
  BY OrderListsAssumption
<1>2. Listed(ls, hm, al \ {hd}, Null)
  BY <1>1 DEF Placed, Listed
<1>3. Kept(ls, hm, al \ {hd}, Null)
  BY DEF Placed, Kept
<1> QED
  BY <1>2, <1>3 DEF Placed

\* Putting the order in hand at the end of its list leaves no hand.
LEMMA PlacedAppend ==
  ASSUME NEW ls \in [Lists -> Seq(Orders)], NEW hm \in [Orders -> Lists], NEW al \in SUBSET Orders,
         NEW o \in al, Placed(ls, hm, al, o)
  PROVE  Placed([ls EXCEPT ![hm[o]] = Append(@, o)], hm, al, Null)
<1> DEFINE l == hm[o]  r == Append(ls[l], o)  lt == [ls EXCEPT ![l] = Append(@, o)]
<1>1. l \in Lists /\ ls[l] \in Seq(Orders) /\ Null \notin Orders
  BY OrderListsAssumption
<1>2. lt[l] = r /\ \A m \in Lists \ {l} : lt[m] = ls[m]
  BY <1>1
<1>3. /\ DOMAIN ls[l] \subseteq DOMAIN r /\ Len(ls[l]) + 1 \in DOMAIN r /\ r[Len(ls[l]) + 1] = o
      /\ \A i \in DOMAIN ls[l] : r[i] = ls[l][i]
      /\ \A i \in DOMAIN r : i = Len(ls[l]) + 1 \/ i \in DOMAIN ls[l]
  BY <1>1
<1>4. \A m \in Lists : \A i \in DOMAIN ls[m] : ls[m][i] \in Orders
  OBVIOUS
<1> HIDE DEF lt, r
<1>5. OnceEach(r)
  <2> SUFFICES ASSUME NEW i \in DOMAIN r, NEW j \in DOMAIN r, r[i] = r[j] PROVE i = j
    BY DEF OnceEach
  <2>1. OnceEach(ls[l]) /\ \A k \in DOMAIN ls[l] : ls[l][k] # o
    BY <1>1 DEF Placed, Listed
  <2>2. CASE i \in DOMAIN ls[l] /\ j \in DOMAIN ls[l]
    BY <1>3, <2>1, <2>2 DEF OnceEach
  <2>3. CASE i = Len(ls[l]) + 1 \/ j = Len(ls[l]) + 1
    BY <1>3, <2>1, <2>3
  <2> QED
    BY <1>3, <2>2, <2>3
<1>6. ASSUME NEW i \in DOMAIN r PROVE r[i] \in al /\ r[i] # Null /\ hm[r[i]] = l
  <2>1. CASE i \in DOMAIN ls[l]
    BY <1>1, <1>3, <2>1 DEF Placed, Listed
  <2>2. CASE i = Len(ls[l]) + 1
    BY <1>1, <1>3, <2>2
  <2> QED
    BY <1>3, <2>1, <2>2
<1>7. Listed(lt, hm, al, Null)
  <2> SUFFICES ASSUME NEW m \in Lists
               PROVE  /\ OnceEach(lt[m])
                      /\ \A i \in DOMAIN lt[m] : lt[m][i] \in al /\ lt[m][i] # Null /\ hm[lt[m][i]] = m
    BY DEF Listed
  <2>1. CASE m = l
    BY <1>2, <1>5, <1>6, <2>1
  <2>2. CASE m # l
    BY <1>1, <1>2, <1>4, <2>2 DEF Placed, Listed
  <2> QED
    BY <2>1, <2>2
<1>8. Kept(lt, hm, al, Null)
  <2> SUFFICES ASSUME NEW u \in al PROVE \E i \in DOMAIN lt[hm[u]] : lt[hm[u]][i] = u
    BY DEF Kept
  <2>1. CASE u = o
    BY <1>2, <1>3, <2>1
  <2>2. CASE u # o
    <3>1. PICK i \in DOMAIN ls[hm[u]] : ls[hm[u]][i] = u
      BY <2>2 DEF Placed, Kept
    <3>2. CASE hm[u] = l
      BY <1>2, <1>3, <3>1, <3>2
    <3>3. CASE hm[u] # l
      BY <1>2, <3>1, <3>3
    <3> QED
      BY <3>2, <3>3
  <2> QED
    BY <2>1, <2>2
<1> QED
  BY <1>7, <1>8 DEF Placed, lt

\* What is in a sequence without one of its elements: all the others.
LEMMA WithoutElements ==
  ASSUME NEW s \in Seq(Orders), OnceEach(s), NEW i \in DOMAIN s
  PROVE  /\ OnceEach(Without(s, s[i]))
         /\ \A j \in DOMAIN Without(s, s[i]) :
              /\ Without(s, s[i])[j] # s[i]
              /\ \E k \in DOMAIN s : Without(s, s[i])[j] = s[k]
         /\ \A k \in DOMAIN s : k # i => \E j \in DOMAIN Without(s, s[i]) : Without(s, s[i])[j] = s[k]
<1> DEFINE r == Without(s, s[i])  n == Len(s)  at(j) == IF j < i THEN j ELSE j + 1
<1>1. n \in Nat /\ i \in 1 .. n /\ DOMAIN s = 1 .. n
  OBVIOUS
<1>2. DOMAIN r = 1 .. n - 1 /\ \A j \in 1 .. n - 1 : r[j] = s[at(j)]
  BY <1>1, WithoutFacts
<1> HIDE DEF n, r
<1>3. /\ \A j \in 1 .. n - 1 : at(j) \in 1 .. n /\ at(j) # i
      /\ \A j, k \in 1 .. n - 1 : at(j) = at(k) => j = k
  BY <1>1
<1>4. ASSUME NEW k \in 1 .. n, k # i PROVE \E j \in 1 .. n - 1 : at(j) = k
  <2>1. CASE k < i
    BY <1>1, <2>1
  <2>2. CASE k > i
    <3>1. k - 1 \in 1 .. n - 1 /\ at(k - 1) = k
      BY <1>1, <2>2
    <3> QED
      BY <3>1
  <2> QED
    BY <1>1, <1>4, <2>1, <2>2
<1> HIDE DEF at
<1>5. OnceEach(r)
  BY <1>1, <1>2, <1>3 DEF OnceEach
<1>6. \A j \in DOMAIN r : r[j] # s[i] /\ \E k \in DOMAIN s : r[j] = s[k]
  BY <1>1, <1>2, <1>3 DEF OnceEach
<1>7. \A k \in DOMAIN s : k # i => \E j \in DOMAIN r : r[j] = s[k]
  BY <1>1, <1>2, <1>4
<1> QED
  BY <1>5, <1>6, <1>7 DEF r

\* Taking an order out of its list and freeing it.
LEMMA PlacedDiscard ==
  ASSUME NEW ls \in [Lists -> Seq(Orders)], NEW hm \in [Orders -> Lists], NEW al \in SUBSET Orders,
         NEW hd, Placed(ls, hm, al, hd), NEW l \in Lists, NEW i \in DOMAIN ls[l]
  PROVE  /\ [ls EXCEPT ![l] = Without(@, ls[l][i])] \in [Lists -> Seq(Orders)]
         /\ Placed([ls EXCEPT ![l] = Without(@, ls[l][i])], hm, al \ {ls[l][i]}, hd)
<1> DEFINE o == ls[l][i]  r == Without(ls[l], o)  lt == [ls EXCEPT ![l] = Without(@, o)]
<1>1. /\ ls[l] \in Seq(Orders) /\ OnceEach(ls[l]) /\ o \in Orders /\ hm[o] = l
      /\ \A m \in Lists : \A k \in DOMAIN ls[m] : ls[m][k] \in al /\ ls[m][k] # hd /\ hm[ls[m][k]] = m
  BY DEF Placed, Listed
<1>2. r \in Seq(Orders)
  BY <1>1, WithoutFacts
<1>3. /\ OnceEach(r)
      /\ \A j \in DOMAIN r : r[j] # o /\ \E k \in DOMAIN ls[l] : r[j] = ls[l][k]
      /\ \A k \in DOMAIN ls[l] : k # i => \E j \in DOMAIN r : r[j] = ls[l][k]
  BY <1>1, WithoutElements
<1>4. lt[l] = r /\ (\A m \in Lists \ {l} : lt[m] = ls[m]) /\ lt \in [Lists -> Seq(Orders)]
  BY <1>2
<1> HIDE DEF r, lt
<1>5. Listed(lt, hm, al \ {o}, hd)
  <2> SUFFICES ASSUME NEW m \in Lists
               PROVE  /\ OnceEach(lt[m])
                      /\ \A k \in DOMAIN lt[m] :
                           lt[m][k] \in al \ {o} /\ lt[m][k] # hd /\ hm[lt[m][k]] = m
    BY DEF Listed
  <2>1. CASE m = l
    BY <1>1, <1>3, <1>4, <2>1
  <2>2. CASE m # l
    BY <1>1, <1>4, <2>2 DEF Placed, Listed
  <2> QED
    BY <2>1, <2>2
<1>6. Kept(lt, hm, al \ {o}, hd)
  <2> SUFFICES ASSUME NEW u \in al \ {o}, u # hd PROVE \E k \in DOMAIN lt[hm[u]] : lt[hm[u]][k] = u
    BY DEF Kept
  <2>1. PICK k \in DOMAIN ls[hm[u]] : ls[hm[u]][k] = u
    BY DEF Placed, Kept
  <2>2. CASE hm[u] = l
    <3>1. k \in DOMAIN ls[l] /\ ls[l][k] = u /\ k # i
      BY <2>1, <2>2
    <3>2. PICK j \in DOMAIN r : r[j] = ls[l][k]
      BY <1>3, <3>1
    <3> QED
      BY <1>4, <2>2, <3>1, <3>2
  <2>3. CASE hm[u] # l
    BY <1>4, <2>1, <2>3
  <2> QED
    BY <2>2, <2>3
<1> QED
  BY <1>4, <1>5, <1>6 DEF Placed, lt

\* A change of pointers that no list holds disturbs none.
LEMMA WholeElsewhere ==
  ASSUME NEW h \in Heap, NEW g \in Heap, NEW ls \in [Lists -> Seq(Orders)], Whole(h, ls),
         NEW o \in Orders, \A l \in Lists : \A i \in DOMAIN ls[l] : ls[l][i] # o,
         \A m \in Lists : g.head[m] = h.head[m] /\ g.tail[m] = h.tail[m],
         \A u \in Orders : u # o => g.next[u] = h.next[u] /\ g.prev[u] = h.prev[u]
  PROVE  Whole(g, ls)
<1> SUFFICES ASSUME NEW l \in Lists PROVE Chained(g, l, ls[l])
  BY DEF Whole
<1>1. ls[l] \in Seq(Orders) /\ Chained(h, l, ls[l]) /\ g.head[l] = h.head[l] /\ g.tail[l] = h.tail[l]
  BY DEF Whole
<1>2. \A i \in DOMAIN ls[l] : g.next[ls[l][i]] = h.next[ls[l][i]] /\ g.prev[ls[l][i]] = h.prev[ls[l][i]]
  BY <1>1
<1> QED
  BY <1>1, <1>2, ChainedElsewhere

LEMMA WholeCalloc ==
  ASSUME NEW h \in Heap, NEW ls \in [Lists -> Seq(Orders)], Whole(h, ls),
         NEW o \in Orders, \A l \in Lists : \A i \in DOMAIN ls[l] : ls[l][i] # o
  PROVE  Calloc(h, o) \in Heap /\ Whole(Calloc(h, o), ls)
<1> DEFINE g == Calloc(h, o)
<1>1. h.next \in [Orders -> Pointer] /\ h.prev \in [Orders -> Pointer]
  BY DEF Heap
<1>2. /\ g \in Heap /\ g.head = h.head /\ g.tail = h.tail
      /\ g.next = [h.next EXCEPT ![o] = Null] /\ g.prev = [h.prev EXCEPT ![o] = Null]
  BY DEF Calloc, Heap, Pointer
<1> HIDE DEF g
<1>3. \A m \in Lists : g.head[m] = h.head[m] /\ g.tail[m] = h.tail[m]
  BY <1>2
<1>4. \A u \in Orders : u # o => g.next[u] = h.next[u] /\ g.prev[u] = h.prev[u]
  BY <1>1, <1>2
<1>5. g \in Heap
  BY <1>2
<1>6. Whole(g, ls)
  BY <1>3, <1>4, <1>5, WholeElsewhere
<1> QED
  BY <1>5, <1>6 DEF g

LEMMA WholeFree ==
  ASSUME NEW h \in Heap, NEW ls \in [Lists -> Seq(Orders)], Whole(h, ls),
         NEW o \in Orders, \A l \in Lists : \A i \in DOMAIN ls[l] : ls[l][i] # o
  PROVE  Free(h, o) \in Heap /\ Whole(Free(h, o), ls)
<1> DEFINE g == Free(h, o)
<1>1. h.next \in [Orders -> Pointer] /\ h.prev \in [Orders -> Pointer]
  BY DEF Heap
<1>2. /\ g \in Heap /\ g.head = h.head /\ g.tail = h.tail
      /\ g.next = [h.next EXCEPT ![o] = Dangling] /\ g.prev = [h.prev EXCEPT ![o] = Dangling]
  BY DEF Free, Heap, Pointer
<1> HIDE DEF g
<1>3. \A m \in Lists : g.head[m] = h.head[m] /\ g.tail[m] = h.tail[m]
  BY <1>2
<1>4. \A u \in Orders : u # o => g.next[u] = h.next[u] /\ g.prev[u] = h.prev[u]
  BY <1>1, <1>2
<1>5. g \in Heap
  BY <1>2
<1>6. Whole(g, ls)
  BY <1>3, <1>4, <1>5, WholeElsewhere
<1> QED
  BY <1>5, <1>6 DEF g

\* The operation on one list, and what it leaves of the others.
LEMMA WholeAppend ==
  ASSUME NEW h \in Heap, NEW ls \in [Lists -> Seq(Orders)], Whole(h, ls),
         NEW hm, NEW al, NEW o \in Orders, Listed(ls, hm, al, o), NEW l \in Lists
  PROVE  AddToTail(h, o, l) \in Heap /\ Whole(AddToTail(h, o, l), [ls EXCEPT ![l] = Append(@, o)])
<1> DEFINE g == AddToTail(h, o, l)  lt == [ls EXCEPT ![l] = Append(@, o)]
<1>1. ls[l] \in Seq(Orders) /\ Chained(h, l, ls[l]) /\ OnceEach(ls[l]) /\ \A i \in DOMAIN ls[l] : ls[l][i] # o
  BY DEF Whole, Listed
<1>2. /\ g \in Heap /\ Chained(g, l, Append(ls[l], o))
      /\ \A m \in Lists \ {l} : g.head[m] = h.head[m] /\ g.tail[m] = h.tail[m]
      /\ \A u \in Orders : u # o /\ (\A i \in DOMAIN ls[l] : ls[l][i] # u) =>
           g.next[u] = h.next[u] /\ g.prev[u] = h.prev[u]
  BY <1>1, AddToTailChains
<1>3. lt[l] = Append(ls[l], o) /\ \A m \in Lists \ {l} : lt[m] = ls[m]
  OBVIOUS
<1> HIDE DEF g, lt
<1>4. ASSUME NEW m \in Lists \ {l} PROVE Chained(g, m, ls[m])
  <2>1. ls[m] \in Seq(Orders) /\ Chained(h, m, ls[m])
    BY DEF Whole
  <2>2. \A k \in DOMAIN ls[m] :
          ls[m][k] \in Orders /\ ls[m][k] # o /\ \A i \in DOMAIN ls[l] : ls[l][i] # ls[m][k]
    BY <2>1 DEF Listed
  <2> QED
    BY <1>2, <2>1, <2>2, ChainedElsewhere
<1>5. Whole(g, lt)
  BY <1>2, <1>3, <1>4 DEF Whole
<1> QED
  BY <1>2, <1>5 DEF g, lt

LEMMA WholeDiscard ==
  ASSUME NEW h \in Heap, NEW ls \in [Lists -> Seq(Orders)], Whole(h, ls),
         NEW hm, NEW al, NEW hd, Listed(ls, hm, al, hd), NEW l \in Lists, NEW i \in DOMAIN ls[l]
  PROVE  /\ Free(DeleteOrder(h, ls[l][i], l), ls[l][i]) \in Heap
         /\ Whole(Free(DeleteOrder(h, ls[l][i], l), ls[l][i]), [ls EXCEPT ![l] = Without(@, ls[l][i])])
<1> DEFINE o == ls[l][i]  r == Without(ls[l], o)  g == DeleteOrder(h, o, l)
           lt == [ls EXCEPT ![l] = Without(@, o)]
<1>1. ls[l] \in Seq(Orders) /\ Chained(h, l, ls[l]) /\ OnceEach(ls[l]) /\ o \in Orders
  BY DEF Whole, Listed
<1>2. /\ g \in Heap /\ Chained(g, l, r)
      /\ \A m \in Lists \ {l} : g.head[m] = h.head[m] /\ g.tail[m] = h.tail[m]
      /\ \A u \in Orders : (\A j \in DOMAIN ls[l] : ls[l][j] # u) =>
           g.next[u] = h.next[u] /\ g.prev[u] = h.prev[u]
  BY <1>1, DeleteOrderChains
<1>3. r \in Seq(Orders) /\ \A j \in DOMAIN r : r[j] # o
  BY <1>1, WithoutFacts, WithoutElements
<1>4. lt[l] = r /\ (\A m \in Lists \ {l} : lt[m] = ls[m]) /\ lt \in [Lists -> Seq(Orders)]
  BY <1>3
<1> HIDE DEF g, lt, r
<1>5. ASSUME NEW m \in Lists \ {l} PROVE Chained(g, m, ls[m]) /\ \A k \in DOMAIN ls[m] : ls[m][k] # o
  <2>1. ls[m] \in Seq(Orders) /\ Chained(h, m, ls[m])
    BY DEF Whole
  <2>2. \A k \in DOMAIN ls[m] : ls[m][k] \in Orders /\ \A j \in DOMAIN ls[l] : ls[l][j] # ls[m][k]
    BY <2>1 DEF Listed
  <2> QED
    BY <1>2, <2>1, <2>2, ChainedElsewhere
<1>6. Whole(g, lt)
  BY <1>2, <1>4, <1>5 DEF Whole
<1>7. ASSUME NEW m \in Lists PROVE \A k \in DOMAIN lt[m] : lt[m][k] # o
  <2>1. CASE m = l
    BY <1>3, <1>4, <2>1
  <2>2. CASE m # l
    BY <1>4, <1>5, <2>2
  <2> QED
    BY <2>1, <2>2
<1>8. Free(g, o) \in Heap /\ Whole(Free(g, o), lt)
  BY <1>1, <1>2, <1>4, <1>6, <1>7, WholeFree
<1> QED
  BY <1>8 DEF g, lt
-----------------------------------------------------------------------------
(* The inductive invariant *)

\* The order in hand is allocated.
HandAllocated == hand \in allocated \cup {Null}

\* Where free_orders is: the orders that are left are still chained forward,
\* the lists to come start where they did, and of the lists already visited
\* only that of temp is not empty, and temp is its first order.
Walking ==
  IF closing
  THEN /\ hand = Null
       /\ \A l \in Lists : \A i \in DOMAIN listed[l] :
            heap.next[listed[l][i]] = IF i = Len(listed[l]) THEN Null ELSE listed[l][i + 1]
       /\ \A l \in todo : heap.head[l] = IF listed[l] = <<>> THEN Null ELSE listed[l][1]
       /\ \A l \in Lists \ todo : listed[l] # <<>> => temp = listed[l][1]
       /\ temp # Null => home[temp] \notin todo /\ listed[home[temp]] # <<>>
  ELSE temp = Null /\ todo = {}

IInv == TypeOK /\ HandAllocated /\ ChainsMatchLists /\ EachOrderOnce /\ Walking

\* The searches return an order of the list they search.
LEMMA FoundIsListed ==
  ASSUME TypeOK, NEW l \in Lists, Chained(heap, l, listed[l]), NEW o \in Found(l)
  PROVE  \E i \in DOMAIN listed[l] : o = listed[l][i]
<1> DEFINE s == listed[l]  R == {s[i] : i \in DOMAIN s}
<1>1. s \in Seq(Orders) /\ Null \notin Orders
  BY OrderListsAssumption DEF TypeOK
<1>2. Len(s) \in Nat /\ DOMAIN s = 1 .. Len(s)
  BY <1>1
<1>3. R \in SUBSET Orders
  BY <1>1
<1>4. heap.head[l] \in Orders => heap.head[l] \in R
  <2>1. CASE s = <<>>
    BY <1>1, <2>1 DEF Chained
  <2>2. CASE s # <<>>
    <3>1. 1 \in DOMAIN s
      BY <1>1, <2>2
    <3> QED
      BY <2>2, <3>1 DEF Chained
  <2> QED
    BY <2>1, <2>2
<1>5. \A r \in R : heap.next[r] \in Orders => heap.next[r] \in R
  <2> SUFFICES ASSUME NEW i \in DOMAIN s, heap.next[s[i]] \in Orders PROVE heap.next[s[i]] \in R
    OBVIOUS
  <2>1. heap.next[s[i]] = IF i = Len(s) THEN Null ELSE s[i + 1]
    BY DEF Chained
  <2>2. i # Len(s) /\ heap.next[s[i]] = s[i + 1]
    BY <1>1, <2>1
  <2>3. i + 1 \in DOMAIN s
    BY <1>2, <2>2
  <2> QED
    BY <2>2, <2>3
<1> HIDE DEF R
<1>6. o \in R
  BY <1>3, <1>4, <1>5 DEF Found
<1> QED
  BY <1>6 DEF R

\* What every handler starts from.
LEMMA BeforeHandlers ==
  ASSUME IInv, ~ closing
  PROVE  /\ heap \in Heap /\ allocated \in SUBSET Orders /\ home \in [Orders -> Lists]
         /\ listed \in [Lists -> Seq(Orders)] /\ temp = Null /\ todo = {}
         /\ Whole(heap, listed) /\ Placed(listed, home, allocated, hand)
         /\ Listed(listed, home, allocated, hand)
         /\ \A l \in Lists : \A o \in Found(l) :
              o \in Orders /\ home[o] = l /\ o \in allocated /\ \E i \in DOMAIN listed[l] : o = listed[l][i]
<1>1. /\ heap \in Heap /\ allocated \in SUBSET Orders /\ home \in [Orders -> Lists]
      /\ listed \in [Lists -> Seq(Orders)]
  BY DEF IInv, TypeOK
<1>2. temp = Null /\ todo = {}
  BY DEF IInv, Walking
<1>3. Whole(heap, listed)
  BY DEF IInv, ChainsMatchLists, Whole
<1>4. Placed(listed, home, allocated, hand)
  BY PlacedIsEachOrderOnce DEF IInv
<1>5. Listed(listed, home, allocated, hand)
  BY <1>4 DEF Placed
<1>6. ASSUME NEW l \in Lists, NEW o \in Found(l)
      PROVE  o \in Orders /\ home[o] = l /\ o \in allocated /\ \E i \in DOMAIN listed[l] : o = listed[l][i]
  <2>1. PICK i \in DOMAIN listed[l] : o = listed[l][i]
    BY <1>3, FoundIsListed DEF IInv, Whole
  <2> QED
    BY <1>1, <1>5, <2>1 DEF Listed
<1> QED
  BY <1>1, <1>2, <1>3, <1>4, <1>5, <1>6

\* What every handler has to establish.
LEMMA AfterHandlers ==
  ASSUME IInv, ~ closing, UNCHANGED release,
         heap' \in Heap, (allocated \subseteq Orders)', (home \in [Orders -> Lists])',
         (hand \in Orders \cup {Null})', (listed \in [Lists -> Seq(Orders)])',
         HandAllocated', Whole(heap', listed'), Placed(listed', home', allocated', hand')
  PROVE  IInv'
<1>1. ~ closing' /\ todo' = {} /\ temp' = Null /\ closing' \in BOOLEAN
  BY DEF IInv, TypeOK, Walking, release
<1>2. TypeOK'
  BY <1>1 DEF TypeOK
<1>3. ChainsMatchLists'
  BY DEF ChainsMatchLists, Whole
<1>4. EachOrderOnce'
  BY DEF EachOrderOnce, Placed, Listed, Kept, OnceEach
<1>5. Walking'
  BY <1>1 DEF Walking
<1> QED
  BY <1>2, <1>3, <1>4, <1>5 DEF IInv
-----------------------------------------------------------------------------
(* One lemma per action *)

LEMMA CreateKeeps ==
  ASSUME IInv, NEW o \in Orders, NEW l \in Lists, Create(o, l) PROVE IInv'
<1> USE BeforeHandlers DEF Create, Idle
<1>1. ~ closing /\ hand = Null /\ o \in Orders \ allocated
  OBVIOUS
<1>2. \A m \in Lists : \A i \in DOMAIN listed[m] : listed[m][i] # o
  BY <1>1 DEF Listed
<1>3. heap' \in Heap /\ Whole(heap', listed)
  BY <1>1, <1>2, WholeCalloc
<1>4. Placed(listed', home', allocated', hand')
  <2>1. /\ allocated \in SUBSET Orders /\ home \in [Orders -> Lists] /\ listed \in [Lists -> Seq(Orders)]
        /\ Placed(listed, home, allocated, Null)
    BY <1>1
  <2>2. Placed(listed, [home EXCEPT ![o] = l], allocated \cup {o}, o)
    BY <1>1, <2>1, PlacedNew
  <2> QED
    BY <2>2
<1>5. (allocated \subseteq Orders)' /\ (home \in [Orders -> Lists])' /\ (hand \in Orders \cup {Null})'
      /\ (listed \in [Lists -> Seq(Orders)])' /\ HandAllocated' /\ listed' = listed
  BY <1>1 DEF HandAllocated
<1> QED
  BY <1>1, <1>3, <1>4, <1>5, AfterHandlers

LEMMA CancelKeeps ==
  ASSUME IInv, NEW l \in Lists, NEW o \in Orders, Cancel(l, o) PROVE IInv'
<1>1. /\ ~ closing /\ hand = Null /\ o \in Found(l)
      /\ heap' = Free(DeleteOrder(heap, o, home[o]), o)
      /\ listed' = [listed EXCEPT ![home[o]] = Without(@, o)]
      /\ allocated' = allocated \ {o} /\ UNCHANGED <<home, hand, release>>
  BY DEF Cancel, Idle, Discard
<1>2. /\ heap \in Heap /\ allocated \in SUBSET Orders /\ home \in [Orders -> Lists]
      /\ listed \in [Lists -> Seq(Orders)]
      /\ Whole(heap, listed) /\ Placed(listed, home, allocated, hand)
      /\ Listed(listed, home, allocated, hand) /\ home[o] = l
  BY <1>1, BeforeHandlers
<1>3. PICK i \in DOMAIN listed[l] : o = listed[l][i]
  BY <1>1, BeforeHandlers
<1>4. heap' \in Heap /\ Whole(heap', listed')
  BY <1>1, <1>2, <1>3, WholeDiscard
<1>5. listed' \in [Lists -> Seq(Orders)] /\ Placed(listed', home, allocated', hand)
  <2>1. /\ [listed EXCEPT ![l] = Without(@, listed[l][i])] \in [Lists -> Seq(Orders)]
        /\ Placed([listed EXCEPT ![l] = Without(@, listed[l][i])], home, allocated \ {listed[l][i]}, hand)
    BY <1>2, PlacedDiscard
  <2> QED
    BY <1>1, <1>2, <1>3, <2>1
<1>6. (allocated \subseteq Orders)' /\ (home \in [Orders -> Lists])' /\ (hand \in Orders \cup {Null})'
      /\ HandAllocated' /\ home' = home /\ hand' = hand
  BY <1>1, <1>2 DEF HandAllocated
<1> QED
  BY <1>1, <1>4, <1>5, <1>6, AfterHandlers

LEMMA AmendKeeps ==
  ASSUME IInv, NEW new \in Orders, NEW l \in Lists, NEW old \in Orders, Amend(new, l, old) PROVE IInv'
<1>1. /\ ~ closing /\ hand = Null /\ new \in Orders \ allocated /\ old \in Found(l)
      /\ heap' = Free(DeleteOrder(Calloc(heap, new), old, home[old]), old)
      /\ listed' = [listed EXCEPT ![home[old]] = Without(@, old)]
      /\ allocated' = (allocated \cup {new}) \ {old}
      /\ home' = [home EXCEPT ![new] = home[old]] /\ hand' = new /\ UNCHANGED release
  BY DEF Amend, Idle, Discard
<1>2. /\ heap \in Heap /\ allocated \in SUBSET Orders /\ home \in [Orders -> Lists]
      /\ listed \in [Lists -> Seq(Orders)]
      /\ Whole(heap, listed) /\ Placed(listed, home, allocated, Null)
      /\ Listed(listed, home, allocated, hand) /\ home[old] = l /\ old \in allocated
  BY <1>1, BeforeHandlers
<1>3. PICK i \in DOMAIN listed[l] : old = listed[l][i]
  BY <1>1, BeforeHandlers
<1> DEFINE h == Calloc(heap, new)  hm == [home EXCEPT ![new] = l]  al == allocated \cup {new}
<1>4. \A m \in Lists : \A j \in DOMAIN listed[m] : listed[m][j] # new
  BY <1>1, <1>2 DEF Listed
<1>5. h \in Heap /\ Whole(h, listed)
  BY <1>1, <1>2, <1>4, WholeCalloc
<1>6. Placed(listed, hm, al, new)
  BY <1>1, <1>2, PlacedNew
<1>7. Listed(listed, hm, al, new) /\ hm \in [Orders -> Lists] /\ al \in SUBSET Orders
  BY <1>1, <1>2, <1>6 DEF Placed
<1>8. heap' = Free(DeleteOrder(h, old, l), old) /\ home' = hm /\ allocated' = al \ {old} /\ hand' = new
      /\ listed' = [listed EXCEPT ![l] = Without(@, old)]
  BY <1>1, <1>2
<1> HIDE DEF h, hm, al
<1>9. heap' \in Heap /\ Whole(heap', listed')
  BY <1>2, <1>3, <1>5, <1>7, <1>8, WholeDiscard
<1>10. listed' \in [Lists -> Seq(Orders)] /\ Placed(listed', hm, al \ {old}, new)
  <2>1. /\ [listed EXCEPT ![l] = Without(@, listed[l][i])] \in [Lists -> Seq(Orders)]
        /\ Placed([listed EXCEPT ![l] = Without(@, listed[l][i])], hm, al \ {listed[l][i]}, new)
    BY <1>2, <1>6, <1>7, PlacedDiscard
  <2> QED
    BY <1>3, <1>8, <2>1
<1>11. (allocated \subseteq Orders)' /\ (home \in [Orders -> Lists])' /\ (hand \in Orders \cup {Null})'
       /\ HandAllocated' /\ Placed(listed', home', allocated', hand')
  BY <1>1, <1>2, <1>7, <1>8, <1>10 DEF HandAllocated
<1> QED
  BY <1>1, <1>9, <1>10, <1>11, AfterHandlers

\* Between two messages, or while closing, there is no hand.
LEMMA HandIsOpen == ASSUME IInv, hand # Null PROVE ~ closing /\ hand \in allocated /\ hand \in Orders
BY DEF IInv, Walking, HandAllocated, TypeOK

LEMMA FillRestingKeeps ==
  ASSUME IInv, NEW o \in Orders, FillResting(o) PROVE IInv'
<1> DEFINE l == Opposite[home[hand]]
<1>1. /\ ~ closing /\ o \in Found(l) /\ hand \in Orders
      /\ heap' = Free(DeleteOrder(heap, o, l), o)
      /\ listed' = [listed EXCEPT ![l] = Without(@, o)]
      /\ allocated' = allocated \ {o} /\ UNCHANGED <<home, hand, release>>
  BY HandIsOpen DEF FillResting, Discard
<1>2. /\ heap \in Heap /\ allocated \in SUBSET Orders /\ home \in [Orders -> Lists]
      /\ listed \in [Lists -> Seq(Orders)]
      /\ Whole(heap, listed) /\ Placed(listed, home, allocated, hand)
      /\ Listed(listed, home, allocated, hand) /\ l \in Lists
  BY <1>1, BeforeHandlers, OrderListsAssumption
<1> HIDE DEF l
<1>3. PICK i \in DOMAIN listed[l] : o = listed[l][i]
  BY <1>1, <1>2, BeforeHandlers
<1>4. heap' \in Heap /\ Whole(heap', listed')
  BY <1>1, <1>2, <1>3, WholeDiscard
<1>5. listed' \in [Lists -> Seq(Orders)] /\ Placed(listed', home, allocated', hand)
  BY <1>1, <1>2, <1>3, PlacedDiscard
<1>6. o # hand
  BY <1>2, <1>3 DEF Listed
<1>7. (allocated \subseteq Orders)' /\ (home \in [Orders -> Lists])' /\ (hand \in Orders \cup {Null})'
      /\ HandAllocated' /\ home' = home /\ hand' = hand
  BY <1>1, <1>2, <1>6 DEF HandAllocated, IInv
<1> QED
  BY <1>1, <1>4, <1>5, <1>7, AfterHandlers

LEMMA FillBothKeeps ==
  ASSUME IInv, NEW o \in Orders, FillBoth(o) PROVE IInv'
<1> DEFINE l == Opposite[home[hand]]  h == Free(heap, hand)
<1>1. /\ ~ closing /\ o \in Found(l) /\ hand \in Orders
      /\ heap' = Free(DeleteOrder(h, o, l), o)
      /\ listed' = [listed EXCEPT ![l] = Without(@, o)]
      /\ allocated' = (allocated \ {hand}) \ {o} /\ hand' = Null /\ UNCHANGED <<home, release>>
  BY HandIsOpen DEF FillBoth, Discard
<1>2. /\ heap \in Heap /\ allocated \in SUBSET Orders /\ home \in [Orders -> Lists]
      /\ listed \in [Lists -> Seq(Orders)]
      /\ Whole(heap, listed) /\ Placed(listed, home, allocated, hand)
      /\ Listed(listed, home, allocated, hand) /\ l \in Lists
  BY <1>1, BeforeHandlers, OrderListsAssumption
<1> HIDE DEF l
<1>3. PICK i \in DOMAIN listed[l] : o = listed[l][i]
  BY <1>1, <1>2, BeforeHandlers
<1>4. \A m \in Lists : \A j \in DOMAIN listed[m] : listed[m][j] # hand
  BY <1>2 DEF Listed
<1>5. h \in Heap /\ Whole(h, listed)
  BY <1>1, <1>2, <1>4, WholeFree
<1>6. Placed(listed, home, allocated \ {hand}, Null) /\ allocated \ {hand} \in SUBSET Orders
  BY <1>2, PlacedDrop
<1>7. Listed(listed, home, allocated \ {hand}, Null)
  BY <1>6 DEF Placed
<1> HIDE DEF h
<1>8. heap' \in Heap /\ Whole(heap', listed')
  BY <1>1, <1>2, <1>3, <1>5, <1>7, WholeDiscard
<1>9. listed' \in [Lists -> Seq(Orders)] /\ Placed(listed', home, allocated', Null)
  BY <1>1, <1>2, <1>3, <1>6, PlacedDiscard
<1>10. (allocated \subseteq Orders)' /\ (home \in [Orders -> Lists])' /\ (hand \in Orders \cup {Null})'
       /\ HandAllocated' /\ Placed(listed', home', allocated', hand')
  BY <1>1, <1>2, <1>9 DEF HandAllocated
<1> QED
  BY <1>1, <1>8, <1>9, <1>10, AfterHandlers

LEMMA FillHandKeeps ==
  ASSUME IInv, FillHand PROVE IInv'
<1>1. /\ ~ closing /\ hand \in Orders /\ heap' = Free(heap, hand)
      /\ allocated' = allocated \ {hand} /\ hand' = Null /\ UNCHANGED <<home, release, listed>>
  BY HandIsOpen DEF FillHand
<1>2. /\ heap \in Heap /\ allocated \in SUBSET Orders /\ home \in [Orders -> Lists]
      /\ listed \in [Lists -> Seq(Orders)]
      /\ Whole(heap, listed) /\ Placed(listed, home, allocated, hand)
      /\ Listed(listed, home, allocated, hand)
  BY <1>1, BeforeHandlers
<1>3. \A m \in Lists : \A j \in DOMAIN listed[m] : listed[m][j] # hand
  BY <1>2 DEF Listed
<1>4. heap' \in Heap /\ Whole(heap', listed)
  BY <1>1, <1>2, <1>3, WholeFree
<1>5. Placed(listed, home, allocated', Null)
  BY <1>1, <1>2, PlacedDrop
<1>6. (allocated \subseteq Orders)' /\ (home \in [Orders -> Lists])' /\ (hand \in Orders \cup {Null})'
      /\ (listed \in [Lists -> Seq(Orders)])' /\ HandAllocated' /\ listed' = listed
      /\ Placed(listed', home', allocated', hand')
  BY <1>1, <1>2, <1>5 DEF HandAllocated
<1> QED
  BY <1>1, <1>4, <1>6, AfterHandlers

LEMMA AddOrderKeeps ==
  ASSUME IInv, AddOrder PROVE IInv'
<1> DEFINE l == home[hand]
<1>1. /\ ~ closing /\ hand \in allocated /\ hand \in Orders
      /\ heap' = AddToTail(heap, hand, l) /\ listed' = [listed EXCEPT ![l] = Append(@, hand)]
      /\ hand' = Null /\ UNCHANGED <<allocated, home, release>>
  BY HandIsOpen DEF AddOrder
<1>2. /\ heap \in Heap /\ allocated \in SUBSET Orders /\ home \in [Orders -> Lists]
      /\ listed \in [Lists -> Seq(Orders)]
      /\ Whole(heap, listed) /\ Placed(listed, home, allocated, hand)
      /\ Listed(listed, home, allocated, hand) /\ l \in Lists
  BY <1>1, BeforeHandlers
<1>3. Placed(listed', home, allocated, Null)
  BY <1>1, <1>2, PlacedAppend
<1>4. heap' \in Heap /\ Whole(heap', listed')
  BY <1>1, <1>2, WholeAppend
<1>5. listed' \in [Lists -> Seq(Orders)]
  BY <1>1, <1>2
<1>6. (allocated \subseteq Orders)' /\ (home \in [Orders -> Lists])' /\ (hand \in Orders \cup {Null})'
      /\ HandAllocated' /\ Placed(listed', home', allocated', hand')
  BY <1>1, <1>2, <1>3 DEF HandAllocated
<1> QED
  BY <1>1, <1>4, <1>5, <1>6, AfterHandlers

\* Shut-down.  A freed list keeps no order; the walk frees first orders only.
LEMMA FreeOrdersKeeps ==
  ASSUME IInv, FreeOrders PROVE IInv'
<1>1. /\ ~ closing /\ hand = Null /\ closing' = TRUE /\ todo' = Lists
      /\ UNCHANGED <<heap, allocated, home, hand, temp, listed>>
  BY DEF FreeOrders, Idle
<1>2. temp = Null /\ Whole(heap, listed)
  BY <1>1, BeforeHandlers
<1>3. TypeOK' /\ HandAllocated' /\ EachOrderOnce' /\ ChainsMatchLists'
  BY <1>1 DEF IInv, TypeOK, HandAllocated, EachOrderOnce, ChainsMatchLists
<1>4. Walking'
  BY <1>1, <1>2 DEF Walking, Whole, Chained
<1> QED
  BY <1>3, <1>4 DEF IInv

LEMMA FreeListKeeps ==
  ASSUME IInv, NEW l \in Lists, FreeList(l) PROVE IInv'
<1>1. /\ closing /\ temp = Null /\ l \in todo /\ temp' = heap.head[l] /\ todo' = todo \ {l}
      /\ UNCHANGED <<heap, allocated, home, hand, closing, listed>>
  BY DEF FreeList
<1>2. /\ hand = Null /\ Null \notin Orders /\ listed \in [Lists -> Seq(Orders)] /\ todo \subseteq Lists
      /\ \A m \in Lists : \A i \in DOMAIN listed[m] :
           heap.next[listed[m][i]] = IF i = Len(listed[m]) THEN Null ELSE listed[m][i + 1]
      /\ \A m \in todo : heap.head[m] = IF listed[m] = <<>> THEN Null ELSE listed[m][1]
      /\ \A m \in Lists \ todo : listed[m] # <<>> => temp = listed[m][1]
  BY <1>1, OrderListsAssumption DEF IInv, TypeOK, Walking
<1>3. \A m \in Lists : listed[m] # <<>> => 1 \in DOMAIN listed[m] /\ listed[m][1] \in Orders
  BY <1>2
<1>4. \A m \in Lists : listed[m] # <<>> => home[listed[m][1]] = m
  BY <1>3 DEF IInv, EachOrderOnce
<1>5. \A m \in Lists \ todo : listed[m] = <<>>
  BY <1>1, <1>2, <1>3
<1>6. temp' = IF listed[l] = <<>> THEN Null ELSE listed[l][1]
  BY <1>1, <1>2
<1>7. TypeOK'
  BY <1>1, <1>2, <1>3, <1>6 DEF IInv, TypeOK
<1>8. HandAllocated' /\ EachOrderOnce' /\ ChainsMatchLists'
  BY <1>1 DEF IInv, HandAllocated, EachOrderOnce, ChainsMatchLists
<1>9. Walking'
  <2>1. \A m \in Lists \ todo' : listed[m] # <<>> => m = l
    BY <1>1, <1>5
  <2>2. temp' # Null => home[temp'] = l /\ listed[l] # <<>>
    BY <1>4, <1>6
  <2>3. \A m \in Lists \ todo' : listed[m] # <<>> => temp' = listed[m][1]
    BY <1>6, <2>1
  <2>4. temp' # Null => home[temp'] \notin todo' /\ listed[home[temp']] # <<>>
    BY <1>1, <2>2
  <2> QED
    BY <1>1, <1>2, <2>3, <2>4 DEF Walking
<1> QED
  BY <1>7, <1>8, <1>9 DEF IInv

LEMMA FreeOrderKeeps ==
  ASSUME IInv, FreeOrder PROVE IInv'
<1> DEFINE l == home[temp]  s == listed[l]  r == Without(s, temp)
<1>1. /\ temp \in Orders /\ temp' = heap.next[temp] /\ heap' = Free(heap, temp)
      /\ allocated' = allocated \ {temp} /\ listed' = [listed EXCEPT ![l] = Without(@, temp)]
      /\ UNCHANGED <<home, hand, closing, todo>>
  BY DEF FreeOrder
<1>2. /\ temp # Null /\ heap \in Heap /\ allocated \in SUBSET Orders /\ home \in [Orders -> Lists]
      /\ listed \in [Lists -> Seq(Orders)] /\ todo \subseteq Lists /\ l \in Lists
      /\ closing
  BY <1>1, OrderListsAssumption DEF IInv, TypeOK, Walking
<1>3. /\ hand = Null
      /\ \A m \in Lists : \A i \in DOMAIN listed[m] :
           heap.next[listed[m][i]] = IF i = Len(listed[m]) THEN Null ELSE listed[m][i + 1]
      /\ \A m \in todo : heap.head[m] = IF listed[m] = <<>> THEN Null ELSE listed[m][1]
      /\ \A m \in Lists \ todo : listed[m] # <<>> => temp = listed[m][1]
      /\ l \notin todo /\ s # <<>> /\ temp = s[1]
  BY <1>2 DEF IInv, Walking
<1>4. Placed(listed, home, allocated, Null) /\ Listed(listed, home, allocated, Null)
  BY <1>3, PlacedIsEachOrderOnce DEF IInv, Placed
<1>5. s \in Seq(Orders) /\ OnceEach(s) /\ 1 \in DOMAIN s /\ Len(s) \in Nat /\ DOMAIN s = 1 .. Len(s)
  BY <1>2, <1>3, <1>4 DEF Listed
<1>6. /\ r \in Seq(Orders) /\ Len(r) = Len(s) - 1
      /\ \A j \in 1 .. Len(s) - 1 : r[j] = s[j + 1]
  <2>1. /\ Without(s, s[1]) \in Seq(Orders) /\ Len(Without(s, s[1])) = Len(s) - 1
        /\ \A j \in 1 .. Len(s) - 1 : Without(s, s[1])[j] = IF j < 1 THEN s[j] ELSE s[j + 1]
    BY <1>5, WithoutFacts
  <2>2. \A j \in 1 .. Len(s) - 1 : ~ (j < 1)
    BY <1>5
  <2> QED
    BY <1>3, <2>1, <2>2
<1>7. /\ listed' \in [Lists -> Seq(Orders)] /\ Placed(listed', home, allocated', Null)
      /\ listed'[l] = r /\ \A m \in Lists \ {l} : listed'[m] = listed[m]
  <2>1. /\ [listed EXCEPT ![l] = Without(@, s[1])] \in [Lists -> Seq(Orders)]
        /\ Placed([listed EXCEPT ![l] = Without(@, s[1])], home, allocated \ {s[1]}, Null)
    BY <1>2, <1>4, <1>5, PlacedDiscard
  <2> QED
    BY <1>1, <1>2, <1>3, <2>1
<1>8. /\ heap' \in Heap /\ heap'.head = heap.head
      /\ \A u \in Orders : u # temp => heap'.next[u] = heap.next[u]
  BY <1>1, <1>2 DEF Free, Heap, Pointer
<1> HIDE DEF r
<1>9. temp' = IF Len(s) = 1 THEN Null ELSE s[2]
  <2>1. heap.next[s[1]] = IF 1 = Len(s) THEN Null ELSE s[1 + 1]
    BY <1>2, <1>3, <1>5
  <2> QED
    BY <1>1, <1>3, <2>1
<1>10. temp' = IF r = <<>> THEN Null ELSE r[1]
  <2>1. CASE Len(s) = 1
    BY <1>6, <1>9, <2>1
  <2>2. CASE Len(s) # 1
    <3>1. Len(s) - 1 \in Nat /\ Len(s) - 1 > 0 /\ 1 \in 1 .. Len(s) - 1
      <4> DEFINE n == Len(s)
      <4>1. n \in Nat /\ n # 0 /\ n # 1
        BY <1>3, <1>5, <2>2
      <4> HIDE DEF n
      <4>2. n - 1 \in Nat /\ n - 1 > 0 /\ 1 \in 1 .. n - 1
        BY <4>1
      <4> QED
        BY <4>2 DEF n
    <3>2. r # <<>>
      BY <1>6, <3>1
    <3>3. r[1] = s[2]
      BY <1>6, <3>1
    <3> QED
      BY <1>9, <2>2, <3>2, <3>3
  <2> QED
    BY <2>1, <2>2
<1>11. r # <<>> => 1 \in DOMAIN r /\ r[1] \in Orders /\ home[r[1]] = l
  <2> SUFFICES ASSUME r # <<>> PROVE 1 \in DOMAIN r /\ r[1] \in Orders /\ home[r[1]] = l
    OBVIOUS
  <2>1. 1 \in DOMAIN r /\ r[1] \in Orders
    BY <1>6
  <2>2. Listed(listed', home, allocated', Null)
    BY <1>7 DEF Placed
  <2> QED
    BY <1>2, <1>7, <2>1, <2>2 DEF Listed
<1>12. TypeOK'
  BY <1>1, <1>2, <1>7, <1>8, <1>10, <1>11 DEF IInv, TypeOK
<1>13. EachOrderOnce'
  <2>1. Placed(listed', home', allocated', hand')
    BY <1>1, <1>3, <1>7
  <2> QED
    BY <2>1 DEF EachOrderOnce, Placed, Listed, Kept, OnceEach
<1>14. HandAllocated' /\ ChainsMatchLists'
  BY <1>1, <1>2, <1>3 DEF HandAllocated, ChainsMatchLists
<1>15. Walking'
  <2>1. ASSUME NEW m \in Lists, NEW i \in DOMAIN listed'[m]
        PROVE  heap'.next[listed'[m][i]] = IF i = Len(listed'[m]) THEN Null ELSE listed'[m][i + 1]
    <3>1. CASE m = l
      <4>1. i \in 1 .. Len(s) - 1 /\ listed'[m] = r
        BY <1>6, <1>7, <2>1, <3>1
      <4>2. /\ i + 1 \in DOMAIN s /\ r[i] = s[i + 1] /\ i + 1 # 1
            /\ (i = Len(r) <=> i + 1 = Len(s)) /\ (i # Len(r) => i + 1 \in 1 .. Len(s) - 1)
        BY <1>5, <1>6, <4>1
      <4>3. s[i + 1] # temp /\ s[i + 1] \in Orders
        BY <1>3, <1>5, <4>2 DEF OnceEach
      <4>4. heap.next[s[i + 1]] = IF i + 1 = Len(s) THEN Null ELSE s[(i + 1) + 1]
        BY <1>2, <1>3, <4>2
      <4>5. i # Len(r) => r[i + 1] = s[(i + 1) + 1]
        BY <1>6, <4>2
      <4> QED
        BY <1>8, <4>1, <4>2, <4>3, <4>4, <4>5
    <3>2. CASE m # l
      <4>1. listed'[m] = listed[m] /\ i \in DOMAIN listed[m]
        BY <1>7, <2>1, <3>2
      <4>2. listed[m][i] \in Orders /\ listed[m][i] # temp
        BY <1>2, <1>4, <3>2, <4>1 DEF Listed
      <4> QED
        BY <1>3, <1>8, <4>1, <4>2
    <3> QED
      BY <3>1, <3>2
  <2>2. \A m \in todo' : heap'.head[m] = IF listed'[m] = <<>> THEN Null ELSE listed'[m][1]
    <3>1. \A m \in todo : m \in Lists \ {l}
      BY <1>2, <1>3
    <3> QED
      BY <1>1, <1>3, <1>7, <1>8, <3>1
  <2>3. \A m \in Lists \ todo' : listed'[m] # <<>> => temp' = listed'[m][1]
    <3> SUFFICES ASSUME NEW m \in Lists \ todo, listed'[m] # <<>> PROVE temp' = listed'[m][1]
      BY <1>1
    <3>1. CASE m = l
      BY <1>7, <1>10, <3>1
    <3>2. CASE m # l
      <4>1. listed[m] # <<>> /\ temp = listed[m][1] /\ listed[m] \in Seq(Orders)
        BY <1>2, <1>3, <1>7, <3>2
      <4>2. 1 \in DOMAIN listed[m]
        BY <4>1
      <4> QED
        BY <1>4, <3>2, <4>1, <4>2 DEF Listed
    <3> QED
      BY <3>1, <3>2
  <2>4. temp' # Null => home'[temp'] \notin todo' /\ listed'[home'[temp']] # <<>>
    BY <1>1, <1>3, <1>7, <1>10, <1>11
  <2> QED
    BY <1>1, <1>2, <1>3, <2>1, <2>2, <2>3, <2>4 DEF Walking
<1> QED
  BY <1>12, <1>13, <1>14, <1>15 DEF IInv
-----------------------------------------------------------------------------
\* The inductive invariant holds in every reachable state.
THEOREM ListInvariant == Spec => []IInv
<1>1. Init => IInv
  <2> SUFFICES ASSUME Init PROVE IInv
    OBVIOUS
  <2>1. TypeOK
    <3>1. heap \in Heap
      BY DEF Init, Heap, Pointer
    <3>2. listed \in [Lists -> Seq(Orders)]
      BY DEF Init
    <3> QED
      BY <3>1, <3>2 DEF Init, TypeOK
  <2>2. HandAllocated
    BY DEF Init, HandAllocated
  <2>3. ChainsMatchLists
    BY DEF Init, ChainsMatchLists, Chained
  <2>4. EachOrderOnce
    BY DEF Init, EachOrderOnce
  <2>5. Walking
    BY DEF Init, Walking
  <2> QED
    BY <2>1, <2>2, <2>3, <2>4, <2>5 DEF IInv
<1>2. IInv /\ [Next]_vars => IInv'
  <2> SUFFICES ASSUME IInv, [Next]_vars PROVE IInv'
    OBVIOUS
  <2>1. ASSUME NEW o \in Orders, NEW l \in Lists, Create(o, l) PROVE IInv'
    BY <2>1, CreateKeeps
  <2>2. ASSUME NEW o \in Orders, NEW l \in Lists, Cancel(l, o) PROVE IInv'
    BY <2>2, CancelKeeps
  <2>3. ASSUME NEW new \in Orders, NEW old \in Orders, NEW l \in Lists, Amend(new, l, old) PROVE IInv'
    BY <2>3, AmendKeeps
  <2>4. ASSUME NEW o \in Orders, FillResting(o) PROVE IInv'
    BY <2>4, FillRestingKeeps
  <2>5. ASSUME NEW o \in Orders, FillBoth(o) PROVE IInv'
    BY <2>5, FillBothKeeps
  <2>6. CASE FillHand
    BY <2>6, FillHandKeeps
  <2>7. CASE AddOrder
    BY <2>7, AddOrderKeeps
  <2>8. CASE FreeOrders
    BY <2>8, FreeOrdersKeeps
  <2>9. ASSUME NEW l \in Lists, FreeList(l) PROVE IInv'
    BY <2>9, FreeListKeeps
  <2>10. CASE FreeOrder
    BY <2>10, FreeOrderKeeps
  <2>11. CASE UNCHANGED vars
    BY <2>11 DEF vars, release, IInv, TypeOK, HandAllocated, ChainsMatchLists, Chained, EachOrderOnce, Walking
  <2> QED
    BY <2>1, <2>2, <2>3, <2>4, <2>5, <2>6, <2>7, <2>8, <2>9, <2>10, <2>11 DEF Next
<1> QED
  BY <1>1, <1>2, PTL DEF Spec

\* The state keeps its shape.
THEOREM TypeCorrect == Spec => []TypeOK
<1>1. IInv => TypeOK
  BY DEF IInv
<1> QED
  BY <1>1, ListInvariant, PTL

\* add_to_tail and delete_order keep every list whole, read in either direction.
THEOREM ListsWhole == Spec => []ChainsMatchLists
<1>1. IInv => ChainsMatchLists
  BY DEF IInv
<1> QED
  BY <1>1, ListInvariant, PTL

\* No order that is allocated is lost, listed twice, or both listed and in hand.
THEOREM OrdersInOnePlace == Spec => []EachOrderOnce
<1>1. IInv => EachOrderOnce
  BY DEF IInv
<1> QED
  BY <1>1, ListInvariant, PTL

\* free_orders never frees or reads a freed order, and leaves none behind.
THEOREM AllFreedOnce == Spec => []FreedOnceAndAll
<1>1. ASSUME IInv PROVE FreedOnceAndAll
  <2>1. temp \in allocated \cup {Null}
    <3> SUFFICES ASSUME temp # Null PROVE temp \in allocated
      OBVIOUS
    <3>1. /\ home \in [Orders -> Lists] /\ temp \in Orders /\ listed \in [Lists -> Seq(Orders)]
          /\ home[temp] \notin todo /\ listed[home[temp]] # <<>>
          /\ \A m \in Lists \ todo : listed[m] # <<>> => temp = listed[m][1]
      BY <1>1 DEF IInv, TypeOK, Walking
    <3>2. home[temp] \in Lists /\ temp = listed[home[temp]][1] /\ 1 \in DOMAIN listed[home[temp]]
      BY <3>1
    <3> QED
      BY <1>1, <3>2 DEF IInv, EachOrderOnce
  <2>2. ASSUME Released PROVE allocated = {}
    <3>1. /\ closing /\ todo = {} /\ temp = Null /\ hand = Null /\ allocated \subseteq Orders
          /\ home \in [Orders -> Lists] /\ listed \in [Lists -> Seq(Orders)] /\ Null \notin Orders
          /\ \A m \in Lists \ todo : listed[m] # <<>> => temp = listed[m][1]
      BY <1>1, <2>2, OrderListsAssumption DEF IInv, TypeOK, Walking, Released
    <3>2. \A m \in Lists : listed[m] # <<>> => listed[m][1] \in Orders
      BY <3>1
    <3>3. \A m \in Lists : listed[m] = <<>>
      BY <3>1, <3>2
    <3>4. \A o \in allocated : o \in Orders /\ \E i \in DOMAIN listed[home[o]] : listed[home[o]][i] = o
      BY <1>1, <3>1 DEF IInv, EachOrderOnce
    <3> QED
      BY <3>1, <3>3, <3>4
  <2> QED
    BY <2>1, <2>2 DEF FreedOnceAndAll
<1> QED
  BY <1>1, ListInvariant, PTL
=============================================================================
