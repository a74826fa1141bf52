----------------------------- MODULE OrderLists -----------------------------
(***************************************************************************)
(* The lists of OrderBook as pe_orderbook.c keeps them: orders on the C    *)
(* heap, chained both ways between a head and a tail, allocated by one     *)
(* handler and freed by another, and all freed at shut-down.               *)
(*                                                                         *)
(* `listed' is the history that says what each list should hold; no action *)
(* of the code reads it.  A freed order points to Dangling, so that a use  *)
(* of it shows.  Terms and prices do not matter here: any order of a list  *)
(* may be the one that is found.                                           *)
(***************************************************************************)
EXTENDS Integers, Sequences, SequencesExt

CONSTANTS
  Orders,         \* the addresses that calloc may return
  Null, Dangling,
  Lists,          \* buy_orders[p] and sell_orders[p] of every product p
  Opposite        \* the list that an order of each list trades with

ASSUME OrderListsAssumption ==
  /\ Null \notin Orders /\ Dangling \notin Orders /\ Null # Dangling
  /\ Opposite \in [Lists -> Lists]

VARIABLES
  heap,       \* the head and tail of each list, the next and prev of each order
  allocated,
  home,       \* the list of each order, by its product_ID and is_buy
  hand,       \* the order being created, amended or matched
  closing,    \* free_orders has been called
  todo, temp, \* free_orders: the lists to come, and the next order to free
  listed      \* history: what is in each list, oldest order first

release == <<closing, todo, temp>>
vars == <<heap, allocated, home, hand, release, listed>>

Pointer == Orders \cup {Null, Dangling}
\* Sequence s without its element e.
Without(s, e) == RemoveAt(s, CHOOSE i \in DOMAIN s : s[i] = e)

Heap == [head : [Lists -> Pointer], tail : [Lists -> Pointer],
         next : [Orders -> Pointer], prev : [Orders -> Pointer]]
-----------------------------------------------------------------------------
(* What the code does to the heap *)

Calloc(h, o) == [h EXCEPT !.next[o] = Null, !.prev[o] = Null]
Free(h, o) == [h EXCEPT !.next[o] = Dangling, !.prev[o] = Dangling]

\* Mutant: the old tail does not learn of its successor.
AddToTailOneWay(h, o, l) ==
  IF h.tail[l] = Null
  THEN [h EXCEPT !.head[l] = o, !.tail[l] = o, !.prev[o] = Null, !.next[o] = Null]
  ELSE [h EXCEPT !.prev[o] = h.tail[l], !.tail[l] = o, !.next[o] = Null]

\* add_to_tail
AddToTail(h, o, l) ==
  IF h.tail[l] = Null
  THEN [h EXCEPT !.head[l] = o, !.tail[l] = o, !.prev[o] = Null, !.next[o] = Null]
  ELSE [h EXCEPT !.prev[o] = h.tail[l], !.next[h.tail[l]] = o, !.tail[l] = o, !.next[o] = Null]

\* delete_order: the only order, the head, the tail, or one in between.
DeleteOrder(h, o, l) ==
  IF h.tail[l] = h.head[l] /\ h.head[l] = o
  THEN [h EXCEPT !.head[l] = Null, !.tail[l] = Null]
  ELSE IF h.head[l] = o
  THEN [h EXCEPT !.head[l] = h.next[o], !.prev[h.next[o]] = Null]
  ELSE IF h.tail[l] = o
  THEN [h EXCEPT !.tail[l] = h.prev[o], !.next[h.prev[o]] = Null]
  ELSE [h EXCEPT !.next[h.prev[o]] = h.next[o], !.prev[h.next[o]] = h.prev[o]]

\* What find_order, find_best_sell and find_best_buy may return from a list:
\* what they reach from its head by following next.
Found(l) ==
  {o \in Orders : \A reached \in SUBSET Orders :
     /\ heap.head[l] \in Orders => heap.head[l] \in reached
     /\ \A r \in reached : heap.next[r] \in Orders => heap.next[r] \in reached
     => o \in reached}
-----------------------------------------------------------------------------
(* The handlers, one at a time: hand is Null between two messages *)

Idle == ~ closing /\ hand = Null

\* create_order
Create(o, l) ==
  /\ Idle /\ o \notin allocated
  /\ heap' = Calloc(heap, o)
  /\ allocated' = allocated \cup {o}
  /\ home' = [home EXCEPT ![o] = l]
  /\ hand' = o
  /\ UNCHANGED <<release, listed>>

\* delete_order and free of an order found in list l.
Discard(h, o, l) ==
  /\ heap' = Free(DeleteOrder(h, o, l), o)
  /\ listed' = [listed EXCEPT ![l] = Without(@, o)]

\* Mutant: the old order is taken out of the list but not freed.
AmendLeaking(new, l, old) ==
  /\ Idle /\ new \notin allocated /\ old \in Found(l)
  /\ Discard(Calloc(heap, new), old, home[old])
  /\ allocated' = allocated \cup {new}
  /\ home' = [home EXCEPT ![new] = home[old]]
  /\ hand' = new
  /\ UNCHANGED release

\* amend_msg up to the matching: the new order is allocated before the old one
\* is taken out of the list that find_list gives for it.
Amend(new, l, old) ==
  /\ Idle /\ new \notin allocated /\ old \in Found(l)
  /\ Discard(Calloc(heap, new), old, home[old])
  /\ allocated' = (allocated \cup {new}) \ {old}
  /\ home' = [home EXCEPT ![new] = home[old]]
  /\ hand' = new
  /\ UNCHANGED release

\* cancel_msg
Cancel(l, o) ==
  /\ Idle /\ o \in Found(l)
  /\ Discard(heap, o, home[o])
  /\ allocated' = allocated \ {o}
  /\ UNCHANGED <<home, hand, release>>

\* A match that uses up the resting order: the new one is matched again, or
\* used up too and freed.
FillResting(o) ==
  /\ hand # Null /\ o \in Found(Opposite[home[hand]])
  /\ Discard(heap, o, Opposite[home[hand]])
  /\ allocated' = allocated \ {o}
  /\ UNCHANGED <<home, hand, release>>

FillBoth(o) ==
  /\ hand # Null /\ o \in Found(Opposite[home[hand]])
  /\ Discard(Free(heap, hand), o, Opposite[home[hand]])
  /\ allocated' = allocated \ {o, hand}
  /\ hand' = Null
  /\ UNCHANGED <<home, release>>

\* A match that uses up the new order only: the resting one stays where it is.
FillHand ==
  /\ hand # Null /\ Found(Opposite[home[hand]]) # {}
  /\ heap' = Free(heap, hand)
  /\ allocated' = allocated \ {hand}
  /\ hand' = Null
  /\ UNCHANGED <<home, release, listed>>

\* No match: add_order.
AddOrder ==
  /\ hand # Null
  /\ heap' = AddToTail(heap, hand, home[hand])
  /\ listed' = [listed EXCEPT ![home[hand]] = Append(@, hand)]
  /\ hand' = Null
  /\ UNCHANGED <<allocated, home, release>>
-----------------------------------------------------------------------------
(* Shut-down: free_orders.  The order of the lists does not matter. *)

FreeOrders ==
  /\ Idle
  /\ closing' = TRUE
  /\ todo' = Lists
  /\ UNCHANGED <<heap, allocated, home, hand, temp, listed>>

\* Mutant: only one of the lists is freed.
FreeOneList(l) ==
  /\ closing /\ temp = Null /\ l \in todo
  /\ temp' = heap.head[l]
  /\ todo' = {}
  /\ UNCHANGED <<heap, allocated, home, hand, closing, listed>>

FreeList(l) ==
  /\ closing /\ temp = Null /\ l \in todo
  /\ temp' = heap.head[l]
  /\ todo' = todo \ {l}
  /\ UNCHANGED <<heap, allocated, home, hand, closing, listed>>

\* Mutant: next is read from the order that has just been freed.
FreeOrderFirst ==
  /\ temp \in Orders
  /\ heap' = Free(heap, temp)
  /\ temp' = heap'.next[temp]
  /\ allocated' = allocated \ {temp}
  /\ listed' = [listed EXCEPT ![home[temp]] = Without(@, temp)]
  /\ UNCHANGED <<home, hand, closing, todo>>

FreeOrder ==
  /\ temp \in Orders
  /\ temp' = heap.next[temp]
  /\ heap' = Free(heap, temp)
  /\ allocated' = allocated \ {temp}
  /\ listed' = [listed EXCEPT ![home[temp]] = Without(@, temp)]
  /\ UNCHANGED <<home, hand, closing, todo>>

Released == closing /\ todo = {} /\ temp = Null
-----------------------------------------------------------------------------
Init ==
  /\ heap = [head |-> [l \in Lists |-> Null], tail |-> [l \in Lists |-> Null],
             next |-> [o \in Orders |-> Dangling], prev |-> [o \in Orders |-> Dangling]]
  /\ allocated = {}
  /\ home \in [Orders -> Lists]
  /\ hand = Null
  /\ closing = FALSE /\ todo = {} /\ temp = Null
  /\ listed = [l \in Lists |-> <<>>]

Next ==
  \/ \E o \in Orders, l \in Lists : Create(o, l) \/ Cancel(l, o)
  \/ \E new, old \in Orders, l \in Lists : Amend(new, l, old)
  \/ \E o \in Orders : FillResting(o) \/ FillBoth(o)
  \/ FillHand \/ AddOrder
  \/ FreeOrders \/ (\E l \in Lists : FreeList(l)) \/ FreeOrder
  \/ Released /\ UNCHANGED vars

Spec == Init /\ [][Next]_vars
-----------------------------------------------------------------------------
(* Properties *)

\* The shape of the state.
TypeOK ==
  /\ heap \in Heap
  /\ allocated \subseteq Orders
  /\ home \in [Orders -> Lists]
  /\ hand \in Orders \cup {Null}
  /\ closing \in BOOLEAN /\ todo \subseteq Lists /\ temp \in Orders \cup {Null}
  /\ listed \in [Lists -> Seq(Orders)]

\* List l of heap h, read forward from its head or backward from its tail, is s.
Chained(h, l, s) ==
  /\ h.head[l] = IF s = <<>> THEN Null ELSE s[1]
  /\ h.tail[l] = IF s = <<>> THEN Null ELSE s[Len(s)]
  /\ \A i \in DOMAIN s : /\ h.next[s[i]] = IF i = Len(s) THEN Null ELSE s[i + 1]
                        /\ h.prev[s[i]] = IF i = 1 THEN Null ELSE s[i - 1]

\* Until shut-down each list is what was put in it less what was taken out, in
\* the order of arrival, read in either direction.
ChainsMatchLists == ~ closing => \A l \in Lists : Chained(heap, l, listed[l])

\* Every order that has been allocated and not freed is in one place: in one
\* list, once, or in the hand of a handler, which nothing else refers to.
EachOrderOnce ==
  /\ \A l \in Lists : \A i \in DOMAIN listed[l] :
       LET o == listed[l][i]
       IN  /\ o \in allocated /\ o # hand /\ home[o] = l
           /\ \A j \in DOMAIN listed[l] : listed[l][j] = o => i = j
  /\ \A o \in allocated : o = hand \/ \E i \in DOMAIN listed[home[o]] : listed[home[o]][i] = o

\* free_orders frees nothing twice and reads no freed order, and when it is
\* done nothing is left.
FreedOnceAndAll == temp \in allocated \cup {Null} /\ (Released => allocated = {})
=============================================================================
