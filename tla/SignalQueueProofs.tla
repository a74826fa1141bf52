------------------------- MODULE SignalQueueProofs -------------------------
(***************************************************************************)
(* The signal queue, for any senders, any number of signals and any length *)
(* of the array, wherever the handler interrupts pop_sigusr.               *)
(***************************************************************************)
EXTENDS SignalQueue, TLAPS

\* The shape of the state, in the first state and after every step.
LEMMA InitType == Init => TypeOK
BY SignalQueueAssumption DEF Init, TypeOK

LEMMA AdvancedType == \A i \in 0 .. Slots - 1 : Advanced(i) \in 0 .. Slots - 1
BY SignalQueueAssumption DEF Advanced

LEMMA TypeKept == TypeOK /\ [Next]_vars => TypeOK'
<1> SUFFICES ASSUME TypeOK, [Next]_vars PROVE TypeOK'
  OBVIOUS
<1>1. 0 .. Slots - 1 \subseteq 0 .. QueueLen - 1
  BY SignalQueueAssumption
<1>2. ASSUME NEW p \in Senders, Handler(p) PROVE TypeOK'
  <2>1. back' \in 0 .. Slots - 1
    BY <1>2, AdvancedType DEF TypeOK, Handler
  <2>2. queue' \in [0 .. QueueLen - 1 -> Senders \cup {NoPid}] /\ delivered' \in Seq(Senders)
    BY <1>1, <1>2 DEF TypeOK, Handler
  <2> QED
    BY <1>2, <2>1, <2>2 DEF TypeOK, Handler
<1>3. CASE Take
  <2>1. pid' \in Senders \cup {NoPid}
    BY <1>1, <1>3 DEF TypeOK, Take
  <2> QED
    BY <1>3, <2>1 DEF TypeOK, Take, history
<1>4. CASE Clear
  BY <1>4 DEF TypeOK, Clear, history
<1>5. CASE Advance
  BY <1>5, AdvancedType DEF TypeOK, Advance, history
<1>6. CASE Load \/ Store
  BY <1>6 DEF TypeOK, Load, Store, history
<1>7. CASE Serve
  BY <1>7 DEF TypeOK, Serve
<1>8. CASE UNCHANGED vars
  BY <1>8 DEF TypeOK, vars
<1> QED
  BY <1>2, <1>3, <1>4, <1>5, <1>6, <1>7, <1>8 DEF Next, Main
-----------------------------------------------------------------------------
\* The copy of the length that main has loaded is no larger than what is there
\* either: this is what makes the lost update harmless in this direction.
CountsBounded ==
  /\ len <= Unread
  /\ pc = "store" => loaded <= Unread

\* Both counts stay bounded, whatever the handler does between load and store.
LEMMA CountsKept == TypeOK /\ CountsBounded /\ [Next]_vars => CountsBounded'
<1> SUFFICES ASSUME TypeOK, CountsBounded, [Next]_vars PROVE CountsBounded'
  OBVIOUS
<1> DEFINE D == Len(delivered)  S == Len(served)
<1>1. D \in Nat /\ S \in Nat /\ len \in Int /\ loaded \in Int
  BY DEF TypeOK
<1>2. ASSUME NEW p \in Senders, Handler(p) PROVE CountsBounded'
  <2>1. Len(delivered') = D + 1 /\ Len(served') = S /\ pc' = pc /\ len' = len + 1
        /\ loaded' = loaded
    BY <1>2 DEF TypeOK, Handler
  <2> QED
    BY <1>1, <2>1 DEF CountsBounded, Unread
<1>3. CASE Take \/ Clear \/ Advance \/ Load \/ Store
  BY <1>1, <1>3 DEF CountsBounded, Unread, Take, Clear, Advance, Load, Store, history
<1>4. CASE Serve
  <2>1. Len(served') = S + 1 /\ Len(delivered') = D
    BY <1>4 DEF TypeOK, Serve
  <2> QED
    BY <1>1, <1>4, <2>1 DEF CountsBounded, Unread, Serve
<1>5. CASE UNCHANGED vars
  BY <1>5 DEF CountsBounded, Unread, vars
<1> QED
  BY <1>2, <1>3, <1>4, <1>5 DEF Next, Main
-----------------------------------------------------------------------------
(* The order of service.  Popped counts the signals that front has passed;  *)
(* the k-th signal after it lies k slots further, around the corner.        *)

Popped == Len(served) + (IF pc \in {"load", "store", "serve"} THEN 1 ELSE 0)
Waiting == Len(delivered) - Popped
Slot(f, k) == IF f + k < Slots THEN f + k ELSE f + k - Slots

\* The slots from front on hold the signals that wait, but for the first while
\* it is cleared; none is overwritten as long as they fit.
QueueHolds ==
  /\ Waiting \in 0 .. Slots /\ Unread <= MaxUnread
  /\ back = Slot(front, Waiting)
  /\ \A k \in 0 .. Waiting - 1 :
       k > 0 \/ pc # "advance" => queue[Slot(front, k)] = delivered[Popped + k + 1]

\* What has been served, and what is being served, is next in the order of
\* delivery.
ServesNext ==
  /\ Len(served) <= Len(delivered)
  /\ \A i \in 1 .. Len(served) : served[i] = delivered[i]
  /\ pc # "test" => /\ Len(served) < Len(delivered)
                    /\ pid = delivered[Len(served) + 1]

IInv == TypeOK /\ CountsBounded /\ QueueHolds /\ ServesNext

\* How the slots follow one another around the corner, and that Slots of them
\* in a row are all different.
LEMMA SlotsInARow ==
  ASSUME NEW f \in 0 .. Slots - 1
  PROVE  /\ Slot(f, 0) = f /\ \A k \in 0 .. Slots : Slot(f, k) \in 0 .. Slots - 1
         /\ \A k \in 0 .. Slots - 1 : /\ Advanced(Slot(f, k)) = Slot(f, k + 1)
                                     /\ Slot(Advanced(f), k) = Slot(f, k + 1)
         /\ \A j, k \in 0 .. Slots - 1 : Slot(f, j) = Slot(f, k) => j = k
BY SignalQueueAssumption DEF Slot, Advanced

\* Nothing is queued at first.
LEMMA InitInvariant == Init => IInv
<1> SUFFICES ASSUME Init PROVE IInv
  OBVIOUS
<1>1. TypeOK
  BY InitType
<1>2. Len(delivered) = 0 /\ Len(served) = 0 /\ pc = "test" /\ len = 0 /\ front = 0 /\ back = 0
  BY DEF Init
<1>3. Popped = 0 /\ Waiting = 0 /\ Unread = 0
  <2>1. ~ (pc \in {"load", "store", "serve"}) /\ pc # "serve"
    BY <1>2
  <2>2. Popped = 0
    BY <1>2, <2>1 DEF Popped
  <2>3. Unread = 0
    BY <1>2, <2>1 DEF Unread
  <2> QED
    BY <1>2, <2>2, <2>3 DEF Waiting
<1>4. CountsBounded
  BY <1>2, <1>3 DEF CountsBounded
<1>5. QueueHolds
  BY <1>2, <1>3, SignalQueueAssumption DEF QueueHolds, Slot
<1>6. ServesNext
  BY <1>2 DEF ServesNext
<1> QED
  BY <1>1, <1>4, <1>5, <1>6 DEF IInv

\* The handler writes behind what waits, and overwrites none of it.
LEMMA HandlerKeepsOrder ==
  ASSUME MaxUnread <= Slots, IInv, NEW p \in Senders, Handler(p)
  PROVE  QueueHolds' /\ ServesNext'
<1> DEFINE D == Len(delivered)  S == Len(served)
<1>1. D \in Nat /\ S \in Nat /\ Popped \in Nat /\ Waiting = D - Popped /\ Waiting \in Nat
  BY DEF IInv, TypeOK, Popped, Waiting, QueueHolds
<1>2. /\ Len(delivered') = D + 1 /\ delivered'[D + 1] = p
      /\ \A i \in 1 .. D : delivered'[i] = delivered[i]
      /\ served' = served /\ pc' = pc /\ pid' = pid /\ front' = front
      /\ back' = Advanced(back) /\ queue' = [queue EXCEPT ![back] = p]
  BY DEF IInv, TypeOK, Handler
<1>3. Popped' = Popped /\ Waiting' = Waiting + 1 /\ Unread' = Unread + 1
  BY <1>1, <1>2 DEF Popped, Waiting, Unread
<1>4. Unread < MaxUnread /\ Waiting <= Unread /\ Unread \in Int
  BY <1>1 DEF Handler, Waiting, Popped, Unread
<1>5. Waiting + 1 <= Slots
  BY <1>1, <1>4, SignalQueueAssumption
<1>6. front \in 0 .. Slots - 1 /\ back = Slot(front, Waiting) /\ Waiting \in 0 .. Slots - 1
  BY <1>1, <1>5, SignalQueueAssumption DEF IInv, TypeOK, QueueHolds
<1>7. back' = Slot(front', Waiting')
  BY <1>2, <1>3, <1>6, SlotsInARow
<1>8. ASSUME NEW k \in 0 .. Waiting' - 1, k > 0 \/ pc' # "advance"
      PROVE  queue'[Slot(front', k)] = delivered'[Popped' + k + 1]
  <2>1. DOMAIN queue = 0 .. QueueLen - 1 /\ back \in 0 .. QueueLen - 1
    BY <1>6, SlotsInARow, SignalQueueAssumption DEF IInv, TypeOK
  <2>2. CASE k = Waiting
    <3>1. queue'[back] = p
      BY <1>2, <2>1
    <3>2. Popped' + k + 1 = D + 1
      BY <1>1, <1>3, <2>2
    <3> QED
      BY <1>2, <1>6, <2>2, <3>1, <3>2
  <2>3. CASE k # Waiting
    <3>1. k \in 0 .. Waiting - 1 /\ k \in 0 .. Slots - 1
      BY <1>1, <1>3, <1>5, <2>3, SignalQueueAssumption
    <3>2. Slot(front, k) # back
      BY <1>6, <2>3, <3>1, SlotsInARow
    <3>3. queue'[Slot(front, k)] = queue[Slot(front, k)]
      BY <1>2, <3>2 DEF IInv, TypeOK
    <3>4. queue[Slot(front, k)] = delivered[Popped + k + 1]
      BY <1>2, <1>8, <3>1 DEF IInv, QueueHolds
    <3>5. Popped + k + 1 \in 1 .. D
      BY <1>1, <3>1
    <3> QED
      BY <1>2, <1>3, <3>3, <3>4, <3>5
  <2> QED
    BY <2>2, <2>3
<1>9. QueueHolds'
  <2>1. Waiting' \in 0 .. Slots /\ Unread' <= MaxUnread
    BY <1>1, <1>3, <1>4, <1>5, SignalQueueAssumption
  <2> QED
    BY <1>7, <1>8, <2>1 DEF QueueHolds
<1>10. ServesNext'
  BY <1>1, <1>2 DEF IInv, ServesNext
<1> QED
  BY <1>9, <1>10

\* main reads the first that waits, clears its slot, passes it, and serves it.
LEMMA MainKeepsOrder ==
  ASSUME IInv, Main
  PROVE  QueueHolds' /\ ServesNext'
<1> DEFINE D == Len(delivered)  S == Len(served)
<1>1. D \in Nat /\ S \in Nat /\ front \in 0 .. Slots - 1 /\ Slots \in Nat \ {0}
  BY SignalQueueAssumption DEF IInv, TypeOK
<1>2. CASE Take
  <2>1. len > 0 /\ len <= Unread /\ Unread = D - S /\ Popped = S /\ len \in Int
    BY <1>1, <1>2 DEF IInv, TypeOK, CountsBounded, Unread, Popped, Take
  <2>2. S < D /\ Waiting = D - S /\ 0 \in 0 .. Waiting - 1
    BY <1>1, <2>1 DEF Waiting
  <2>3. queue[front] = delivered[S + 1]
    <3>1. queue[Slot(front, 0)] = delivered[Popped + 0 + 1]
      BY <1>2, <2>2 DEF IInv, QueueHolds, Take
    <3>2. Slot(front, 0) = front
      BY <1>1, SlotsInARow
    <3>3. Popped + 0 + 1 = S + 1
      BY <1>1, <2>1
    <3> QED
      BY <3>1, <3>2, <3>3
  <2>4. /\ pid' = queue[front] /\ pc = "test" /\ pc' = "clear"
        /\ UNCHANGED <<queue, len, front, back, delivered, served>>
    BY <1>2 DEF Take, history
  <2>5. ServesNext'
    BY <1>1, <2>2, <2>3, <2>4 DEF IInv, ServesNext
  <2>6. QueueHolds'
    BY <2>4 DEF IInv, QueueHolds, Waiting, Popped, Unread
  <2> QED
    BY <2>5, <2>6
<1>3. CASE Clear
  <2>1. /\ queue' = [queue EXCEPT ![front] = NoPid] /\ pc = "clear" /\ pc' = "advance"
        /\ UNCHANGED <<len, front, back, pid, delivered, served>>
    BY <1>3 DEF Clear, history
  <2>2. ServesNext'
    BY <2>1 DEF IInv, ServesNext
  <2>3. Popped' = Popped /\ Waiting' = Waiting /\ Unread' = Unread
    BY <2>1 DEF Popped, Waiting, Unread
  <2>4. ASSUME NEW k \in 0 .. Waiting - 1, k > 0
        PROVE  queue'[Slot(front, k)] = delivered[Popped + k + 1]
    <3>1. k \in 0 .. Slots - 1 /\ 0 \in 0 .. Slots - 1 /\ k # 0
      BY <1>1, <2>4 DEF IInv, QueueHolds
    <3>2. Slot(front, k) # front
      BY <1>1, <3>1, SlotsInARow
    <3>3. queue'[Slot(front, k)] = queue[Slot(front, k)]
      BY <2>1, <3>2 DEF IInv, TypeOK
    <3> QED
      BY <2>4, <3>3 DEF IInv, QueueHolds
  <2>5. QueueHolds'
    BY <2>1, <2>3, <2>4 DEF IInv, QueueHolds
  <2> QED
    BY <2>2, <2>5
<1>4. CASE Advance
  <2>1. /\ front' = Advanced(front) /\ pc = "advance" /\ pc' = "load"
        /\ UNCHANGED <<queue, len, back, pid, delivered, served>>
    BY <1>4 DEF Advance, history
  <2>2. ServesNext'
    BY <2>1 DEF IInv, ServesNext
  <2>3. Popped = S /\ Popped' = S + 1 /\ Waiting = D - S /\ Waiting' = Waiting - 1 /\ Unread' = Unread
    BY <1>1, <2>1 DEF Popped, Waiting, Unread
  <2>4. S < D /\ Waiting \in 1 .. Slots /\ Waiting' \in 0 .. Slots - 1
    BY <1>1, <2>1, <2>3 DEF IInv, ServesNext, QueueHolds
  <2>5. back' = Slot(front', Waiting')
    <3>1. Slot(Advanced(front), Waiting') = Slot(front, Waiting' + 1)
      BY <1>1, <2>4, SlotsInARow
    <3>2. Waiting' + 1 = Waiting
      BY <2>3, <2>4
    <3> QED
      BY <2>1, <3>1, <3>2 DEF IInv, QueueHolds
  <2>6. ASSUME NEW k \in 0 .. Waiting' - 1
        PROVE  queue'[Slot(front', k)] = delivered'[Popped' + k + 1]
    <3>1. k \in 0 .. Slots - 1 /\ k + 1 \in 0 .. Waiting - 1 /\ k + 1 > 0
      BY <1>1, <2>3, <2>4
    <3>2. Slot(front', k) = Slot(front, k + 1)
      BY <1>1, <2>1, <3>1, SlotsInARow
    <3>3. queue[Slot(front, k + 1)] = delivered[Popped + (k + 1) + 1]
      BY <3>1 DEF IInv, QueueHolds
    <3>4. Popped + (k + 1) + 1 = Popped' + k + 1
      BY <1>1, <2>3, <3>1
    <3> QED
      BY <2>1, <3>2, <3>3, <3>4
  <2>7. QueueHolds'
    <3>1. Waiting' \in 0 .. Slots /\ Unread' <= MaxUnread
      BY <1>1, <2>3, <2>4 DEF IInv, QueueHolds
    <3> QED
      BY <2>5, <2>6, <3>1 DEF QueueHolds
  <2> QED
    BY <2>2, <2>7
<1>5. CASE Load
  <2>1. /\ pc = "load" /\ pc' = "store"
        /\ UNCHANGED <<queue, len, front, back, pid, delivered, served>>
    BY <1>5 DEF Load, history
  <2> QED
    BY <2>1 DEF IInv, QueueHolds, ServesNext, Waiting, Popped, Unread
<1>6. CASE Store
  <2>1. /\ pc = "store" /\ pc' = "serve"
        /\ UNCHANGED <<queue, front, back, pid, delivered, served>>
    BY <1>6 DEF Store, history
  <2>2. Unread' <= MaxUnread
    BY <1>1, <2>1, SignalQueueAssumption DEF IInv, QueueHolds, Unread
  <2>3. Popped' = Popped /\ Waiting' = Waiting
    BY <2>1 DEF Popped, Waiting
  <2> QED
    BY <2>1, <2>2, <2>3 DEF IInv, QueueHolds, ServesNext
<1>7. CASE Serve
  <2>1. /\ pc = "serve" /\ pc' = "test" /\ served' = Append(served, pid)
        /\ UNCHANGED <<queue, front, back, delivered>>
    BY <1>7 DEF Serve
  <2>2. /\ Len(served') = S + 1 /\ served'[S + 1] = pid
        /\ \A i \in 1 .. S : served'[i] = served[i]
    BY <2>1 DEF IInv, TypeOK
  <2>3. Popped' = Popped /\ Waiting' = Waiting /\ Unread' = Unread
    BY <1>1, <2>1, <2>2 DEF Popped, Waiting, Unread
  <2>4. QueueHolds'
    BY <2>1, <2>3 DEF IInv, QueueHolds
  <2>5. S < D /\ pid = delivered[S + 1]
    BY <2>1 DEF IInv, ServesNext
  <2>6. ServesNext'
    BY <1>1, <2>1, <2>2, <2>5 DEF IInv, ServesNext
  <2> QED
    BY <2>4, <2>6
<1> QED
  BY <1>2, <1>3, <1>4, <1>5, <1>6, <1>7 DEF Main
-----------------------------------------------------------------------------
\* The state of the queue keeps its shape; both indices stay below Slots.
THEOREM TypeCorrect == Spec => []TypeOK
BY InitType, TypeKept, PTL DEF Spec

\* The lost update of sigusr_queue_len never lets main pop a signal that is not
\* there.
THEOREM NeverMadeUp == Spec => []NeverOvercounted
<1>1. Init => CountsBounded
  BY DEF Init, CountsBounded, Unread
<1>2. CountsBounded => NeverOvercounted
  BY DEF CountsBounded, NeverOvercounted
<1> QED
  BY TypeCorrect, CountsKept, <1>1, <1>2, PTL DEF Spec

\* As long as no more signals are unread than Slots, main attends to them in
\* order and once each, wherever the handler comes between its instructions.
THEOREM OrderOfService ==
  ASSUME MaxUnread <= Slots
  PROVE  Spec => []ServedInOrder
<1>1. IInv /\ [Next]_vars => IInv'
  <2> SUFFICES ASSUME IInv, [Next]_vars PROVE IInv'
    OBVIOUS
  <2>1. TypeOK' /\ CountsBounded'
    BY TypeKept, CountsKept DEF IInv
  <2>2. QueueHolds' /\ ServesNext'
    <3>1. CASE Main
      BY <3>1, MainKeepsOrder
    <3>2. ASSUME NEW p \in Senders, Handler(p) PROVE QueueHolds' /\ ServesNext'
      BY <3>2, HandlerKeepsOrder
    <3>3. CASE UNCHANGED vars
      BY <3>3 DEF IInv, QueueHolds, ServesNext, Waiting, Popped, Unread, vars
    <3> QED
      BY <3>1, <3>2, <3>3 DEF Next
  <2> QED
    BY <2>1, <2>2 DEF IInv
<1>2. IInv => ServedInOrder
  <2> SUFFICES ASSUME IInv PROVE ServedInOrder
    OBVIOUS
  <2> DEFINE attended == IF pc = "test" THEN served ELSE Append(served, pid)
  <2>1. attended \in Seq(Senders \cup {NoPid}) /\ delivered \in Seq(Senders)
    BY DEF IInv, TypeOK
  <2>2. Len(attended) <= Len(delivered) /\ \A i \in 1 .. Len(attended) : attended[i] = delivered[i]
    BY DEF IInv, TypeOK, ServesNext
  <2> HIDE DEF attended
  <2>3. SubSeq(attended, 1, Len(attended)) = SubSeq(delivered, 1, Len(attended))
    BY <2>1, <2>2
  <2> QED
    BY <2>2, <2>3 DEF ServedInOrder, IsPrefix, attended
<1> QED
  BY InitInvariant, <1>1, <1>2, PTL DEF Spec
=============================================================================
