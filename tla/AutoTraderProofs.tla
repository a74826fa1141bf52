-------------------------- MODULE AutoTraderProofs --------------------------
(***************************************************************************)
(* The safety of the auto-trader's protocol, for any quantities, any limit *)
(* and any number of MARKET messages.                                      *)
(***************************************************************************)
EXTENDS AutoTrader, TLAPS

Bit(b) == IF b THEN 1 ELSE 0

\* Every signal that can still make the trader read is matched by a message.
MessagesCoverSignals ==
  /\ Bit(pending) + Bit(received) <= Len(inbox)
  /\ pc = "awake" => received

\* Every read that the exchange has promised is matched by an order, as long as
\* the trader has signalled for new orders only.
OrdersCoverSignals ==
  \/ resent
  \/ ~ broken /\ Bit(alerted) + Bit(attending) <= Len(orders)

IInv == TypeOK /\ MessagesCoverSignals /\ OrdersCoverSignals /\ InStep

\* The state predicates of the invariant hold at the start.
LEMMA InitInvariant == Init => IInv
<1> SUFFICES ASSUME Init PROVE IInv
  OBVIOUS
<1>1. inbox = <<Other("OPEN")>> /\ Other("OPEN") \in Message
  BY DEF Init, Other, Message
<1>2. inbox \in Seq(Message) /\ Len(inbox) = 1
  BY <1>1
<1>3. orders \in Seq(Order) /\ Len(orders) = 0 /\ DOMAIN orders = {}
  BY DEF Init
<1>4. TypeOK
  <2>1. /\ pending \in BOOLEAN /\ received \in BOOLEAN /\ alerted \in BOOLEAN
        /\ attending \in BOOLEAN /\ broken \in BOOLEAN /\ refused \in BOOLEAN
        /\ resent \in BOOLEAN
    BY Zenon DEF Init
  <2>2. /\ pc = "pause" /\ nextId = 0 /\ expected = 0 /\ news = 0 /\ 0 \in 0 .. MaxNews
    BY AutoTraderAssumption DEF Init
  <2> QED
    BY <1>2, <1>3, <2>1, <2>2 DEF TypeOK
<1>5. MessagesCoverSignals
  BY <1>2 DEF Init, MessagesCoverSignals, Bit
<1>6. OrdersCoverSignals
  BY <1>3 DEF Init, OrdersCoverSignals, Bit
<1>7. InStep
  <2>1. ~ refused
    BY Zenon DEF Init
  <2>2. nextId = 0 /\ expected = 0
    BY DEF Init
  <2>3. nextId - Len(orders) = expected
    BY <1>3, <2>2
  <2> QED
    BY <1>3, <2>1, <2>3 DEF InStep
<1> QED
  BY <1>4, <1>5, <1>6, <1>7 DEF IInv

\* An answer is one message or two.
LEMMA AnswerWrites ==
  ASSUME inbox \in Seq(Message), Answer
  PROVE  inbox' \in Seq(Message) /\ Len(inbox') >= Len(inbox) + 1 /\ pending' = TRUE
<1> DEFINE Replies == {<<Other("ACCEPTED")>>, <<Other("ACCEPTED"), Other("FILL")>>,
                       <<Other("INVALID")>>}
<1>1. \E messages \in Replies : Write(messages)
  BY DEF Answer
<1>2. Other("ACCEPTED") \in Message /\ Other("FILL") \in Message /\ Other("INVALID") \in Message
  BY DEF Other, Message
<1>3. /\ <<Other("ACCEPTED")>> \in Seq(Message) /\ Len(<<Other("ACCEPTED")>>) = 1
      /\ <<Other("INVALID")>> \in Seq(Message) /\ Len(<<Other("INVALID")>>) = 1
  BY <1>2
<1>4. /\ <<Other("ACCEPTED"), Other("FILL")>> \in Seq(Message)
      /\ Len(<<Other("ACCEPTED"), Other("FILL")>>) = 2
  BY <1>2
<1>5. PICK messages \in Replies : Write(messages)
  BY <1>1
<1> HIDE DEF Replies
<1>6. messages \in Seq(Message) /\ Len(messages) >= 1
  <2>1. \/ messages = <<Other("ACCEPTED")>> \/ messages = <<Other("INVALID")>>
        \/ messages = <<Other("ACCEPTED"), Other("FILL")>>
    BY Zenon DEF Replies
  <2>2. /\ Len(<<Other("ACCEPTED")>>) >= 1 /\ Len(<<Other("INVALID")>>) >= 1
        /\ Len(<<Other("ACCEPTED"), Other("FILL")>>) >= 1
    BY <1>3, <1>4
  <2> QED
    BY <1>3, <1>4, <2>1, <2>2, Zenon
<1>7. inbox' = inbox \o messages /\ pending' = TRUE
  BY <1>5 DEF Write
<1> QED
  BY <1>6, <1>7

\* The shape of the state is kept by every step.
LEMMA TypeKept == TypeOK /\ [Next]_vars => TypeOK'
<1> SUFFICES ASSUME TypeOK, [Next]_vars PROVE TypeOK'
  OBVIOUS
<1> USE AutoTraderAssumption
<1>1. CASE Handler
  BY <1>1 DEF TypeOK, Handler, exchange
<1>2. CASE Pause
  BY <1>2 DEF TypeOK, Pause, exchange
<1>3. CASE React
  <2>1. inbox # <<>> /\ inbox' = Tail(inbox) /\ received' = FALSE
    BY <1>3 DEF React, Take
  <2>2. Head(inbox) \in Message /\ inbox' \in Seq(Message)
    BY <2>1 DEF TypeOK
  <2>3. received' \in BOOLEAN
    BY <2>1, Zenon
  <2>4. nextId' \in Nat
    BY <1>3 DEF TypeOK, React, NextId
  <2>5. pc' \in {"pause", "pausing", "awake", "wait", "done"} /\ orders' \in Seq(Order)
    <3>1. CASE Head(inbox).type = "SELL" /\ ~ Leaves(Head(inbox))
      <4>1. Head(inbox).quantity \in Quantities
        BY <2>2, <3>1 DEF Message
      <4>2. Head(inbox).quantity \in Nat /\ ~ (Head(inbox).quantity >= Limit) /\ Limit \in Nat
        BY <3>1, <4>1 DEF Leaves
      <4>3. Head(inbox).quantity \in 0 .. Limit - 1
        BY <4>2
      <4>4. [id |-> nextId, quantity |-> Head(inbox).quantity] \in Order
        BY <4>3 DEF TypeOK, Order
      <4>5. pc' = "wait" /\ orders' = Append(orders, [id |-> nextId, quantity |-> Head(inbox).quantity])
        BY <1>3, <3>1 DEF React
      <4> QED
        BY <4>4, <4>5 DEF TypeOK
    <3>2. CASE ~ (Head(inbox).type = "SELL" /\ ~ Leaves(Head(inbox)))
      BY <1>3, <3>2 DEF TypeOK, React
    <3> QED
      BY <3>1, <3>2
  <2> QED
    BY <1>3, <2>2, <2>4, <2>5, <2>3 DEF TypeOK, React, exchange
<1>4. CASE Wake
  <2>1. inbox' \in Seq(Message) /\ received' = FALSE
    BY <1>4 DEF TypeOK, Wake, Take
  <2> QED
    BY <1>4, <2>1 DEF TypeOK, Wake, exchange
<1>5. CASE Resend
  BY <1>5 DEF TypeOK, Resend, trader, exchange
<1>6. ASSUME NEW m \in Market, Tell(m) PROVE TypeOK'
  <2>1. m \in Message
    BY <1>6 DEF Market, Message, Sell, Other
  <2> QED
    BY <1>6, <2>1 DEF TypeOK, Tell, Write, trader
<1>7. CASE Miss \/ Notice \/ Interrupt
  BY <1>7 DEF TypeOK, Miss, Notice, Interrupt, trader, exchange
<1>8. CASE Answer
  <2>1. inbox' \in Seq(Message) /\ pending' = TRUE
    BY <1>8, AnswerWrites DEF TypeOK
  <2>2. orders # <<>> /\ orders' = Tail(orders)
    BY <1>8 DEF Answer
  <2>3. orders' \in Seq(Order)
    BY <2>2 DEF TypeOK
  <2>4. expected' \in Nat /\ refused' \in BOOLEAN
    <3>1. \/ expected' = expected + 1 /\ refused' = refused
          \/ expected' = expected /\ refused' = TRUE
      BY <1>8 DEF Answer
    <3>2. refused' \in BOOLEAN
      BY <3>1, Zenon DEF TypeOK
    <3> QED
      BY <3>1, <3>2 DEF TypeOK
  <2>5. attending' = FALSE /\ UNCHANGED <<received, pc, nextId, alerted, broken, news, resent>>
    BY <1>8 DEF Answer, trader
  <2> QED
    BY <2>1, <2>3, <2>4, <2>5 DEF TypeOK
<1>9. CASE UNCHANGED vars
  BY <1>9 DEF TypeOK, vars, trader, exchange
<1> QED
  BY <1>1, <1>2, <1>3, <1>4, <1>5, <1>6, <1>7, <1>8, <1>9 DEF Next, Trader

\* Reading one message uses up the flag; nothing else takes messages away, and
\* whatever raises a signal has brought a message.
LEMMA MessagesKept == TypeOK /\ MessagesCoverSignals /\ [Next]_vars => MessagesCoverSignals'
<1> SUFFICES ASSUME TypeOK, MessagesCoverSignals, [Next]_vars PROVE MessagesCoverSignals'
  OBVIOUS
<1> USE DEF TypeOK, MessagesCoverSignals, Bit
<1>1. CASE Handler
  BY <1>1 DEF Handler
<1>2. CASE Pause
  BY <1>2 DEF Pause
<1>3. CASE React \/ Wake
  <2>1. Take /\ received /\ pending' = pending /\ pc' # "awake"
    BY <1>3 DEF React, Wake
  <2> QED
    BY <2>1 DEF Take
<1>4. CASE Resend \/ Miss \/ Notice \/ Interrupt
  BY <1>4 DEF Resend, Miss, Notice, Interrupt, trader
<1>5. ASSUME NEW m \in Market, Tell(m) PROVE MessagesCoverSignals'
  BY <1>5 DEF Tell, Write, trader, Market, Sell, Other, Message
<1>6. CASE Answer
  <2>1. pending' = TRUE /\ Len(inbox') >= Len(inbox) + 1
    BY <1>6, AnswerWrites
  <2> QED
    BY <1>6, <2>1 DEF Answer, trader
<1>7. CASE UNCHANGED vars
  BY <1>7 DEF vars, trader
<1> QED
  BY <1>1, <1>2, <1>3, <1>4, <1>5, <1>6, <1>7 DEF Next, Trader

\* An order is written before its signal, and read once for it.
LEMMA OrdersKept == TypeOK /\ OrdersCoverSignals /\ [Next]_vars => OrdersCoverSignals'
<1> SUFFICES ASSUME TypeOK, OrdersCoverSignals, [Next]_vars PROVE OrdersCoverSignals'
  OBVIOUS
<1> USE DEF TypeOK, OrdersCoverSignals, Bit
<1>1. CASE Handler \/ Pause \/ Wake
  BY <1>1 DEF Handler, Pause, Wake, exchange
<1>2. CASE React
  BY <1>2 DEF React, exchange
<1>3. CASE Resend
  BY <1>3 DEF Resend
<1>4. ASSUME NEW m \in Market, Tell(m) PROVE OrdersCoverSignals'
  BY <1>4 DEF Tell
<1>5. CASE Miss \/ Notice
  BY <1>5 DEF Miss, Notice, exchange
<1>6. CASE Interrupt
  <2>1. Len(orders) = 0 /\ attending
    BY <1>6 DEF Interrupt
  <2> QED
    BY <1>6, <2>1 DEF Interrupt
<1>7. CASE Answer
  BY <1>7 DEF Answer
<1>8. CASE UNCHANGED vars
  BY <1>8 DEF vars, exchange
<1> QED
  BY <1>1, <1>2, <1>3, <1>4, <1>5, <1>6, <1>7, <1>8 DEF Next, Trader

\* IDs are given out and awaited one at a time, so the two counters differ by
\* the orders under way, until one is refused.
LEMMA StepKept == TypeOK /\ InStep /\ [Next]_vars => InStep'
<1> SUFFICES ASSUME TypeOK, InStep, [Next]_vars PROVE InStep'
  OBVIOUS
<1>1. CASE Handler \/ Pause \/ Wake
  BY <1>1 DEF TypeOK, InStep, Handler, Pause, Wake, exchange
<1>2. CASE React
  <2>1. CASE Head(inbox).type # "SELL"
    BY <1>2, <2>1 DEF TypeOK, InStep, React, NextId, exchange
  <2>2. CASE Head(inbox).type = "SELL" /\ Leaves(Head(inbox))
    BY <1>2, <2>2 DEF InStep, React
  <2>3. CASE Head(inbox).type = "SELL" /\ ~ Leaves(Head(inbox))
    <3> DEFINE new == [id |-> nextId, quantity |-> Head(inbox).quantity]
    <3>1. orders' = Append(orders, new) /\ nextId' = nextId + 1 /\ pc # "done"
          /\ UNCHANGED <<expected, refused>>
      BY <1>2, <2>3 DEF React, NextId, exchange
    <3>2. new.id = nextId
      OBVIOUS
    <3> HIDE DEF new
    <3>3. /\ DOMAIN orders = 1 .. Len(orders) /\ DOMAIN orders' = 1 .. Len(orders')
          /\ \A i \in DOMAIN orders : orders'[i] = orders[i]
          /\ orders'[Len(orders) + 1] = new
      BY <3>1 DEF TypeOK
    <3>4. Len(orders) \in Nat /\ Len(orders') = Len(orders) + 1 /\ nextId \in Nat
      BY <3>1 DEF TypeOK
    <3>5. /\ nextId' - Len(orders') = nextId - Len(orders)
          /\ nextId = nextId - Len(orders) + (Len(orders) + 1) - 1
      BY <3>1, <3>4
    <3>6. ASSUME NEW i \in DOMAIN orders'
          PROVE  orders'[i].id = nextId - Len(orders) + i - 1
      <4>1. CASE i \in DOMAIN orders
        BY <3>1, <3>3, <4>1 DEF InStep
      <4>2. CASE i = Len(orders) + 1
        BY <3>2, <3>3, <3>5, <4>2
      <4>3. i \in 1 .. Len(orders) + 1
        BY <3>3, <3>4
      <4>4. i \in 1 .. Len(orders) \/ i = Len(orders) + 1
        BY <3>4, <4>3
      <4> QED
        BY <3>3, <4>1, <4>2, <4>4
    <3> QED
      BY <3>1, <3>5, <3>6 DEF InStep
  <2> QED
    BY <2>1, <2>2, <2>3
<1>3. CASE Resend \/ Miss \/ Notice \/ Interrupt
  BY <1>3 DEF InStep, Resend, Miss, Notice, Interrupt, trader, exchange
<1>4. ASSUME NEW m \in Market, Tell(m) PROVE InStep'
  BY <1>4 DEF InStep, Tell, trader
<1>5. CASE Answer
  <2>1. /\ orders # <<>> /\ orders' = Tail(orders) /\ UNCHANGED <<pc, nextId>>
        /\ \/ refused' = refused /\ orders[1].id = expected /\ expected' = expected + 1
           \/ refused' = TRUE /\ expected' = expected
        /\ orders[1].id # expected => refused'
        /\ pc # "done"
    BY <1>5 DEF Answer, trader
  <2>2. /\ Len(orders) \in Nat \ {0} /\ Len(orders') = Len(orders) - 1
        /\ DOMAIN orders = 1 .. Len(orders) /\ DOMAIN orders' = 1 .. Len(orders')
        /\ \A i \in DOMAIN orders' : i + 1 \in DOMAIN orders /\ orders'[i] = orders[i + 1]
    BY <2>1 DEF TypeOK
  <2> QED
    BY <2>1, <2>2 DEF TypeOK, InStep
<1>6. CASE UNCHANGED vars
  BY <1>6 DEF InStep, vars, trader, exchange
<1> QED
  BY <1>1, <1>2, <1>3, <1>4, <1>5, <1>6 DEF Next, Trader
-----------------------------------------------------------------------------
\* The inductive invariant holds in every state of the protocol.
THEOREM ProtocolInvariant == Spec => []IInv
<1>1. IInv /\ [Next]_vars => IInv'
  BY TypeKept, MessagesKept, OrdersKept, StepKept DEF IInv
<1> QED
  BY InitInvariant, <1>1, PTL DEF Spec

\* The state of trader and exchange keeps its shape; no order is as large as
\* the limit at which the trader leaves.
THEOREM TypeCorrect == Spec => []TypeOK
<1>1. IInv => TypeOK
  BY DEF IInv
<1> QED
  BY <1>1, ProtocolInvariant, PTL

\* The trader never reads an empty pipe, in process_msg of pe_trader.c.
THEOREM TraderNeverBlocks == Spec => []ReadsNeverBlock
<1>1. IInv => ReadsNeverBlock
  BY DEF IInv, TypeOK, MessagesCoverSignals, Bit, ReadsNeverBlock
<1> QED
  BY <1>1, ProtocolInvariant, PTL

\* The order IDs of trader and exchange stay in step until the first refusal,
\* and out of step after it.
THEOREM IdsInStep == Spec => []InStep
<1>1. IInv => InStep
  BY DEF IInv
<1> QED
  BY <1>1, ProtocolInvariant, PTL

\* Only a trader that signals again makes the exchange read an empty pipe.
THEOREM OnlyResendingBreaks == Spec => []EmptyReadNeedsResend
<1>1. IInv => EmptyReadNeedsResend
  <2> SUFFICES ASSUME IInv, attending, orders = <<>>, ~ resent PROVE FALSE
    BY DEF IInv, OrdersCoverSignals, EmptyReadNeedsResend
  <2>1. Len(orders) = 0
    OBVIOUS
  <2> QED
    BY <2>1 DEF IInv, TypeOK, OrdersCoverSignals, Bit
<1> QED
  BY <1>1, ProtocolInvariant, PTL
=============================================================================
