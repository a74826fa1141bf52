----------------------------- MODULE AutoTrader -----------------------------
(***************************************************************************)
(* pe_trader.c against an exchange: the trader buys whatever MARKET SELL   *)
(* offers, and signals again while no answer comes.                        *)
(*                                                                         *)
(* The exchange is what ExchangeLoop and OrderBook let a trader see of it: *)
(* it writes a message and then signals, may overlook a signal, reads one  *)
(* order for each signal it notices, and accepts an order if its ID is the *)
(* next one and its terms are valid.  If there is none it waits in read,   *)
(* and a further signal there makes it release its memory: nothing can be  *)
(* said of it any more.  Both SIGUSR1 are single bits, so signals merge in *)
(* either direction.                                                       *)
(***************************************************************************)
EXTENDS Integers, Sequences

CONSTANTS
  Quantities,  \* of the MARKET SELL messages; 0 is that of a cancelled sell
  Limit,       \* 1000: the trader leaves at this quantity
  MaxNews      \* bound: MARKET messages in a behaviour

ASSUME AutoTraderAssumption ==
  Quantities \subseteq Nat /\ Limit \in Nat \ {0} /\ MaxNews \in Nat

VARIABLES
  inbox,      \* the unread messages of the exchange pipe
  pending,    \* SIGUSR1 is pending for the trader
  received,   \* signal_received
  pc, nextId, \* where the trader is; trader_order_ID
  orders,     \* the unread orders of the trader pipe
  alerted,    \* a SIGUSR1 of the trader has not been noticed yet
  attending,  \* the exchange has noticed one and wants to read an order
  broken,     \* a signal has interrupted its read of an empty pipe
  expected,   \* the order_ID that the exchange will accept next
  refused,    \* history: it has refused an order of the trader
  resent,     \* history: the trader has signalled without an order
  news        \* how many MARKET messages there have been

trader == <<received, pc, nextId>>
exchange == <<attending, broken, expected, refused, news>>
vars == <<inbox, pending, trader, orders, alerted, exchange, resent>>

Sell(q) == [type |-> "SELL", quantity |-> q]
Other(type) == [type |-> type]
Message == [type : {"SELL"}, quantity : Quantities]
           \cup [type : {"OPEN", "BUY", "FILL", "ACCEPTED", "INVALID"}]
-----------------------------------------------------------------------------
(* The trader *)

\* handler; the signal ends a pause, but not one that has yet to begin.
Handler ==
  /\ pending
  /\ pending' = FALSE
  /\ received' = TRUE
  /\ pc' = IF pc = "pausing" THEN "awake" ELSE pc
  /\ UNCHANGED <<inbox, nextId, orders, alerted, exchange, resent>>

Pause ==
  /\ pc = "pause"
  /\ pc' = "pausing"
  /\ UNCHANGED <<inbox, pending, received, nextId, orders, alerted, exchange, resent>>

\* Mutant: the flag is left up.
TakeFlagged ==
  /\ inbox # <<>>
  /\ inbox' = Tail(inbox)
  /\ UNCHANGED received

\* process_msg: the oldest message; the read waits for one.
Take ==
  /\ inbox # <<>>
  /\ inbox' = Tail(inbox)
  /\ received' = FALSE

\* Mutant: an ID is used for every message of the market.
NextIdOfMarket(m) == IF m.type \in {"SELL", "BUY"} THEN nextId + 1 ELSE nextId

NextId(m) == IF m.type = "SELL" THEN nextId + 1 ELSE nextId

\* Mutant: the quantity itself is still bought.
LeavesBeyond(m) == m.quantity > Limit

Leaves(m) == m.quantity >= Limit

\* create_buy_order, the test of the quantity, and write_and_kill.
React ==
  /\ pc = "awake" /\ received
  /\ Take
  /\ LET m == Head(inbox)
     IN  /\ nextId' = NextId(m)
         /\ \/ /\ m.type # "SELL"
               /\ pc' = "pause"
               /\ UNCHANGED <<orders, alerted>>
            \/ /\ m.type = "SELL" /\ Leaves(m)
               /\ pc' = "done"
               /\ UNCHANGED <<orders, alerted>>
            \/ /\ m.type = "SELL" /\ ~ Leaves(m)
               /\ pc' = "wait"
               /\ orders' = Append(orders, [id |-> nextId, quantity |-> m.quantity])
               /\ alerted' = TRUE
  /\ UNCHANGED <<pending, exchange, resent>>

\* The first message after an order ends the wait, whatever it says.
Wake ==
  /\ pc = "wait" /\ received
  /\ Take
  /\ pc' = "pause"
  /\ UNCHANGED <<pending, nextId, orders, alerted, exchange, resent>>

\* Mutant: the trader only sleeps.
Oversleep ==
  /\ pc = "wait" /\ ~ received
  /\ resent' = TRUE
  /\ UNCHANGED <<inbox, pending, trader, orders, alerted, exchange>>

\* 0.3 s have passed without a signal.
Resend ==
  /\ pc = "wait" /\ ~ received
  /\ alerted' = TRUE
  /\ resent' = TRUE
  /\ UNCHANGED <<inbox, pending, trader, orders, exchange>>

Trader == Pause \/ React \/ Wake \/ Resend
-----------------------------------------------------------------------------
(* The exchange *)

Write(messages) ==
  /\ inbox' = inbox \o messages
  /\ pending' = TRUE

Tell(m) ==
  /\ pc # "done" /\ ~ broken /\ news < MaxNews
  /\ news' = news + 1
  /\ Write(<<m>>)
  /\ UNCHANGED <<trader, orders, alerted, attending, broken, expected, refused, resent>>

\* "The market is often busy and may miss the signals."
Miss ==
  /\ alerted /\ ~ broken
  /\ alerted' = FALSE
  /\ UNCHANGED <<inbox, pending, trader, orders, exchange, resent>>

\* Mutant: the signal is not taken off its queue.
NoticeAgain ==
  /\ alerted /\ ~ attending /\ ~ broken
  /\ attending' = TRUE
  /\ UNCHANGED <<inbox, pending, trader, orders, alerted, broken, expected, refused, news, resent>>

Notice ==
  /\ alerted /\ ~ attending /\ ~ broken
  /\ alerted' = FALSE
  /\ attending' = TRUE
  /\ UNCHANGED <<inbox, pending, trader, orders, broken, expected, refused, news, resent>>

\* The handler interrupts the read, which returns nothing.
Interrupt ==
  /\ alerted /\ attending /\ orders = <<>> /\ ~ broken
  /\ alerted' = FALSE
  /\ broken' = TRUE
  /\ UNCHANGED <<inbox, pending, trader, orders, attending, expected, refused, news, resent>>

\* An accepted order may be filled at once.
Answer ==
  /\ pc # "done" /\ attending /\ ~ broken /\ orders # <<>>
  /\ orders' = Tail(orders)
  /\ attending' = FALSE
  /\ IF Head(orders).id = expected /\ Head(orders).quantity >= 1
     THEN /\ expected' = expected + 1
          /\ \/ Write(<<Other("ACCEPTED")>>)
             \/ Write(<<Other("ACCEPTED"), Other("FILL")>>)
          /\ UNCHANGED refused
     ELSE /\ refused' = TRUE
          /\ Write(<<Other("INVALID")>>)
          /\ UNCHANGED expected
  /\ UNCHANGED <<trader, alerted, broken, news, resent>>
-----------------------------------------------------------------------------
Init ==
  /\ inbox = <<Other("OPEN")>> /\ pending = TRUE
  /\ received = FALSE /\ pc = "pause" /\ nextId = 0
  /\ orders = <<>> /\ alerted = FALSE /\ attending = FALSE /\ broken = FALSE
  /\ expected = 0 /\ refused = FALSE /\ resent = FALSE /\ news = 0

Market == {Sell(q) : q \in Quantities} \cup {Other("BUY")}

Next ==
  \/ Handler \/ Trader
  \/ \E m \in Market : Tell(m)
  \/ Miss \/ Notice \/ Interrupt \/ Answer

\* Both processes run and signals are delivered; the exchange does not miss
\* every one of the trader's signals.
Spec ==
  /\ Init /\ [][Next]_vars
  /\ WF_vars(Handler) /\ WF_vars(Trader) /\ SF_vars(Notice) /\ WF_vars(Answer)
-----------------------------------------------------------------------------
(* Properties *)

Order == [id : Nat, quantity : 0 .. Limit - 1]

\* The shape of the state; the trader never orders as much as its limit.
TypeOK ==
  /\ inbox \in Seq(Message)
  /\ pc \in {"pause", "pausing", "awake", "wait", "done"}
  /\ nextId \in Nat /\ expected \in Nat
  /\ orders \in Seq(Order)
  /\ news \in 0 .. MaxNews
  /\ pending \in BOOLEAN /\ received \in BOOLEAN /\ alerted \in BOOLEAN /\ attending \in BOOLEAN
  /\ broken \in BOOLEAN /\ refused \in BOOLEAN /\ resent \in BOOLEAN

\* However the signals merge, the trader never reads an empty pipe: it would
\* block there with an order unanswered, and its resending with it.
ReadsNeverBlock == pc = "awake" \/ (pc = "wait" /\ received) => received /\ inbox # <<>>

\* The orders that the exchange has yet to read have successive IDs up to the
\* last one given out.  They start with the ID that the exchange expects as
\* long as it has refused none, and are beyond it ever after: one refusal, and
\* no later order can be accepted.
InStep ==
  LET first == nextId - Len(orders)
  IN  pc # "done" => /\ \A i \in DOMAIN orders : orders[i].id = first + i - 1
                     /\ IF refused THEN first > expected ELSE first = expected

\* The exchange waits for an order that is not there, and breaks when it is
\* interrupted, only because the trader has signalled again for an order that
\* was only late.
EmptyReadNeedsResend == broken \/ (attending /\ orders = <<>>) => resent

\* Whatever the exchange misses, a trader that waits for an answer gets one,
\* unless its own resending has broken the exchange.
WaitEnds == pc = "wait" ~> pc # "wait" \/ broken

\* "Wait for accept message": the wait ends with the ACCEPTED of the order.
WaitsForAcceptance ==
  [][pc = "wait" /\ pc' = "pause" => Head(inbox).type = "ACCEPTED"]_vars
=============================================================================
