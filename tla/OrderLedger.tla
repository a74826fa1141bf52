---------------------------- MODULE OrderLedger ----------------------------
(***************************************************************************)
(* What a trader can know of its own orders.  `due' is what each trader    *)
(* would write down from the messages in its pipe alone, in their order:   *)
(* the quantity it asked for when an order is accepted or amended, less    *)
(* the fills, and nothing once it is cancelled.                            *)
(***************************************************************************)
EXTENDS OrderBook

VARIABLE due   \* due[t][id]: the units trader t believes order id still wants

ledgerVars == <<vars, due>>
ledgerState == <<state, due>>

\* One message read by a trader whose last request was for `asked' units.
Note(entry, msg, asked) ==
  CASE msg.type \in {"ACCEPTED", "AMENDED"} -> [entry EXCEPT ![msg.id] = asked]
    [] msg.type = "CANCELLED"               -> [entry EXCEPT ![msg.id] = 0]
    [] msg.type = "FILL"                    -> [entry EXCEPT ![msg.id] = @ - msg.quantity]
    [] OTHER                                -> entry

Noted(entry, msgs, asked) == FoldLeft(LAMBDA e, msg : Note(e, msg, asked), entry, msgs)

\* Every trader reads what the step wrote.
Read(asked) == due' = [t \in Traders |-> Noted(due[t], out'[t], asked)]

Asked(m) == IF m.type \in {"BUY", "SELL", "AMEND"} THEN m.quantity ELSE 0

LedgerInit == Init /\ due = [t \in Traders |-> [id \in 0 .. MaxOrderId |-> 0]]

LedgerNext ==
  \/ \E t \in Traders, m \in Commands : ParseMsg(t, m) /\ Read(Asked(m))
  \/ (Match \/ Rest \/ \E t \in Traders : TraderDied(t)) /\ Read(0)
  \/ Completed /\ UNCHANGED due

LedgerSpec == LedgerInit /\ [][LedgerNext]_ledgerVars

\* The units that order id of trader t still wants.
Outstanding(t, id) ==
  SumFunction([at \in FindOrder(t, id) |-> book[at[1]][at[2]][at[3]].quantity])
  + When(~ Idle /\ taker.trader = t /\ taker.id = id, taker.quantity)

\* Acknowledgements and fills reach every live trader in an order, and with
\* quantities, from which it can tell at each moment, also between two passes
\* of the matching loop, exactly what is left of each of its orders.
LedgerAgrees ==
  \A t \in Traders, id \in 0 .. MaxOrderId :
    alive[t] => due[t][id] = Outstanding(t, id)
=============================================================================
