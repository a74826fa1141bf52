------------------------ MODULE OrderBookRefinement ------------------------
(***************************************************************************)
(* OrderBook implements PriceTimePriority.  The message is the abstract    *)
(* step: the abstract state is what the book and the accounts will be once *)
(* the taker has been matched, so that the passes of the loop stutter.     *)
(***************************************************************************)
EXTENDS OrderBook

Now == INSTANCE PriceTimePriority

MatchedBook == IF Idle THEN book ELSE Now!Clear(book, taker)

MatchedAccounts ==
  IF Idle THEN [pos |-> pos, fees |-> fees]
  ELSE Now!Traded(book, taker, [pos |-> pos, fees |-> fees])

Matched == INSTANCE PriceTimePriority WITH book <- MatchedBook,
             pos <- MatchedAccounts.pos, fees <- MatchedAccounts.fees

\* Every accepted message trades by price-time priority, whatever the order in
\* which the code finds its counterparties and edits its lists.
KeepsPromise == Matched!Spec
=============================================================================
