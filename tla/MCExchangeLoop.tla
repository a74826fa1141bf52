--------------------------- MODULE MCExchangeLoop ---------------------------
(* Small instances of ExchangeLoop for TLC. *)
EXTENDS ExchangeLoop
=============================================================================
