---------------------------- MODULE MCAutoTrader ----------------------------
(* Small instances of AutoTrader for TLC. *)
EXTENDS AutoTrader
=============================================================================
