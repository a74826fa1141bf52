--------------------------- MODULE MCSignalQueue ---------------------------
(* Small instances of SignalQueue for TLC. *)
EXTENDS SignalQueue
=============================================================================
