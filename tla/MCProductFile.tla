--------------------------- MODULE MCProductFile ---------------------------
(* Small instances of ProductFile for TLC. *)
EXTENDS ProductFile
=============================================================================
