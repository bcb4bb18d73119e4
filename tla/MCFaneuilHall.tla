--------------------------- MODULE MCFaneuilHall ---------------------------
(***************************************************************************)
(* FaneuilHall for TLC: with three immigrants (the program has ten) there  *)
(* is a first, a last, and one before the last.                            *)
(***************************************************************************)
EXTENDS FaneuilHall
============================================================================
