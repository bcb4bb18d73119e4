-------------------------- MODULE MCStoogeFarmers --------------------------
(***************************************************************************)
(* StoogeFarmers for TLC: four holes to fill, and every limit from 0 (the  *)
(* program never ends) over 1 (Larry waits for Moe after each hole) to one *)
(* that never holds Larry back.                                            *)
(***************************************************************************)
EXTENDS StoogeFarmers

const_Limits == 0..4
============================================================================
