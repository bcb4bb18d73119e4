-------------------------- MODULE MCMatrixMultiply --------------------------
(***************************************************************************)
(* MatrixMultiply for TLC: two workers (the program starts 4) and sizes    *)
(* from 0 to 2, so that no task, one task and more tasks than workers      *)
(* occur.                                                                  *)
(***************************************************************************)
EXTENDS MatrixMultiply

CONSTANTS w1, w2

const_Workers == {w1, w2}
=============================================================================
