---------------------------- MODULE MCThreadPool ----------------------------
(***************************************************************************)
(* ThreadPool for TLC: two workers and three tasks are enough for a worker *)
(* to be idle while another is busy and a task is queued, for a push to    *)
(* race a park, and for a shutdown to meet a non-empty list.               *)
(***************************************************************************)
EXTENDS ThreadPool

CONSTANTS w1, w2, t1, t2, t3

const_Workers == {w1, w2}
const_Tasks == {t1, t2, t3}
=============================================================================
