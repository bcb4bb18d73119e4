---------------------------- MODULE SectorArray ----------------------------
(***************************************************************************)
(* What the file system counts on when it talks to the disk: an array of   *)
(* sectors, written at once and read one request at a time, where a read   *)
(* returns what was written last.                                          *)
(*                                                                         *)
(* When the file system is killed the disk server may also put zeros into  *)
(* a sector.                                                               *)
(***************************************************************************)
EXTENDS Sequences

CONSTANTS Sectors, Zero

VARIABLES arr,    \* the contents of every sector
          asked,  \* the sector being read, as a set of at most one
          reply   \* the answer on its way back, at most one

vars == <<arr, asked, reply>>

Quiet == asked = {} /\ reply = <<>>

Init == DOMAIN arr = Sectors /\ Quiet

Write(s) == /\ Quiet
            /\ arr' = [arr EXCEPT ![s] = arr'[s]]
            /\ UNCHANGED <<asked, reply>>

Read(s) == /\ Quiet
           /\ asked' = {s}
           /\ UNCHANGED <<arr, reply>>

Answer(s) == /\ asked = {s}
             /\ asked' = {}
             /\ reply' = <<arr[s]>>
             /\ UNCHANGED arr

Take == /\ reply # <<>>
        /\ reply' = <<>>
        /\ UNCHANGED <<arr, asked>>

Lose(s) == /\ arr' = [arr EXCEPT ![s] = Zero]
           /\ UNCHANGED <<asked, reply>>

Next == Take \/ \E s \in Sectors : Write(s) \/ Read(s) \/ Answer(s) \/ Lose(s)

Spec == Init /\ [][Next]_vars
=============================================================================
