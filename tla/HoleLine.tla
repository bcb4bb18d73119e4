------------------------------ MODULE HoleLine ------------------------------
(***************************************************************************)
(* What the three stooge farmers promise: holes are dug, seeded and filled *)
(* one after the other, each hole in that order, and no more than Limit    *)
(* dug holes are unfilled at any time.  No threads and no semaphores.      *)
(***************************************************************************)
EXTENDS Naturals

CONSTANT Target          \* how many holes there are

VARIABLES limit, dug, seeded, filled

vars == <<limit, dug, seeded, filled>>

Init == limit \in Nat /\ dug = 0 /\ seeded = 0 /\ filled = 0

Dig == /\ dug < Target
       /\ dug - filled < limit
       /\ dug' = dug + 1
       /\ UNCHANGED <<limit, seeded, filled>>

Seed == /\ seeded < dug
        /\ seeded' = seeded + 1
        /\ UNCHANGED <<limit, dug, filled>>

Fill == /\ filled < seeded
        /\ filled' = filled + 1
        /\ UNCHANGED <<limit, dug, seeded>>

Next == Dig \/ Seed \/ Fill

Spec == Init /\ [][Next]_vars
=============================================================================
