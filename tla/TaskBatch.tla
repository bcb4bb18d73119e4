------------------------------ MODULE TaskBatch ------------------------------
(***************************************************************************)
(* What thread_pool.h promises its one client: tasks are handed in, each   *)
(* is executed at most once, pool_wait comes back only when none is left,  *)
(* and pool_destroy comes back only when none is left either.  No threads, *)
(* no mutex, no counters, no wakeups.                                      *)
(***************************************************************************)
CONSTANT Tasks

VARIABLES waiting,  \* handed in, not begun
          active,   \* begun, not completed
          done,     \* completed
          phase     \* what the client is doing

vars == <<waiting, active, done, phase>>

Quiet == waiting = {} /\ active = {}

Init == waiting = {} /\ active = {} /\ done = {} /\ phase = "open"

Submit(t) == /\ phase = "open"
             /\ t \notin waiting \cup active \cup done
             /\ waiting' = waiting \cup {t}
             /\ UNCHANGED <<active, done, phase>>

Begin(t) == /\ t \in waiting
            /\ phase \in {"open", "awaiting"}
            /\ waiting' = waiting \ {t}
            /\ active' = active \cup {t}
            /\ UNCHANGED <<done, phase>>

Complete(t) == /\ t \in active
               /\ active' = active \ {t}
               /\ done' = done \cup {t}
               /\ UNCHANGED <<waiting, phase>>

Await == /\ phase = "open"
         /\ phase' = "awaiting"
         /\ UNCHANGED <<waiting, active, done>>

AwaitReturn == /\ phase = "awaiting" /\ Quiet
               /\ phase' = "open"
               /\ UNCHANGED <<waiting, active, done>>

Close == /\ phase = "open"
         /\ phase' = "closing"
         /\ UNCHANGED <<waiting, active, done>>

CloseReturn == /\ phase = "closing" /\ Quiet
               /\ phase' = "closed"
               /\ UNCHANGED <<waiting, active, done>>

Next == \/ \E t \in Tasks : Submit(t) \/ Begin(t) \/ Complete(t)
        \/ Await \/ AwaitReturn \/ Close \/ CloseReturn

Spec == Init /\ [][Next]_vars
==============================================================================
