-------------------------- MODULE ThreadPoolProofs --------------------------
(***************************************************************************)
(* Proofs about ThreadPool for every finite set of workers and every set   *)
(* of tasks.                                                               *)
(*                                                                         *)
(* PoolInv is inductive.  Its two main parts: working_cnt is the number of *)
(* workers between the pop and the lock after the task, so that Drained    *)
(* speaks about the workers; and every task begun and not completed is the *)
(* task of exactly one running worker, so that it speaks about the tasks.  *)
(***************************************************************************)
EXTENDS ThreadPool, FiniteSetTheorems, SequenceTheorems, TLAPS

Running == {w \in Workers : pc[w] = "running"}

Distinct(s) == \A i, j \in 1..Len(s) : s[i] = s[j] => i = j

\* The list and the tasks popped from it: no task is there twice.
TasksOnce == /\ Distinct(queue)
             /\ SeqElements(queue) \cap SeqElements(started) = {}
             /\ SeqElements(pushed) = SeqElements(queue) \cup SeqElements(started)
             /\ finished \subseteq SeqElements(started)

\* The tasks begun and not completed are those of the running workers, one each.
OneWorkerEach ==
    /\ \A w \in Running : task[w] \in SeqElements(started) \ finished
    /\ \A v, w \in Running : task[v] = task[w] => v = w
    /\ \A t \in SeqElements(started) \ finished : \E w \in Running : task[w] = t

\* shutdown tells whether pool_destroy has been called.
ShutdownIsPhase == shutdown <=> client \in {"destroyWait", "destroyBlocked", "gone"}

Alive == {w \in Workers : pc[w] # "exited"}

Counts == working_cnt = Cardinality(Busy) /\ thread_cnt = Cardinality(Alive)

PoolInv == /\ TypeOK /\ HandedOutInOrder /\ FreedOnlyWhenQuiet /\ Counts
           /\ TasksOnce /\ OneWorkerEach /\ ShutdownIsPhase

----------------------------------------------------------------------------
(* Lemmas about the list *)

(* Linking a task in behind task_tail adds it to the list's tasks. *)
LEMMA AppendElements ==
    ASSUME NEW S, NEW s \in Seq(S), NEW x
    PROVE  SeqElements(Append(s, x)) = SeqElements(s) \cup {x}
<1>1. Len(Append(s, x)) = Len(s) + 1 /\ Len(s) \in Nat
    OBVIOUS
<1>2. /\ Append(s, x)[Len(s) + 1] = x
      /\ \A i \in 1..Len(s) : Append(s, x)[i] = s[i]
    OBVIOUS
<1>3. \A i \in 1..Len(s) + 1 : i \in 1..Len(s) \/ i = Len(s) + 1
    BY <1>1
<1>4. 1..Len(s) \subseteq 1..Len(s) + 1 /\ Len(s) + 1 \in 1..Len(s) + 1
    BY <1>1
<1>5. QED
    BY <1>1, <1>2, <1>3, <1>4 DEF SeqElements

(* A task that is not in the list can be linked in without being there twice. *)
LEMMA AppendDistinct ==
    ASSUME NEW S, NEW s \in Seq(S), NEW x, x \notin SeqElements(s), Distinct(s)
    PROVE  Distinct(Append(s, x))
BY DEF SeqElements, Distinct

(* task_pop takes one task out of the list's tasks, and the rest stay distinct. *)
LEMMA TailElements ==
    ASSUME NEW S, NEW s \in Seq(S), s # <<>>, Distinct(s)
    PROVE  /\ Head(s) \in SeqElements(s)
           /\ SeqElements(Tail(s)) = SeqElements(s) \ {Head(s)}
           /\ Distinct(Tail(s))
<1>1. /\ Len(s) \in Nat /\ Len(s) > 0
      /\ Len(Tail(s)) = Len(s) - 1
      /\ Head(s) = s[1]
      /\ \A i \in 1..Len(s) - 1 : Tail(s)[i] = s[i + 1]
    OBVIOUS
<1>2. \A i \in 1..Len(s) : i = 1 \/ i - 1 \in 1..Len(s) - 1
    BY <1>1
<1>3. \A i \in 1..Len(s) - 1 : i + 1 \in 1..Len(s) /\ i + 1 # 1
    BY <1>1
<1>4. Head(s) \in SeqElements(s)
    BY <1>1 DEF SeqElements
<1>5. Distinct(Tail(s))
    BY <1>1, <1>3 DEF Distinct
<1>6. ASSUME NEW t PROVE t \in SeqElements(Tail(s)) => t \in SeqElements(s) \ {Head(s)}
    BY <1>1, <1>3 DEF SeqElements, Distinct
<1>7. ASSUME NEW t PROVE t \in SeqElements(s) \ {Head(s)} => t \in SeqElements(Tail(s))
    <2> SUFFICES ASSUME t \in SeqElements(s) \ {Head(s)}
                 PROVE  t \in SeqElements(Tail(s))
        OBVIOUS
    <2>1. PICK i \in 1..Len(s) : t = s[i]
        BY DEF SeqElements
    <2>2. i # 1
        BY <2>1, <1>1
    <2>3. i - 1 \in 1..Len(s) - 1 /\ (i - 1) + 1 = i
        BY <2>2, <1>2
    <2>4. Tail(s)[i - 1] = t
        BY <2>1, <2>3, <1>1
    <2>5. QED
        BY <2>3, <2>4, <1>1 DEF SeqElements
<1>8. QED
    BY <1>4, <1>5, <1>6, <1>7

(* The tasks of a list of tasks are tasks. *)
LEMMA ElementsInSet ==
    ASSUME NEW S, NEW s \in Seq(S)
    PROVE  SeqElements(s) \subseteq S
BY DEF SeqElements

(* There are finitely many workers busy, and finitely many alive. *)
LEMMA CountsFinite == /\ IsFiniteSet(Busy) /\ Cardinality(Busy) \in Nat
                      /\ IsFiniteSet(Alive) /\ Cardinality(Alive) \in Nat
<1>1. Busy \subseteq Workers /\ Alive \subseteq Workers
    BY DEF Busy, Alive
<1>2. QED
    BY <1>1, PoolAssumption, FS_Subset, FS_CardinalityType

----------------------------------------------------------------------------
(* The invariant *)

(* The pool starts in the invariant. *)
LEMMA InitPoolInv == Init => PoolInv
<1> SUFFICES ASSUME Init PROVE PoolInv
    OBVIOUS
<1>1. Busy = {} /\ Running = {}
    BY DEF Init, Busy, Running
<1>2. Counts
    <2>1. Alive = Workers
        BY DEF Init, Alive
    <2>2. QED
        BY <1>1, <2>1, FS_EmptySet DEF Init, Counts
<1>3. TypeOK
    <2>1. thread_cnt \in Nat
        BY PoolAssumption, FS_CardinalityType DEF Init
    <2>2. pc \in [Workers -> WorkerPC] /\ task \in [Workers -> Tasks \cup {NoTask}]
        BY DEF Init, WorkerPC
    <2>3. queue \in Seq(Tasks) /\ pushed \in Seq(Tasks) /\ started \in Seq(Tasks)
        BY DEF Init
    <2>4. working_cnt \in Nat /\ shutdown \in BOOLEAN /\ client \in ClientPC /\ finished \subseteq Tasks
        BY DEF Init, ClientPC
    <2>5. QED
        BY <2>1, <2>2, <2>3, <2>4 DEF TypeOK
<1>4. SeqElements(queue) = {} /\ SeqElements(pushed) = {} /\ SeqElements(started) = {}
    BY DEF Init, SeqElements
<1>5. TasksOnce
    <2>1. Distinct(queue)
        BY DEF Init, Distinct
    <2>2. finished = {}
        BY DEF Init
    <2>3. QED
        BY <1>4, <2>1, <2>2 DEF TasksOnce
<1>6. OneWorkerEach
    BY <1>1, <1>4 DEF OneWorkerEach
<1>7. HandedOutInOrder /\ FreedOnlyWhenQuiet /\ ShutdownIsPhase
    BY <1>1 DEF Init, HandedOutInOrder, FreedOnlyWhenQuiet, ShutdownIsPhase
<1>8. QED
    BY <1>2, <1>3, <1>5, <1>6, <1>7 DEF PoolInv

(* A step that leaves the tasks and the busy workers alone keeps the invariant, if it *)
(* frees the pool only when nobody is busy.                                           *)
LEMMA IdleStepKeepsPoolInv ==
    ASSUME PoolInv, TypeOK', ShutdownIsPhase', thread_cnt' = Cardinality(Alive'),
           UNCHANGED <<queue, working_cnt, task, pushed, started, finished>>,
           Busy' = Busy, Running' = Running,
           client' = "gone" => client = "gone" \/ Busy = {}
    PROVE  PoolInv'
<1>1. Counts' /\ FreedOnlyWhenQuiet' /\ HandedOutInOrder'
    BY DEF PoolInv, Counts, FreedOnlyWhenQuiet, HandedOutInOrder
<1>2. /\ SeqElements(queue)' = SeqElements(queue)
      /\ SeqElements(started)' = SeqElements(started)
      /\ SeqElements(pushed)' = SeqElements(pushed)
    BY DEF SeqElements
<1>3. TasksOnce'
    <2>1. Distinct(queue)'
        BY DEF PoolInv, TasksOnce, Distinct
    <2>2. QED
        BY <1>2, <2>1 DEF PoolInv, TasksOnce
<1>4. OneWorkerEach'
    BY <1>2, Zenon DEF PoolInv, OneWorkerEach
<1>5. QED
    BY <1>1, <1>3, <1>4 DEF PoolInv

(* Going to sleep, waking up and touching a freed pool are such steps. *)
LEMMA SleepersKeepPoolInv ==
    ASSUME PoolInv, NEW w \in Workers, Park(w) \/ SpuriousWakeWorker(w) \/ TouchFreed(w)
    PROVE  PoolInv'
<1>1. /\ UNCHANGED <<queue, working_cnt, thread_cnt, shutdown, task, client, pushed, started, finished>>
      /\ pc' \in [Workers -> WorkerPC]
      /\ \A v \in Workers \ {w} : pc'[v] = pc[v]
      /\ pc[w] \in {"lock", "parked"} /\ pc'[w] \in {"lock", "parked", "undefined"}
    BY DEF PoolInv, TypeOK, WorkerPC, Park, SpuriousWakeWorker, TouchFreed, pool
<1>2. Busy' = Busy
    BY <1>1 DEF Busy
<1>3. Running' = Running
    BY <1>1 DEF Running
<1>4. Alive' = Alive
    BY <1>1 DEF Alive
<1>5. TypeOK'
    BY <1>1 DEF PoolInv, TypeOK
<1>6. ShutdownIsPhase'
    BY <1>1, Zenon DEF PoolInv, ShutdownIsPhase
<1>7. QED
    BY <1>1, <1>2, <1>3, <1>4, <1>5, <1>6, IdleStepKeepsPoolInv DEF PoolInv, Counts

(* A worker that leaves at a shutdown takes nothing with it but itself. *)
LEMMA ExitKeepsPoolInv ==
    ASSUME PoolInv, NEW w \in Workers, Exit(w)
    PROVE  PoolInv'
<1>1. /\ UNCHANGED <<queue, working_cnt, shutdown, task, pushed, started, finished>>
      /\ thread_cnt' = thread_cnt - 1
      /\ pc' = [pc EXCEPT ![w] = "exited"] /\ pc[w] = "lock"
      /\ pc \in [Workers -> WorkerPC]
    BY DEF PoolInv, TypeOK, Exit
<1>2. Busy' = Busy /\ Running' = Running
    BY <1>1 DEF Busy, Running
<1>3. Alive' = Alive \ {w} /\ w \in Alive
    BY <1>1 DEF Alive
<1>4. thread_cnt' = Cardinality(Alive') /\ thread_cnt' \in Nat
    <2>1. /\ Cardinality(Alive \ {w}) = Cardinality(Alive) - 1
          /\ IsFiniteSet(Alive \ {w})
        BY <1>3, CountsFinite, FS_RemoveElement
    <2>2. Cardinality(Alive \ {w}) \in Nat
        BY <2>1, FS_CardinalityType
    <2>3. QED
        BY <1>1, <1>3, <2>1, <2>2 DEF PoolInv, Counts
<1>5. /\ client # "gone" /\ client' \in ClientPC /\ client' # "gone"
      /\ (client' \in {"destroyWait", "destroyBlocked", "gone"}
            <=> client \in {"destroyWait", "destroyBlocked", "gone"})
    BY DEF PoolInv, TypeOK, ClientPC, Exit, WakeClient
<1>6. TypeOK'
    BY <1>1, <1>4, <1>5 DEF PoolInv, TypeOK, WorkerPC
<1>7. ShutdownIsPhase'
    BY <1>1, <1>5, Zenon DEF PoolInv, ShutdownIsPhase
<1>8. QED
    BY <1>1, <1>2, <1>4, <1>5, <1>6, <1>7, IdleStepKeepsPoolInv

(* The client's calls and returns are idle steps too: pool_destroy frees the pool only *)
(* when working_cnt is 0, that is, when no worker is busy.                             *)
LEMMA CallsKeepPoolInv ==
    ASSUME PoolInv,
           WaitCall \/ WaitBlock \/ WaitReturn \/ SpuriousWakeClient \/ DestroyReturn
    PROVE  PoolInv'
<1>1. /\ UNCHANGED <<queue, working_cnt, thread_cnt, shutdown, pc, task, pushed, started, finished>>
      /\ client' \in ClientPC
      /\ (client' \in {"destroyWait", "destroyBlocked", "gone"}
            <=> client \in {"destroyWait", "destroyBlocked", "gone"})
      /\ client' = "gone" => working_cnt = 0
    BY DEF PoolInv, TypeOK, ClientPC, pool, Drained,
           WaitCall, WaitBlock, WaitReturn, SpuriousWakeClient, WakeClient, DestroyReturn
<1>2. Busy' = Busy /\ Running' = Running /\ Alive' = Alive
    BY <1>1 DEF Busy, Running, Alive
<1>3. client' = "gone" => Busy = {}
    BY <1>1, CountsFinite, FS_EmptySet DEF PoolInv, Counts
<1>4. TypeOK'
    BY <1>1 DEF PoolInv, TypeOK
<1>5. ShutdownIsPhase'
    BY <1>1, Zenon DEF PoolInv, ShutdownIsPhase
<1>6. QED
    BY <1>1, <1>2, <1>3, <1>4, <1>5, IdleStepKeepsPoolInv DEF PoolInv, Counts

(* What WakeWorkers leaves alone: who is busy and who is alive. *)
LEMMA WakeWorkersEffect ==
    ASSUME pc \in [Workers -> WorkerPC], WakeWorkers
    PROVE  /\ pc' \in [Workers -> WorkerPC]
           /\ Busy' = Busy /\ Running' = Running /\ Alive' = Alive
<1>1. /\ pc' \in [Workers -> WorkerPC]
      /\ \A v \in Workers : pc'[v] = pc[v] \/ (pc[v] = "parked" /\ pc'[v] = "lock")
    BY DEF WakeWorkers, WorkerPC
<1>2. QED
    BY <1>1 DEF Busy, Running, Alive

(* The shutdown itself is an idle step. *)
LEMMA DestroyCallKeepsPoolInv ==
    ASSUME PoolInv, DestroyCall
    PROVE  PoolInv'
<1>1. /\ UNCHANGED <<queue, working_cnt, thread_cnt, task, pushed, started, finished>>
      /\ shutdown' = TRUE /\ client' = "destroyWait" /\ WakeWorkers
      /\ pc \in [Workers -> WorkerPC]
    BY DEF PoolInv, TypeOK, DestroyCall
<1>2. /\ pc' \in [Workers -> WorkerPC]
      /\ Busy' = Busy /\ Running' = Running /\ Alive' = Alive
    BY <1>1, WakeWorkersEffect
<1>3. TypeOK'
    BY <1>1, <1>2 DEF PoolInv, TypeOK, ClientPC
<1>4. ShutdownIsPhase'
    BY <1>1 DEF ShutdownIsPhase
<1>5. client' # "gone"
    BY <1>1
<1>6. QED
    BY <1>1, <1>2, <1>3, <1>4, <1>5, IdleStepKeepsPoolInv DEF PoolInv, Counts

(* A pushed task is new: it is put behind the list, and nothing else changes. *)
LEMMA PushKeepsPoolInv ==
    ASSUME PoolInv, NEW t \in Tasks, Push(t)
    PROVE  PoolInv'
<1>1. /\ UNCHANGED <<working_cnt, thread_cnt, shutdown, task, client, started, finished>>
      /\ queue' = Append(queue, t) /\ pushed' = Append(pushed, t)
      /\ t \notin SeqElements(pushed) /\ client = "idle" /\ WakeWorkers
    BY DEF Push, Enqueue
<1>2. /\ queue \in Seq(Tasks) /\ pushed \in Seq(Tasks) /\ started \in Seq(Tasks)
      /\ pc \in [Workers -> WorkerPC]
    BY DEF PoolInv, TypeOK
<1>3. /\ pc' \in [Workers -> WorkerPC]
      /\ Busy' = Busy /\ Running' = Running /\ Alive' = Alive
    BY <1>1, <1>2, WakeWorkersEffect
<1>4. TypeOK'
    BY <1>1, <1>2, <1>3 DEF PoolInv, TypeOK
<1>5. HandedOutInOrder'
    <2>1. (started \o queue) \o <<t>> = started \o (queue \o <<t>>)
        BY <1>2, ConcatAssociative
    <2>2. Append(queue, t) = queue \o <<t>> /\ Append(pushed, t) = pushed \o <<t>>
        BY <1>2, AppendIsConcat
    <2>3. QED
        BY <1>1, <2>1, <2>2 DEF PoolInv, HandedOutInOrder
<1>6. /\ SeqElements(queue)' = SeqElements(queue) \cup {t}
      /\ SeqElements(pushed)' = SeqElements(pushed) \cup {t}
      /\ SeqElements(started)' = SeqElements(started)
    <2>1. /\ SeqElements(Append(queue, t)) = SeqElements(queue) \cup {t}
          /\ SeqElements(Append(pushed, t)) = SeqElements(pushed) \cup {t}
        BY <1>2, AppendElements
    <2>2. QED
        BY <1>1, <2>1 DEF SeqElements
<1>7. TasksOnce'
    <2>1. t \notin SeqElements(queue) \cup SeqElements(started)
        BY <1>1 DEF PoolInv, TasksOnce
    <2>2. Distinct(Append(queue, t))
        BY <1>2, <2>1, AppendDistinct DEF PoolInv, TasksOnce
    <2>3. Distinct(queue)'
        BY <1>1, <2>2 DEF Distinct
    <2>4. QED
        BY <1>1, <1>6, <2>1, <2>3 DEF PoolInv, TasksOnce
<1>8. OneWorkerEach'
    BY <1>1, <1>3, <1>6, Zenon DEF PoolInv, OneWorkerEach
<1>9. Counts' /\ FreedOnlyWhenQuiet'
    BY <1>1, <1>3 DEF PoolInv, Counts, FreedOnlyWhenQuiet
<1>10. ShutdownIsPhase'
    BY <1>1, Zenon DEF PoolInv, ShutdownIsPhase
<1>11. QED
    BY <1>4, <1>5, <1>7, <1>8, <1>9, <1>10 DEF PoolInv

(* A worker pops the head of the list and counts itself: the task leaves the list and *)
(* becomes the task of this worker alone.                                             *)
LEMMA TakeKeepsPoolInv ==
    ASSUME PoolInv, NEW w \in Workers, Take(w)
    PROVE  PoolInv'
<1> DEFINE t == Head(queue)
<1>1. /\ UNCHANGED <<thread_cnt, shutdown, client, pushed, finished>>
      /\ queue' = Tail(queue) /\ started' = Append(started, t)
      /\ working_cnt' = working_cnt + 1
      /\ queue # <<>> /\ client # "gone" /\ pc[w] = "lock"
      /\ task' = [task EXCEPT ![w] = t]
      /\ pc' = [pc EXCEPT ![w] = "running"]
    BY DEF Take
<1>2. /\ queue \in Seq(Tasks) /\ started \in Seq(Tasks)
      /\ pc \in [Workers -> WorkerPC] /\ task \in [Workers -> Tasks \cup {NoTask}]
    BY DEF PoolInv, TypeOK
<1>3. /\ t \in SeqElements(queue) /\ SeqElements(Tail(queue)) = SeqElements(queue) \ {t}
      /\ Distinct(Tail(queue))
    BY <1>1, <1>2, TailElements DEF PoolInv, TasksOnce
<1>4. t \in Tasks
    BY <1>2, <1>3, ElementsInSet
<1>5. /\ SeqElements(queue)' = SeqElements(queue) \ {t}
      /\ SeqElements(started)' = SeqElements(started) \cup {t}
      /\ SeqElements(pushed)' = SeqElements(pushed)
      /\ t \notin SeqElements(started)
    <2>1. SeqElements(Append(started, t)) = SeqElements(started) \cup {t}
        BY <1>2, AppendElements
    <2>2. t \notin SeqElements(started)
        BY <1>3 DEF PoolInv, TasksOnce
    <2>3. QED
        BY <1>1, <1>3, <2>1, <2>2, ZenonT(30) DEF SeqElements
<1>6. /\ Running' = Running \cup {w} /\ Busy' = Busy \cup {w} /\ Alive' = Alive
      /\ w \notin Busy /\ w \notin Running
    BY <1>1, <1>2 DEF Running, Busy, Alive
<1>7. Counts' /\ working_cnt' \in Nat
    <2>1. Cardinality(Busy \cup {w}) = Cardinality(Busy) + 1
        BY <1>6, CountsFinite, FS_AddElement
    <2>2. QED
        BY <1>1, <1>6, <2>1 DEF PoolInv, Counts, TypeOK
<1>8. TypeOK'
    <2>1. Tail(queue) \in Seq(Tasks) /\ Append(started, t) \in Seq(Tasks)
        BY <1>1, <1>2, <1>4
    <2>2. pc' \in [Workers -> WorkerPC] /\ task' \in [Workers -> Tasks \cup {NoTask}]
        BY <1>1, <1>2, <1>4 DEF WorkerPC
    <2>3. QED
        BY <1>1, <1>7, <2>1, <2>2 DEF PoolInv, TypeOK
<1>9. HandedOutInOrder'
    <2>1. started \o queue = Append(started, Head(queue)) \o Tail(queue)
        BY <1>1, <1>2
    <2>2. QED
        BY <1>1, <2>1 DEF PoolInv, HandedOutInOrder
<1>10. TasksOnce'
    <2>1. Distinct(queue)'
        BY <1>1, <1>3 DEF Distinct
    <2>2. QED
        BY <1>1, <1>3, <1>5, <2>1 DEF PoolInv, TasksOnce
<1>11. OneWorkerEach'
    <2>1. /\ t \notin finished
          /\ task'[w] = t
          /\ \A v \in Running : v # w /\ task'[v] = task[v] /\ task[v] # t
        <3>1. t \notin finished
            BY <1>5 DEF PoolInv, TasksOnce
        <3>2. ASSUME NEW v \in Running PROVE v \in Workers /\ v # w /\ task[v] # t
            <4>1. task[v] \in SeqElements(started)
                BY DEF PoolInv, OneWorkerEach
            <4>2. v \in Workers /\ v # w
                BY <1>6 DEF Running
            <4>3. QED
                BY <1>5, <4>1, <4>2
        <3>3. QED
            BY <1>1, <1>2, <3>1, <3>2
    <2>2. \A v \in Running' : task'[v] \in SeqElements(started)' \ finished'
        <3>1. t \in SeqElements(started)' \ finished'
            BY <1>1, <1>5, <2>1
        <3>2. \A v \in Running : task[v] \in SeqElements(started)' \ finished'
            BY <1>1, <1>5 DEF PoolInv, OneWorkerEach
        <3>3. QED
            BY <1>6, <2>1, <3>1, <3>2
    <2>3. \A u, v \in Running' : task'[u] = task'[v] => u = v
        BY <1>6, <2>1 DEF PoolInv, OneWorkerEach
    <2>4. \A x \in SeqElements(started)' \ finished' : \E v \in Running' : task'[v] = x
        BY <1>1, <1>5, <1>6, <2>1 DEF PoolInv, OneWorkerEach
    <2>5. QED
        BY <2>2, <2>3, <2>4, Zenon DEF OneWorkerEach
<1>12. FreedOnlyWhenQuiet' /\ ShutdownIsPhase'
    BY <1>1, Zenon DEF PoolInv, FreedOnlyWhenQuiet, ShutdownIsPhase
<1>13. QED
    BY <1>7, <1>8, <1>9, <1>10, <1>11, <1>12 DEF PoolInv

(* A function returns: the task is completed and no longer the worker's. *)
LEMMA RunKeepsPoolInv ==
    ASSUME PoolInv, NEW w \in Workers, Run(w)
    PROVE  PoolInv'
<1>1. /\ UNCHANGED <<queue, working_cnt, thread_cnt, shutdown, client, pushed, started>>
      /\ finished' = finished \cup {task[w]}
      /\ task' = [task EXCEPT ![w] = NoTask]
      /\ pc[w] = "running" /\ pc' = [pc EXCEPT ![w] = "returned"]
    BY DEF Run, pool
<1>2. /\ started \in Seq(Tasks)
      /\ pc \in [Workers -> WorkerPC] /\ task \in [Workers -> Tasks \cup {NoTask}]
    BY DEF PoolInv, TypeOK
<1>3. Running' = Running \ {w} /\ w \in Running /\ Busy' = Busy /\ Alive' = Alive
    BY <1>1, <1>2 DEF Running, Busy, Alive
<1>4. task[w] \in SeqElements(started) \ finished
    BY <1>3 DEF PoolInv, OneWorkerEach
<1>5. TypeOK'
    <2>1. task[w] \in Tasks
        BY <1>2, <1>4, ElementsInSet
    <2>2. pc' \in [Workers -> WorkerPC] /\ task' \in [Workers -> Tasks \cup {NoTask}]
        BY <1>1, <1>2 DEF WorkerPC
    <2>3. finished' \subseteq Tasks
        BY <1>1, <2>1 DEF PoolInv, TypeOK
    <2>4. QED
        BY <1>1, <2>2, <2>3 DEF PoolInv, TypeOK
<1>6. Counts' /\ FreedOnlyWhenQuiet' /\ HandedOutInOrder'
    BY <1>1, <1>3 DEF PoolInv, Counts, FreedOnlyWhenQuiet, HandedOutInOrder
<1>7. /\ SeqElements(queue)' = SeqElements(queue)
      /\ SeqElements(started)' = SeqElements(started)
      /\ SeqElements(pushed)' = SeqElements(pushed)
    BY <1>1 DEF SeqElements
<1>8. TasksOnce'
    <2>1. Distinct(queue)'
        BY <1>1 DEF PoolInv, TasksOnce, Distinct
    <2>2. QED
        BY <1>1, <1>4, <1>7, <2>1 DEF PoolInv, TasksOnce
<1>9. OneWorkerEach'
    <2>1. \A v \in Running \ {w} : task'[v] = task[v] /\ task[v] # task[w]
        BY <1>1, <1>2, <1>3 DEF PoolInv, OneWorkerEach, Running
    <2>2. QED
        BY <1>1, <1>3, <1>7, <2>1 DEF PoolInv, OneWorkerEach
<1>10. ShutdownIsPhase'
    BY <1>1, Zenon DEF PoolInv, ShutdownIsPhase
<1>11. QED
    BY <1>5, <1>6, <1>8, <1>9, <1>10 DEF PoolInv

(* A worker accounts for its task: it is no longer busy, and working_cnt says so. *)
LEMMA FinishKeepsPoolInv ==
    ASSUME PoolInv, NEW w \in Workers, Finish(w)
    PROVE  PoolInv'
<1>1. /\ UNCHANGED <<queue, thread_cnt, shutdown, task, pushed, started, finished>>
      /\ working_cnt' = working_cnt - 1
      /\ pc[w] = "returned" /\ pc' = [pc EXCEPT ![w] = "lock"]
    BY DEF Finish
<1>2. pc \in [Workers -> WorkerPC]
    BY DEF PoolInv, TypeOK
<1>3. /\ Busy' = Busy \ {w} /\ w \in Busy
      /\ Running' = Running /\ Alive' = Alive
    BY <1>1, <1>2 DEF Running, Busy, Alive
<1>4. /\ client # "gone" /\ client' \in ClientPC /\ client' # "gone"
      /\ (client' \in {"destroyWait", "destroyBlocked", "gone"}
            <=> client \in {"destroyWait", "destroyBlocked", "gone"})
    BY DEF PoolInv, TypeOK, ClientPC, Finish, WakeClient
<1>5. Counts' /\ working_cnt' \in Nat
    <2>1. /\ Cardinality(Busy \ {w}) = Cardinality(Busy) - 1
          /\ IsFiniteSet(Busy \ {w})
        BY <1>3, CountsFinite, FS_RemoveElement
    <2>2. Cardinality(Busy \ {w}) \in Nat
        BY <2>1, FS_CardinalityType
    <2>3. QED
        BY <1>1, <1>3, <2>1, <2>2 DEF PoolInv, Counts
<1>6. TypeOK'
    BY <1>1, <1>2, <1>4, <1>5 DEF PoolInv, TypeOK, WorkerPC
<1>7. FreedOnlyWhenQuiet' /\ HandedOutInOrder'
    BY <1>1, <1>4 DEF PoolInv, FreedOnlyWhenQuiet, HandedOutInOrder
<1>8. /\ SeqElements(queue)' = SeqElements(queue)
      /\ SeqElements(started)' = SeqElements(started)
      /\ SeqElements(pushed)' = SeqElements(pushed)
    BY <1>1 DEF SeqElements
<1>9. TasksOnce'
    <2>1. Distinct(queue)'
        BY <1>1 DEF PoolInv, TasksOnce, Distinct
    <2>2. QED
        BY <1>1, <1>8, <2>1 DEF PoolInv, TasksOnce
<1>10. OneWorkerEach'
    BY <1>1, <1>3, <1>8, Zenon DEF PoolInv, OneWorkerEach
<1>11. ShutdownIsPhase'
    BY <1>1, <1>4, Zenon DEF PoolInv, ShutdownIsPhase
<1>12. QED
    BY <1>5, <1>6, <1>7, <1>9, <1>10, <1>11 DEF PoolInv

(* Every step keeps the invariant. *)
LEMMA NextKeepsPoolInv == PoolInv /\ [Next]_vars => PoolInv'
<1> SUFFICES ASSUME PoolInv, [Next]_vars PROVE PoolInv'
    OBVIOUS
<1>1. ASSUME NEW w \in Workers, WorkerStep(w) \/ SpuriousWakeWorker(w) \/ TouchFreed(w)
      PROVE  PoolInv'
    BY <1>1, SleepersKeepPoolInv, ExitKeepsPoolInv, TakeKeepsPoolInv, RunKeepsPoolInv,
       FinishKeepsPoolInv
       DEF WorkerStep
<1>2. ASSUME NEW t \in Tasks, Push(t) PROVE PoolInv'
    BY <1>2, PushKeepsPoolInv
<1>3. CASE WaitCall \/ SpuriousWakeClient \/ ClientStep
    BY <1>3, CallsKeepPoolInv DEF ClientStep
<1>4. CASE DestroyCall
    BY <1>4, DestroyCallKeepsPoolInv
<1>5. CASE UNCHANGED vars
    <2>1. Busy' = Busy /\ Running' = Running /\ Alive' = Alive
        BY <1>5 DEF vars, Busy, Running, Alive
    <2>2. TypeOK'
        BY <1>5 DEF vars, PoolInv, TypeOK
    <2>3. ShutdownIsPhase'
        BY <1>5, Zenon DEF vars, PoolInv, ShutdownIsPhase
    <2>4. thread_cnt' = Cardinality(Alive')
        BY <1>5, <2>1 DEF vars, PoolInv, Counts
    <2>5. /\ UNCHANGED <<queue, working_cnt, task, pushed, started, finished>>
          /\ client' = client
        BY <1>5 DEF vars
    <2>6. QED
        BY <2>1, <2>2, <2>3, <2>4, <2>5, IdleStepKeepsPoolInv
<1>6. QED
    BY <1>1, <1>2, <1>3, <1>4, <1>5 DEF Next

(* The inductive invariant holds of the pool. *)
THEOREM PoolInvariant == Spec => []PoolInv
<1>1. Init => PoolInv
    BY InitPoolInv
<1>2. PoolInv /\ [Next]_vars => PoolInv'
    BY NextKeepsPoolInv
<1>3. QED
    BY <1>1, <1>2, PTL DEF Spec

(* Every variable keeps its type; that the counters stay natural numbers is the claim that *)
(* nothing is counted down that was not counted up before.                                 *)
THEOREM PoolTypes == Spec => []TypeOK
<1>1. PoolInv => TypeOK
    BY DEF PoolInv
<1>2. QED
    BY <1>1, PoolInvariant, PTL

(* For any number of workers and tasks, the list loses, repeats and reorders no task. *)
THEOREM PoolHandsOutInOrder == Spec => []HandedOutInOrder
<1>1. PoolInv => HandedOutInOrder
    BY DEF PoolInv
<1>2. QED
    BY <1>1, PoolInvariant, PTL

(* For any number of workers, none is in a task or about to account for one when *)
(* pool_destroy frees the pool.                                                  *)
THEOREM PoolFreedWhenQuiet == Spec => []FreedOnlyWhenQuiet
<1>1. PoolInv => FreedOnlyWhenQuiet
    BY DEF PoolInv
<1>2. QED
    BY <1>1, PoolInvariant, PTL

----------------------------------------------------------------------------
(* The pool implements TaskBatch *)

(* When pool_wait finds the list empty and working_cnt 0, no task is begun and not *)
(* completed: every such task has a busy worker.                                   *)
LEMMA DrainedIsQuiet == PoolInv /\ Drained => Batch!Quiet
<1> SUFFICES ASSUME PoolInv, Drained PROVE Batch!Quiet
    OBVIOUS
<1>1. SeqElements(queue) = {}
    BY DEF Drained, SeqElements
<1>2. Busy = {}
    BY CountsFinite, FS_EmptySet DEF PoolInv, Counts, Drained
<1>3. Running = {}
    BY <1>2 DEF Busy, Running
<1>4. SeqElements(started) \ finished = {}
    BY <1>3 DEF PoolInv, OneWorkerEach
<1>5. QED
    BY <1>1, <1>4 DEF Batch!Quiet

(* The pool starts like TaskBatch. *)
LEMMA InitRefinesTaskBatch == Init => Batch!Init
BY DEF Init, Batch!Init, SeqElements, Phase

(* A push is a Submit. *)
LEMMA PushRefines ==
    ASSUME PoolInv, NEW t \in Tasks, Push(t)
    PROVE  Batch!Submit(t)
<1>1. /\ UNCHANGED <<client, started, finished>>
      /\ queue' = Append(queue, t) /\ pushed' = Append(pushed, t)
      /\ t \notin SeqElements(pushed) /\ client = "idle"
    BY DEF Push, Enqueue
<1>2. queue \in Seq(Tasks)
    BY DEF PoolInv, TypeOK
<1>3. SeqElements(queue)' = SeqElements(queue) \cup {t} /\ SeqElements(started)' = SeqElements(started)
    <2>1. SeqElements(Append(queue, t)) = SeqElements(queue) \cup {t}
        BY <1>2, AppendElements
    <2>2. QED
        BY <1>1, <2>1 DEF SeqElements
<1>4. Phase = "open" /\ Phase' = "open"
    BY <1>1 DEF Phase
<1>5. t \notin SeqElements(queue) \cup (SeqElements(started) \ finished) \cup finished
    BY <1>1 DEF PoolInv, TasksOnce
<1>6. QED
    BY <1>1, <1>3, <1>4, <1>5 DEF Batch!Submit

(* A pop is a Begin: a worker that does not see shutdown runs before pool_destroy is called. *)
LEMMA TakeRefines ==
    ASSUME PoolInv, NEW w \in Workers, Take(w)
    PROVE  \E t \in Tasks : Batch!Begin(t)
<1> DEFINE t == Head(queue)
<1>1. /\ UNCHANGED <<client, finished>> /\ ~shutdown /\ queue # <<>>
      /\ queue' = Tail(queue) /\ started' = Append(started, t)
    BY DEF Take
<1>2. queue \in Seq(Tasks) /\ started \in Seq(Tasks) /\ client \in ClientPC
    BY DEF PoolInv, TypeOK
<1>3. t \in SeqElements(queue) /\ SeqElements(Tail(queue)) = SeqElements(queue) \ {t}
    BY <1>1, <1>2, TailElements DEF PoolInv, TasksOnce
<1>4. t \in Tasks
    BY <1>2, <1>3, ElementsInSet
<1>5. /\ SeqElements(queue)' = SeqElements(queue) \ {t}
      /\ SeqElements(started)' = SeqElements(started) \cup {t}
    <2>1. SeqElements(Append(started, t)) = SeqElements(started) \cup {t}
        BY <1>2, AppendElements
    <2>2. QED
        BY <1>1, <1>3, <2>1 DEF SeqElements
<1>6. t \notin finished
    BY <1>3 DEF PoolInv, TasksOnce
<1>7. client \notin {"destroyWait", "destroyBlocked", "gone"}
    BY <1>1, Zenon DEF PoolInv, ShutdownIsPhase
<1>8. Phase \in {"open", "awaiting"} /\ Phase' = Phase
    BY <1>1, <1>2, <1>7 DEF Phase, ClientPC
<1>9. Batch!Begin(t)
    BY <1>1, <1>3, <1>5, <1>6, <1>8 DEF Batch!Begin
<1>10. QED
    BY <1>4, <1>9

(* The return of a function is a Complete. *)
LEMMA RunRefines ==
    ASSUME PoolInv, NEW w \in Workers, Run(w)
    PROVE  \E t \in Tasks : Batch!Complete(t)
<1>1. /\ UNCHANGED <<queue, client, started>>
      /\ finished' = finished \cup {task[w]} /\ pc[w] = "running"
    BY DEF Run, pool
<1>2. task[w] \in SeqElements(started) \ finished
    BY <1>1 DEF PoolInv, OneWorkerEach, Running
<1>3. task[w] \in Tasks
    BY <1>2, ElementsInSet DEF PoolInv, TypeOK
<1>4. /\ SeqElements(queue)' = SeqElements(queue)
      /\ SeqElements(started)' = SeqElements(started)
      /\ Phase' = Phase
    BY <1>1 DEF SeqElements, Phase
<1>5. Batch!Complete(task[w])
    BY <1>1, <1>2, <1>4 DEF Batch!Complete
<1>6. QED
    BY <1>3, <1>5

(* Everything else moves the client from one phase to the next, or is hidden. *)
LEMMA OtherStepsRefine ==
    ASSUME PoolInv, UNCHANGED <<queue, started, finished>>,
           \/ \E w \in Workers : Park(w) \/ Exit(w) \/ Finish(w) \/ SpuriousWakeWorker(w) \/ TouchFreed(w)
           \/ WaitCall \/ DestroyCall \/ SpuriousWakeClient \/ ClientStep
           \/ UNCHANGED vars
    PROVE  [Batch!Next]_(Batch!vars)
<1>1. /\ SeqElements(queue)' = SeqElements(queue)
      /\ (SeqElements(started) \ finished)' = SeqElements(started) \ finished
      /\ finished' = finished
    BY DEF SeqElements
<1>2. client \in ClientPC
    BY DEF PoolInv, TypeOK
<1>3. CASE WaitCall
    <2>1. Phase = "open" /\ Phase' = "awaiting"
        BY <1>3 DEF WaitCall, Phase
    <2>2. QED
        BY <1>1, <2>1 DEF Batch!Next, Batch!Await
<1>4. CASE DestroyCall
    <2>1. Phase = "open" /\ Phase' = "closing"
        BY <1>4 DEF DestroyCall, Phase
    <2>2. QED
        BY <1>1, <2>1 DEF Batch!Next, Batch!Close
<1>5. CASE WaitReturn
    <2>1. Phase = "awaiting" /\ Phase' = "open" /\ Batch!Quiet
        BY <1>5, DrainedIsQuiet DEF WaitReturn, Phase
    <2>2. QED
        BY <1>1, <2>1 DEF Batch!Next, Batch!AwaitReturn
<1>6. CASE DestroyReturn
    <2>1. Phase = "closing" /\ Phase' = "closed" /\ Batch!Quiet
        BY <1>6, DrainedIsQuiet DEF DestroyReturn, Phase
    <2>2. QED
        BY <1>1, <2>1 DEF Batch!Next, Batch!CloseReturn
<1>7. CASE \/ \E w \in Workers : Park(w) \/ Exit(w) \/ Finish(w) \/ SpuriousWakeWorker(w) \/ TouchFreed(w)
           \/ SpuriousWakeClient \/ WaitBlock \/ UNCHANGED vars
    <2>1. client' = client \/ WakeClient \/ WaitBlock
        BY <1>7 DEF Park, Exit, Finish, SpuriousWakeWorker, TouchFreed, SpuriousWakeClient, vars
    <2>2. Phase' = Phase
        BY <1>2, <2>1 DEF WakeClient, WaitBlock, Phase, ClientPC
    <2>3. QED
        BY <1>1, <2>2 DEF Batch!vars
<1>8. QED
    BY <1>3, <1>4, <1>5, <1>6, <1>7 DEF ClientStep

(* Every behaviour of the pool, with any number of workers and tasks, is one of TaskBatch: *)
(* no task runs twice, and pool_wait and pool_destroy return only when none is left.       *)
THEOREM PoolImplementsTaskBatch == Spec => ImplementsTaskBatch
<1>1. PoolInv /\ [Next]_vars => [Batch!Next]_(Batch!vars)
    <2> SUFFICES ASSUME PoolInv, [Next]_vars PROVE [Batch!Next]_(Batch!vars)
        OBVIOUS
    <2>1. ASSUME NEW t \in Tasks, Push(t) PROVE [Batch!Next]_(Batch!vars)
        BY <2>1, PushRefines DEF Batch!Next
    <2>2. ASSUME NEW w \in Workers, Take(w) PROVE [Batch!Next]_(Batch!vars)
        BY <2>2, TakeRefines DEF Batch!Next
    <2>3. ASSUME NEW w \in Workers, Run(w) PROVE [Batch!Next]_(Batch!vars)
        BY <2>3, RunRefines DEF Batch!Next
    <2>4. ASSUME \/ \E w \in Workers : \/ Park(w) \/ Exit(w) \/ Finish(w)
                                      \/ SpuriousWakeWorker(w) \/ TouchFreed(w)
                 \/ WaitCall \/ DestroyCall \/ SpuriousWakeClient \/ ClientStep
                 \/ UNCHANGED vars
          PROVE  [Batch!Next]_(Batch!vars)
        <3>1. UNCHANGED <<queue, started, finished>>
            BY <2>4 DEF Park, Exit, Finish, SpuriousWakeWorker, TouchFreed, pool, vars,
                        WaitCall, DestroyCall, SpuriousWakeClient, ClientStep,
                        WaitBlock, WaitReturn, DestroyReturn
        <3>2. QED
            BY <2>4, <3>1, OtherStepsRefine
    <2>5. QED
        BY <2>1, <2>2, <2>3, <2>4 DEF Next, WorkerStep
<1>2. QED
    BY <1>1, InitRefinesTaskBatch, PoolInvariant, PTL DEF Spec, ImplementsTaskBatch, Batch!Spec
=============================================================================
