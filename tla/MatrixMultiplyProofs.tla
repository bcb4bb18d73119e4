------------------------ MODULE MatrixMultiplyProofs ------------------------
(***************************************************************************)
(* Proofs about MatrixMultiply for every MaxSize and every finite set of   *)
(* workers.                                                                *)
(*                                                                         *)
(* main is one of the clients ThreadPool allows, so that PoolInv holds of  *)
(* its pool.  ProgramInv adds what each place of main knows: from the      *)
(* return of pool_wait on, the list is empty, no worker is in a task, and  *)
(* every cell is pushed, completed and stored.                             *)
(***************************************************************************)
EXTENDS MatrixMultiply, ThreadPoolProofs

\* The places of main behind the return of pool_wait, and behind the frees.
Computed == {"write", "destroy", "destroying", "report", "exit"}
Freed    == {"destroy", "destroying", "report", "exit"}

ProgramTypeOK ==
    /\ size \in 0..MaxSize
    /\ C \in [Cells -> {"uninit", "product", "junk"}]
    /\ out \in Seq({"uninit", "product", "junk"})
    /\ memory \in {"live", "freed"}
    /\ main \in {"push", "wait"} \cup Computed

\* Where the client of the pool is, for each place of main.
ClientOf ==
    /\ main \in {"push", "write", "destroy"} => client = "idle"
    /\ main = "wait" => client \in {"wait", "waitBlocked"}
    /\ main = "destroying" => client \in {"destroyWait", "destroyBlocked"}
    /\ main \in {"report", "exit"} <=> client = "gone"

\* main pushes the cells of C row by row, each one once.
PushedByRow == /\ Len(pushed) <= Count
               /\ \A k \in 1..Len(pushed) : pushed[k] = Cell(k)
               /\ main # "push" => Len(pushed) = Count

AllComputed == main \in Computed => /\ queue = <<>> /\ Running = {}
                                    /\ finished = SeqElements(pushed)

Stored == \A c \in finished : C[c] = "product"

Written == /\ Len(out) <= Count
           /\ main \in Freed => Len(out) = Count
           /\ main \notin Computed => out = <<>>

MemoryLive == memory = "live" <=> main \notin Freed

MetOnlyWhenGone == \A w \in Workers : pc[w] = "undefined" => client = "gone"

ProgramInv == /\ ProgramTypeOK /\ ClientOf /\ PushedByRow /\ AllComputed /\ Stored
              /\ Written /\ MemoryLive /\ MetOnlyWhenGone /\ OutputIsProduct

----------------------------------------------------------------------------
(* The cells main pushes *)

(* Row and column of a position below size * size are below size. *)
LEMMA RowAndColumn ==
    ASSUME NEW n \in Nat, NEW k \in Nat, k < n * n
    PROVE  k \div n \in 0..n - 1 /\ k % n \in 0..n - 1
<1>1. n > 0
    <2>1. n = 0 => n * n = 0
        OBVIOUS
    <2>2. QED
        BY <2>1
<1> DEFINE q == k \div n
           r == k % n
<1>2. q \in Int /\ r \in 0..n - 1 /\ k = n * q + r
    BY <1>1
<1>3. q >= 0
    <2>1. q <= -1 => n * q <= -n
        BY <1>1, <1>2
    <2>2. QED
        BY <1>2, <2>1
<1>4. q < n
    <2>1. q >= n => n * q >= n * n
        BY <1>1, <1>2
    <2>2. QED
        BY <1>2, <2>1
<1>5. QED
    BY <1>2, <1>3, <1>4

(* Every cell of the two nested loops is a cell of C. *)
LEMMA CellsOfC ==
    ASSUME size \in 0..MaxSize, NEW k \in 1..Count
    PROVE  Cell(k) \in Cells
<1>1. size \in Nat /\ size <= MaxSize /\ MaxSize \in Nat
    BY MatrixAssumption
<1>2. k - 1 \in Nat /\ k - 1 < size * size
    BY <1>1 DEF Count
<1>3. (k - 1) \div size \in 0..size - 1 /\ (k - 1) % size \in 0..size - 1
    BY <1>1, <1>2, RowAndColumn
<1>4. QED
    BY <1>1, <1>3 DEF Cell, Cells
(* main is a client ThreadPool allows: each of its steps is one of the pool's, or none. *)
LEMMA ProgramStepIsPoolStep ==
    ASSUME ProgramTypeOK, PushedByRow, PoolInv, [ProgramNext]_programVars
    PROVE  [Next]_vars
<1>1. ASSUME PushCell PROVE [Next]_vars
    <2>1. size \in 0..MaxSize /\ Len(pushed) \in Nat /\ Len(pushed) < Count
        BY <1>1 DEF PushCell, ProgramTypeOK, PoolInv, TypeOK
    <2>2. Count \in Nat
        BY <2>1, MatrixAssumption DEF Count
    <2>3. Cell(Len(pushed) + 1) \in Tasks
        BY <2>1, <2>2, CellsOfC, MatrixAssumption
    <2>4. QED
        BY <1>1, <2>3 DEF PushCell, Next
<1>2. ASSUME AwaitCells \/ CellsComputed \/ DestroyPool \/ PoolDestroyed \/ PoolBlocks
      PROVE  [Next]_vars
    BY <1>2 DEF AwaitCells, CellsComputed, DestroyPool, PoolDestroyed, PoolBlocks, Next, ClientStep
<1>3. ASSUME WriteCell \/ FreeMatrices \/ Return \/ Terminated \/ UNCHANGED programVars
      PROVE  UNCHANGED vars
    BY <1>3 DEF WriteCell, FreeMatrices, Return, Terminated, programVars
<1>4. ASSUME NEW w \in Workers, ThreadStep(w) PROVE [Next]_vars
    BY <1>4 DEF ThreadStep, Compute, Next, WorkerStep
<1>5. ASSUME Disturb PROVE [Next]_vars
    BY <1>5 DEF Disturb, Next
<1>6. QED
    BY <1>1, <1>2, <1>3, <1>4, <1>5 DEF ProgramNext, MainStep

----------------------------------------------------------------------------
(* The invariant *)

(* The program starts in the invariant. *)
LEMMA InitProgramInv == ProgramInit => ProgramInv
<1> SUFFICES ASSUME ProgramInit PROVE ProgramInv
    OBVIOUS
<1>1. /\ pushed = <<>> /\ out = <<>> /\ finished = {} /\ client = "idle"
      /\ main = "push" /\ memory = "live" /\ size \in 0..MaxSize
      /\ pc = [w \in Workers |-> "lock"] /\ C = [c \in Cells |-> "uninit"]
    BY DEF ProgramInit, Init
<1>2. Count \in Nat
    BY <1>1, MatrixAssumption DEF Count
<1>3. ProgramTypeOK
    BY <1>1 DEF ProgramTypeOK, Computed
<1>4. ClientOf /\ AllComputed /\ Stored /\ MemoryLive /\ MetOnlyWhenGone
    BY <1>1 DEF ClientOf, AllComputed, Stored, MemoryLive, MetOnlyWhenGone, Computed, Freed
<1>5. PushedByRow /\ Written /\ OutputIsProduct
    BY <1>1, <1>2 DEF PushedByRow, Written, OutputIsProduct, Freed
<1>6. QED
    BY <1>3, <1>4, <1>5 DEF ProgramInv

(* A step that changes the pool's list and workers only by putting threads to sleep or *)
(* waking them keeps the invariant.                                                    *)
LEMMA SleepersKeepProgramInv ==
    ASSUME ProgramInv, UNCHANGED <<mainVars, queue, pushed, finished>>, Running' = Running,
           ClientOf', MetOnlyWhenGone'
    PROVE  ProgramInv'
<1>1. /\ UNCHANGED <<size, C, out, memory, main, queue, pushed, finished>>
      /\ Count' = Count /\ SeqElements(pushed)' = SeqElements(pushed)
    BY DEF mainVars, Count, SeqElements
<1>2. ProgramTypeOK' /\ AllComputed' /\ Stored' /\ Written' /\ MemoryLive' /\ OutputIsProduct'
    BY <1>1 DEF ProgramInv, ProgramTypeOK, AllComputed, Stored, Written, MemoryLive, OutputIsProduct
<1>3. PushedByRow'
    BY <1>1 DEF ProgramInv, PushedByRow, Cell
<1>4. QED
    BY <1>2, <1>3 DEF ProgramInv

(* Parking, waking up and accounting for a task are such steps, and so are a worker's end, *)
(* a wait of main that finds a task left, and a worker that meets the freed pool.          *)
LEMMA QuietStepsKeepProgramInv ==
    ASSUME ProgramInv, PoolInv, UNCHANGED mainVars,
           \/ \E w \in Workers : \/ Park(w) \/ Exit(w) \/ Finish(w)
                                 \/ SpuriousWakeWorker(w) \/ TouchFreed(w)
           \/ SpuriousWakeClient \/ WaitBlock
    PROVE  ProgramInv'
<1>1. pc \in [Workers -> WorkerPC] /\ client \in ClientPC
    BY DEF PoolInv, TypeOK
<1>2. UNCHANGED <<main, queue, pushed, finished>>
    BY DEF mainVars, pool, Park, Exit, Finish, SpuriousWakeWorker, TouchFreed,
           SpuriousWakeClient, WaitBlock
<1>3. \/ client' = client
      \/ client = "waitBlocked" /\ client' = "wait"
      \/ client = "destroyBlocked" /\ client' = "destroyWait"
      \/ client = "wait" /\ client' = "waitBlocked"
      \/ client = "destroyWait" /\ client' = "destroyBlocked"
    BY DEF Park, Exit, Finish, SpuriousWakeWorker, TouchFreed, SpuriousWakeClient, WaitBlock, WakeClient
<1>4. ClientOf'
    BY <1>2, <1>3 DEF ProgramInv, ClientOf
<1>5. CASE \E w \in Workers : \/ Park(w) \/ Exit(w) \/ Finish(w)
                              \/ SpuriousWakeWorker(w) \/ TouchFreed(w)
    <2>1. PICK w \in Workers : \/ Park(w) \/ Exit(w) \/ Finish(w)
                               \/ SpuriousWakeWorker(w) \/ TouchFreed(w)
        BY <1>5
    <2>2. /\ pc[w] # "running" /\ pc'[w] # "running"
          /\ \A v \in Workers \ {w} : pc'[v] = pc[v]
          /\ pc'[w] = "undefined" => client' = "gone"
        BY <1>1, <2>1 DEF Park, Exit, Finish, SpuriousWakeWorker, TouchFreed
    <2>3. Running' = Running
        BY <2>2 DEF Running
    <2>4. MetOnlyWhenGone'
        BY <1>3, <2>2 DEF ProgramInv, MetOnlyWhenGone
    <2>5. QED
        BY <1>2, <1>4, <2>3, <2>4, SleepersKeepProgramInv
<1>6. CASE SpuriousWakeClient \/ WaitBlock
    <2>1. pc' = pc
        BY <1>6 DEF SpuriousWakeClient, WaitBlock
    <2>2. Running' = Running /\ MetOnlyWhenGone'
        BY <1>3, <2>1 DEF ProgramInv, MetOnlyWhenGone, Running
    <2>3. QED
        BY <1>2, <1>4, <2>2, SleepersKeepProgramInv
<1>7. QED
    BY <1>5, <1>6
(* Pushing a cell: nothing is computed or written yet. *)
LEMMA PushCellKeepsProgramInv ==
    ASSUME ProgramInv, PoolInv, PushCell
    PROVE  ProgramInv'
<1>1. /\ UNCHANGED <<size, C, out, memory, main, finished, client>>
      /\ pushed' = Append(pushed, Cell(Len(pushed) + 1)) /\ WakeWorkers
      /\ main = "push" /\ Len(pushed) < Count
    BY DEF PushCell, Push, Enqueue, mainVars
<1>2. pushed \in Seq(Tasks) /\ pc \in [Workers -> WorkerPC]
    BY DEF PoolInv, TypeOK
<1>3. Count' = Count /\ Count \in Nat
    BY <1>1, MatrixAssumption DEF Count, ProgramInv, ProgramTypeOK
<1>4. ProgramTypeOK' /\ ClientOf' /\ Stored' /\ Written' /\ MemoryLive' /\ OutputIsProduct'
    BY <1>1, <1>3 DEF ProgramInv, ProgramTypeOK, ClientOf, Stored, Written, MemoryLive, OutputIsProduct
<1>5. AllComputed'
    BY <1>1 DEF AllComputed, Computed
<1>6. PushedByRow'
    <2>1. /\ Len(pushed') = Len(pushed) + 1 /\ Len(pushed) \in Nat
          /\ pushed'[Len(pushed) + 1] = Cell(Len(pushed) + 1)
          /\ \A k \in 1..Len(pushed) : pushed'[k] = pushed[k]
        BY <1>1, <1>2
    <2>2. \A k \in 1..Len(pushed') : pushed'[k] = Cell(k)
        BY <2>1 DEF ProgramInv, PushedByRow
    <2>3. \A k : Cell(k)' = Cell(k)
        BY <1>1 DEF Cell
    <2>4. Len(pushed') <= Count
        BY <1>1, <1>3, <2>1
    <2>5. QED
        BY <1>1, <1>3, <2>2, <2>3, <2>4 DEF PushedByRow
<1>7. MetOnlyWhenGone'
    BY <1>1, <1>2 DEF WakeWorkers, ProgramInv, MetOnlyWhenGone
<1>8. QED
    BY <1>4, <1>5, <1>6, <1>7 DEF ProgramInv

(* When pool_wait finds the list empty and working_cnt 0, every pushed task is completed. *)
LEMMA DrainedIsComputed ==
    ASSUME PoolInv, Drained
    PROVE  queue = <<>> /\ Running = {} /\ finished = SeqElements(pushed)
<1>1. queue = <<>> /\ SeqElements(queue) = {}
    BY DEF Drained, SeqElements
<1>2. Running = {}
    <2>1. Busy = {}
        BY CountsFinite, FS_EmptySet DEF PoolInv, Counts, Drained
    <2>2. QED
        BY <2>1 DEF Busy, Running
<1>3. finished = SeqElements(pushed)
    BY <1>1, <1>2 DEF PoolInv, OneWorkerEach, TasksOnce
<1>4. QED
    BY <1>1, <1>2, <1>3

(* The calls of pool_wait and pool_destroy and their returns: behind the return of the *)
(* first one everything is computed.                                                   *)
LEMMA PoolCallsKeepProgramInv ==
    ASSUME ProgramInv, PoolInv, AwaitCells \/ CellsComputed \/ DestroyPool \/ PoolDestroyed
    PROVE  ProgramInv'
<1>1. UNCHANGED <<size, C, out, memory, queue, pushed, finished>>
    BY DEF AwaitCells, CellsComputed, DestroyPool, PoolDestroyed,
           WaitCall, WaitReturn, DestroyCall, DestroyReturn, pool
<1>2. \/ /\ main = "push" /\ main' = "wait" /\ client' = "wait" /\ Len(pushed) = Count
      \/ /\ client = "wait" /\ main' = "write" /\ client' = "idle" /\ Drained
      \/ /\ main = "destroy" /\ main' = "destroying" /\ client' = "destroyWait"
      \/ /\ client = "destroyWait" /\ main' = "report" /\ client' = "gone"
    BY DEF AwaitCells, CellsComputed, DestroyPool, PoolDestroyed,
           WaitCall, WaitReturn, DestroyCall, DestroyReturn
<1>3. /\ client = "wait" => main = "wait"
      /\ client = "destroyWait" => main = "destroying"
      /\ client # "gone" => main \notin {"report", "exit"}
    BY DEF ProgramInv, ClientOf, ProgramTypeOK, Computed
<1>4. pc \in [Workers -> WorkerPC] /\ (pc' = pc \/ WakeWorkers)
    BY DEF AwaitCells, CellsComputed, DestroyPool, PoolDestroyed, PoolInv, TypeOK,
           WaitCall, WaitReturn, DestroyCall, DestroyReturn
<1>5. Running' = Running
    BY <1>4 DEF Running, WakeWorkers
<1>6. /\ Count' = Count /\ SeqElements(pushed)' = SeqElements(pushed)
      /\ \A k : Cell(k)' = Cell(k)
    BY <1>1 DEF Count, Cell, SeqElements
<1>7. ProgramTypeOK'
    BY <1>1, <1>2 DEF ProgramInv, ProgramTypeOK, Computed
<1>8. ClientOf'
    BY <1>2 DEF ClientOf
<1>9. PushedByRow'
    BY <1>1, <1>2, <1>3, <1>6 DEF ProgramInv, PushedByRow
<1>10. AllComputed'
    <2>1. CASE Drained
        BY <1>1, <1>5, <1>6, <2>1, DrainedIsComputed DEF AllComputed
    <2>2. CASE main \in Computed
        BY <1>1, <1>5, <1>6, <2>2 DEF ProgramInv, AllComputed
    <2>3. CASE main' = "wait"
        BY <2>3 DEF AllComputed, Computed
    <2>4. QED
        BY <1>2, <1>3, <2>1, <2>2, <2>3 DEF Computed
<1>11. Stored' /\ OutputIsProduct'
    BY <1>1 DEF ProgramInv, Stored, OutputIsProduct
<1>12. Written' /\ MemoryLive'
    BY <1>1, <1>2, <1>3, <1>6 DEF ProgramInv, Written, MemoryLive, Computed, Freed
<1>13. MetOnlyWhenGone'
    <2>1. client = "gone" => client' = "gone"
        BY <1>2, <1>3 DEF ProgramInv, ClientOf
    <2>2. QED
        BY <1>4, <2>1 DEF ProgramInv, MetOnlyWhenGone, WakeWorkers
<1>14. QED
    BY <1>7, <1>8, <1>9, <1>10, <1>11, <1>12, <1>13 DEF ProgramInv

(* main writes a cell that was pushed, completed and stored. *)
LEMMA WriteCellKeepsProgramInv ==
    ASSUME ProgramInv, PoolInv, WriteCell
    PROVE  ProgramInv'
<1> DEFINE k == Len(out) + 1
<1>1. /\ UNCHANGED <<vars, size, C, memory, main>>
      /\ out' = Append(out, C[Cell(k)]) /\ main = "write" /\ Len(out) < Count
    BY DEF WriteCell
<1>2. UNCHANGED <<queue, pc, client, pushed, finished>>
    BY <1>1 DEF vars
<1>3. /\ out \in Seq({"uninit", "product", "junk"}) /\ Len(out) \in Nat
      /\ Count \in Nat /\ Count' = Count
    BY <1>1, MatrixAssumption DEF ProgramInv, ProgramTypeOK, Count
<1>4. C[Cell(k)] = "product"
    <2>1. k \in 1..Len(pushed)
        BY <1>1, <1>3 DEF ProgramInv, PushedByRow
    <2>2. Cell(k) \in SeqElements(pushed)
        BY <2>1 DEF ProgramInv, PushedByRow, SeqElements
    <2>3. QED
        BY <1>1, <2>2 DEF ProgramInv, AllComputed, Stored, Computed
<1>5. /\ Len(out') = Len(out) + 1 /\ out' \in Seq({"uninit", "product", "junk"})
      /\ \A j \in 1..Len(out) : out'[j] = out[j]
      /\ out'[k] = "product"
    BY <1>1, <1>3, <1>4
<1>6. OutputIsProduct'
    BY <1>3, <1>5 DEF ProgramInv, OutputIsProduct
<1>7. Written'
    BY <1>1, <1>3, <1>5 DEF Written, Computed, Freed
<1>8. ProgramTypeOK' /\ ClientOf' /\ Stored' /\ MemoryLive' /\ MetOnlyWhenGone'
    BY <1>1, <1>2, <1>5 DEF ProgramInv, ProgramTypeOK, ClientOf, Stored, MemoryLive, MetOnlyWhenGone
<1>9. PushedByRow'
    BY <1>1, <1>2, <1>3 DEF ProgramInv, PushedByRow, Cell
<1>10. AllComputed'
    BY <1>1, <1>2 DEF ProgramInv, AllComputed, Running, SeqElements
<1>11. QED
    BY <1>6, <1>7, <1>8, <1>9, <1>10 DEF ProgramInv

(* main frees the matrices with the output complete; later it returns. *)
LEMMA EndKeepsProgramInv ==
    ASSUME ProgramInv, FreeMatrices \/ Return
    PROVE  ProgramInv'
<1>1. /\ UNCHANGED <<vars, size, C, out>>
      /\ \/ main = "write" /\ main' = "destroy" /\ memory' = "freed" /\ Len(out) = Count
         \/ main = "report" /\ main' = "exit" /\ memory' = memory
    BY DEF FreeMatrices, Return
<1>2. UNCHANGED <<queue, pc, client, pushed, finished>>
    BY <1>1 DEF vars
<1>3. Count' = Count
    BY <1>1 DEF Count
<1>4. ProgramTypeOK' /\ ClientOf' /\ Stored' /\ MetOnlyWhenGone' /\ OutputIsProduct'
    BY <1>1, <1>2 DEF ProgramInv, ProgramTypeOK, ClientOf, Stored, MetOnlyWhenGone, OutputIsProduct,
                      Computed
<1>5. Written' /\ MemoryLive'
    BY <1>1, <1>3 DEF ProgramInv, Written, MemoryLive, Computed, Freed
<1>6. PushedByRow'
    BY <1>1, <1>2, <1>3 DEF ProgramInv, PushedByRow, Cell
<1>7. AllComputed'
    BY <1>1, <1>2 DEF ProgramInv, AllComputed, Running, SeqElements, Computed
<1>8. QED
    BY <1>4, <1>5, <1>6, <1>7 DEF ProgramInv

(* A worker takes a task: the list is not empty, so main has not passed pool_wait. *)
LEMMA TakeKeepsProgramInv ==
    ASSUME ProgramInv, PoolInv, NEW w \in Workers, Take(w), UNCHANGED mainVars
    PROVE  ProgramInv'
<1>1. /\ UNCHANGED <<size, C, out, memory, main, client, pushed, finished>>
      /\ queue # <<>> /\ pc' = [pc EXCEPT ![w] = "running"]
      /\ pc \in [Workers -> WorkerPC]
    BY DEF Take, mainVars, PoolInv, TypeOK
<1>2. main \notin Computed
    BY <1>1 DEF ProgramInv, AllComputed
<1>3. Count' = Count /\ \A k : Cell(k)' = Cell(k)
    BY <1>1 DEF Count, Cell
<1>4. ProgramTypeOK' /\ ClientOf' /\ Stored' /\ Written' /\ MemoryLive' /\ OutputIsProduct'
    BY <1>1, <1>3 DEF ProgramInv, ProgramTypeOK, ClientOf, Stored, Written, MemoryLive, OutputIsProduct
<1>5. PushedByRow'
    BY <1>1, <1>3 DEF ProgramInv, PushedByRow
<1>6. AllComputed' /\ MetOnlyWhenGone'
    BY <1>1, <1>2 DEF ProgramInv, AllComputed, MetOnlyWhenGone
<1>7. QED
    BY <1>4, <1>5, <1>6 DEF ProgramInv

(* A worker stores its cell: main has not passed pool_wait, so the matrices are live. *)
LEMMA ComputeKeepsProgramInv ==
    ASSUME ProgramInv, PoolInv, NEW w \in Workers, Compute(w)
    PROVE  ProgramInv'
<1>1. /\ UNCHANGED <<size, out, memory, main, client, pushed>>
      /\ pc[w] = "running" /\ pc' = [pc EXCEPT ![w] = "returned"]
      /\ finished' = finished \cup {task[w]}
      /\ C' = [C EXCEPT ![task[w]] = IF memory = "live" THEN "product" ELSE "junk"]
    BY DEF Compute, Run
<1>2. pc \in [Workers -> WorkerPC] /\ C \in [Cells -> {"uninit", "product", "junk"}]
    BY DEF PoolInv, TypeOK, ProgramInv, ProgramTypeOK
<1>3. w \in Running
    BY <1>1 DEF Running
<1>4. main \notin Computed
    BY <1>3 DEF ProgramInv, AllComputed
<1>5. memory = "live"
    BY <1>4 DEF ProgramInv, MemoryLive, Computed, Freed
<1>6. task[w] \in Cells
    <2>1. task[w] \in SeqElements(started)
        BY <1>3 DEF PoolInv, OneWorkerEach
    <2>2. QED
        BY <2>1, ElementsInSet, MatrixAssumption DEF PoolInv, TypeOK
<1>7. finished \subseteq Cells
    BY MatrixAssumption DEF PoolInv, TypeOK
<1>8. Stored' /\ C' \in [Cells -> {"uninit", "product", "junk"}]
    BY <1>1, <1>2, <1>5, <1>6, <1>7 DEF ProgramInv, Stored
<1>9. Count' = Count /\ \A k : Cell(k)' = Cell(k)
    BY <1>1 DEF Count, Cell
<1>10. ProgramTypeOK' /\ ClientOf' /\ Written' /\ MemoryLive' /\ OutputIsProduct'
    BY <1>1, <1>8, <1>9 DEF ProgramInv, ProgramTypeOK, ClientOf, Written, MemoryLive, OutputIsProduct
<1>11. PushedByRow'
    BY <1>1, <1>9 DEF ProgramInv, PushedByRow
<1>12. AllComputed' /\ MetOnlyWhenGone'
    BY <1>1, <1>2, <1>4 DEF ProgramInv, AllComputed, MetOnlyWhenGone
<1>13. QED
    BY <1>8, <1>10, <1>11, <1>12 DEF ProgramInv

(* Every step of the program keeps the invariant. *)
LEMMA NextKeepsProgramInv == ProgramInv /\ PoolInv /\ [ProgramNext]_programVars => ProgramInv'
<1> SUFFICES ASSUME ProgramInv, PoolInv, [ProgramNext]_programVars PROVE ProgramInv'
    OBVIOUS
<1>1. CASE MainStep
    <2>1. PoolBlocks => UNCHANGED mainVars /\ WaitBlock
        BY DEF PoolBlocks
    <2>2. QED
        BY <1>1, <2>1, PushCellKeepsProgramInv, PoolCallsKeepProgramInv, WriteCellKeepsProgramInv,
           EndKeepsProgramInv, QuietStepsKeepProgramInv DEF MainStep
<1>2. ASSUME NEW w \in Workers, ThreadStep(w) PROVE ProgramInv'
    BY <1>2, ComputeKeepsProgramInv, TakeKeepsProgramInv, QuietStepsKeepProgramInv DEF ThreadStep
<1>3. CASE Disturb
    BY <1>3, QuietStepsKeepProgramInv DEF Disturb
<1>4. CASE UNCHANGED programVars
    <2>1. UNCHANGED <<mainVars, queue, pushed, finished, pc, client>>
        BY <1>4 DEF programVars, vars
    <2>2. Running' = Running /\ ClientOf' /\ MetOnlyWhenGone'
        BY <2>1 DEF Running, ClientOf, MetOnlyWhenGone, ProgramInv, mainVars
    <2>3. QED
        BY <2>1, <2>2, SleepersKeepProgramInv
<1>5. QED
    BY <1>1, <1>2, <1>3, <1>4 DEF ProgramNext, Terminated

(* The inductive invariant holds of the program and its pool. *)
THEOREM ProgramInvariant == ProgramSpec => [](PoolInv /\ ProgramInv)
<1>1. ProgramInit => PoolInv /\ ProgramInv
    BY InitPoolInv, InitProgramInv DEF ProgramInit
<1>2. PoolInv /\ ProgramInv /\ [ProgramNext]_programVars => PoolInv' /\ ProgramInv'
    <2>1. PoolInv /\ ProgramInv /\ [ProgramNext]_programVars => [Next]_vars
        BY ProgramStepIsPoolStep DEF ProgramInv
    <2>2. QED
        BY <2>1, NextKeepsPoolInv, NextKeepsProgramInv
<1>3. QED
    BY <1>1, <1>2, PTL DEF ProgramSpec

(* Every behaviour of main is one the interface of the pool allows: what is proved of the *)
(* pool with any client holds of the program's pool.                                      *)
THEOREM MainIsLegalClient == ProgramSpec => Init /\ [][Next]_vars
<1>1. ProgramInit => Init
    BY DEF ProgramInit
<1>2. PoolInv /\ ProgramInv /\ [ProgramNext]_programVars => [Next]_vars
    BY ProgramStepIsPoolStep DEF ProgramInv
<1>3. QED
    BY <1>1, <1>2, ProgramInvariant, PTL DEF ProgramSpec

(* For every size and any number of workers, whatever the order in which they compute: no *)
(* cell is written to the file before its task stored it.                                 *)
THEOREM ProgramOutputIsProduct == ProgramSpec => []OutputIsProduct
<1>1. ProgramInv => OutputIsProduct
    BY DEF ProgramInv
<1>2. QED
    BY <1>1, ProgramInvariant, PTL

(* For every size and any number of workers, no task runs once main has freed its operands: *)
(* pool_wait came back with no worker in a task, and nothing is pushed behind it.           *)
THEOREM ProgramComputesOnLiveMemory == ProgramSpec => []ComputesOnLiveMemory
<1>1. ProgramInv => ComputesOnLiveMemory
    BY DEF ProgramInv, ProgramTypeOK, AllComputed, MemoryLive, ComputesOnLiveMemory, Running,
           Computed, Freed
<1>2. QED
    BY <1>1, ProgramInvariant, PTL

(* For every size and any number of workers, a worker touches the freed pool only when the *)
(* output is complete.                                                                     *)
THEOREM ProgramFreedPoolMetAfterOutput == ProgramSpec => []FreedPoolMetAfterOutput
<1>1. ProgramInv => FreedPoolMetAfterOutput
    BY DEF ProgramInv, MetOnlyWhenGone, ClientOf, Written, Freed, FreedPoolMetAfterOutput
<1>2. QED
    BY <1>1, ProgramInvariant, PTL
=============================================================================
