--------------------------- MODULE MatrixMultiply ---------------------------
(***************************************************************************)
(* main of matrix_lab/multi.c, the one client of the thread pool: push one *)
(* compute task per cell of C, pool_wait, write C to the output file, free *)
(* the matrices and the arguments, pool_destroy, return.                   *)
(*                                                                         *)
(* The dot product is abstracted to the value "product"; a cell no task    *)
(* has stored yet is "uninit" (malloc does not clear it), and what compute *)
(* gets out of freed memory is "junk".                                     *)
(***************************************************************************)
EXTENDS ThreadPool

CONSTANT MaxSize   \* bound: the largest size read from the input file

Cells == (0..MaxSize - 1) \X (0..MaxSize - 1)

\* The tasks of the pool are the computations of the cells.
ASSUME MatrixAssumption == MaxSize \in Nat /\ Tasks = Cells

VARIABLES size,    \* the size at the head of the input file
          C,       \* the result matrix
          out,     \* the cells written to the output file, row by row
          memory,  \* the matrices and the args: "live" or "freed"
          main     \* where main is

mainVars == <<size, C, out, memory, main>>
programVars == <<vars, mainVars>>

Count == size * size

\* The k-th cell of the two nested loops.
Cell(k) == <<(k - 1) \div size, (k - 1) % size>>

ProgramInit ==
        /\ Init
        /\ size \in 0..MaxSize
        /\ C = [c \in Cells |-> "uninit"]
        /\ out = <<>>
        /\ memory = "live"
        /\ main = "push"

PushCell == /\ main = "push" /\ Len(pushed) < Count
            /\ Push(Cell(Len(pushed) + 1))
            /\ UNCHANGED mainVars

AwaitCells == /\ main = "push" /\ Len(pushed) = Count
              /\ WaitCall
              /\ main' = "wait"
              /\ UNCHANGED <<size, C, out, memory>>

\* Mutant of CellsComputed: the call of pool_wait is missing.
DoNotWait == /\ main = "wait"
             /\ client' = "idle"
             /\ main' = "write"
             /\ UNCHANGED <<queue, working_cnt, thread_cnt, shutdown, pc, task,
                            pushed, started, finished, size, C, out, memory>>

CellsComputed == /\ WaitReturn
                 /\ main' = "write"
                 /\ UNCHANGED <<size, C, out, memory>>

WriteCell == /\ main = "write" /\ Len(out) < Count
             /\ out' = Append(out, C[Cell(Len(out) + 1)])
             /\ UNCHANGED <<vars, size, C, memory, main>>

FreeMatrices == /\ main = "write" /\ Len(out) = Count
                /\ memory' = "freed"
                /\ main' = "destroy"
                /\ UNCHANGED <<vars, size, C, out>>

DestroyPool == /\ main = "destroy"
               /\ DestroyCall
               /\ main' = "destroying"
               /\ UNCHANGED <<size, C, out, memory>>

\* Mutant of PoolDestroyed: the pool is freed as soon as main could write.
DestroyEarly == /\ main = "write"
                /\ client' = "gone"
                /\ main' = "write"
                /\ UNCHANGED <<queue, working_cnt, thread_cnt, shutdown, pc, task,
                               pushed, started, finished, size, C, out, memory>>

PoolDestroyed == /\ DestroyReturn
                 /\ main' = "report"
                 /\ UNCHANGED <<size, C, out, memory>>

\* main returns: the process ends and its detached threads with it.
Return == /\ main = "report"
          /\ main' = "exit"
          /\ UNCHANGED <<vars, size, C, out, memory>>

PoolBlocks == WaitBlock /\ UNCHANGED mainVars

MainStep == \/ PushCell \/ AwaitCells \/ CellsComputed \/ WriteCell \/ FreeMatrices
            \/ DestroyPool \/ PoolDestroyed \/ Return \/ PoolBlocks

\* compute: the sum is built in a local variable and stored once.
Compute(w) == /\ Run(w)
              /\ C' = [C EXCEPT ![task[w]] = IF memory = "live" THEN "product" ELSE "junk"]
              /\ UNCHANGED <<size, out, memory, main>>

ThreadStep(w) ==
    /\ main # "exit"
    /\ \/ Compute(w)
       \/ (Park(w) \/ Take(w) \/ Exit(w) \/ Finish(w)) /\ UNCHANGED mainVars

Disturb == /\ main # "exit"
           /\ \/ \E w \in Workers : SpuriousWakeWorker(w) \/ TouchFreed(w)
              \/ SpuriousWakeClient
           /\ UNCHANGED mainVars

Terminated == main = "exit" /\ UNCHANGED programVars

ProgramNext == MainStep \/ (\E w \in Workers : ThreadStep(w)) \/ Disturb \/ Terminated

\* Every thread that can run does; a spurious wakeup is never owed.
ProgramFairness ==
    WF_programVars(MainStep) /\ \A w \in Workers : WF_programVars(ThreadStep(w))

ProgramSpec == ProgramInit /\ [][ProgramNext]_programVars /\ ProgramFairness

----------------------------------------------------------------------------
(* Properties *)

\* The output file holds the product: no cell is written to it before its task stored it,
\* although the cells are stored by other threads than the one that reads them.
OutputIsProduct == \A k \in 1..Len(out) : out[k] = "product"

\* No task computes on the matrices or the arguments after main freed them.
ComputesOnLiveMemory == \A w \in Workers : pc[w] = "running" => memory = "live"

\* The workers are never told to end (they test shutdown only when the list has a task),
\* so they meet the freed pool; by then the output file is complete.
FreedPoolMetAfterOutput ==
    (\E w \in Workers : pc[w] = "undefined") => Len(out) = Count /\ main \in {"report", "exit"}

\* The program ends, with every cell in the file.
Terminates == <>(main = "exit" /\ Len(out) = Count)
=============================================================================
