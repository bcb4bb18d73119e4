----------------------------- MODULE ThreadPool -----------------------------
(***************************************************************************)
(* The thread pool of matrix_lab/thread_pool.h: a linked list of tasks, a  *)
(* mutex, two condition variables and detached worker threads, used by ONE *)
(* client thread that may push tasks, call pool_wait and call pool_destroy *)
(* in any order the interface allows.                                      *)
(*                                                                         *)
(* Every access to the pool's fields happens between a lock and an unlock  *)
(* (or a condition wait) of task_mutex, so one critical section is one     *)
(* action.  What runs outside the mutex is a step of its own: the task's   *)
(* function, and the gap between its return and the next lock.             *)
(*                                                                         *)
(* A thread in pthread_cond_wait sits in a state of its own ("parked",     *)
(* "waitBlocked", "destroyBlocked"); a signal, a broadcast or a spurious   *)
(* wakeup sends it back to the loop that tests its condition again.        *)
(***************************************************************************)
EXTENDS Naturals, Sequences, FiniteSets

CONSTANTS Workers,  \* the threads pool_create starts
          Tasks,    \* the tasks the client may push, each one at most once
          NoTask    \* the worker's task pointer when it is NULL

ASSUME PoolAssumption == /\ IsFiniteSet(Workers)
                         /\ NoTask \notin Tasks

VARIABLES queue,       \* the list from task_head to task_tail
          working_cnt, \* tasks taken from the list and not yet accounted for
          thread_cnt,
          shutdown,
          pc,          \* where each worker thread is
          task,        \* each worker's local variable of that name
          client,      \* where the client thread is
          pushed,      \* history: every task pushed, in order
          started,     \* history: every task popped, in order
          finished     \* history: the tasks whose function has returned

pool == <<queue, working_cnt, thread_cnt, shutdown>>
vars == <<queue, working_cnt, thread_cnt, shutdown, pc, task, client,
          pushed, started, finished>>

WorkerPC == {"lock",      \* about to lock and test task_head
             "parked",    \* waiting on work_cond
             "running",   \* inside the task's function, mutex released
             "returned",  \* the function returned, the mutex not yet locked
             "exited",    \* left task_run after a shutdown
             "undefined"} \* touched the pool's memory after it was freed

ClientPC == {"idle",
             "wait", "waitBlocked",        \* in pool_wait
             "destroyWait", "destroyBlocked", \* in pool_destroy's pool_wait
             "gone"}                       \* the pool has been freed

SeqElements(s) == {s[i] : i \in 1..Len(s)}

Init == /\ queue = <<>>
        /\ working_cnt = 0
        /\ thread_cnt = Cardinality(Workers)
        /\ shutdown = FALSE
        /\ pc = [w \in Workers |-> "lock"]
        /\ task = [w \in Workers |-> NoTask]
        /\ client = "idle"
        /\ pushed = <<>>
        /\ started = <<>>
        /\ finished = {}

----------------------------------------------------------------------------
(* Condition variables *)

\* pthread_cond_broadcast(&work_cond): every parked worker goes back to its loop.
WakeWorkers == pc' = [w \in Workers |-> IF pc[w] = "parked" THEN "lock" ELSE pc[w]]

\* pthread_cond_signal(&working_cond): only the client ever waits on it.
WakeClient == client' = CASE client = "waitBlocked"    -> "wait"
                          [] client = "destroyBlocked" -> "destroyWait"
                          [] OTHER                     -> client

----------------------------------------------------------------------------
(* The worker threads: task_run *)

Park(w) == /\ pc[w] = "lock" /\ client # "gone"
           /\ queue = <<>>
           /\ pc' = [pc EXCEPT ![w] = "parked"]
           /\ UNCHANGED <<pool, task, client, pushed, started, finished>>

SpuriousWakeWorker(w) == /\ pc[w] = "parked" /\ client # "gone"
                         /\ pc' = [pc EXCEPT ![w] = "lock"]
                         /\ UNCHANGED <<pool, task, client, pushed, started, finished>>

\* The exit test comes after the wait loop: only a worker that sees a task can exit.
Exit(w) == /\ pc[w] = "lock" /\ client # "gone"
           /\ queue # <<>> /\ shutdown
           /\ thread_cnt' = thread_cnt - 1
           /\ WakeClient
           /\ pc' = [pc EXCEPT ![w] = "exited"]
           /\ UNCHANGED <<queue, working_cnt, shutdown, task, pushed, started, finished>>

\* Mutant of Take: working_cnt is not raised in the critical section that pops.
TakeUncounted(w) ==
           /\ pc[w] = "lock" /\ client # "gone"
           /\ queue # <<>> /\ ~shutdown
           /\ task' = [task EXCEPT ![w] = Head(queue)]
           /\ queue' = Tail(queue)
           /\ started' = Append(started, Head(queue))
           /\ pc' = [pc EXCEPT ![w] = "running"]
           /\ UNCHANGED <<working_cnt, thread_cnt, shutdown, client, pushed, finished>>

\* task_pop and working_cnt++ under the lock.
Take(w) == /\ pc[w] = "lock" /\ client # "gone"
           /\ queue # <<>> /\ ~shutdown
           /\ task' = [task EXCEPT ![w] = Head(queue)]
           /\ queue' = Tail(queue)
           /\ working_cnt' = working_cnt + 1
           /\ started' = Append(started, Head(queue))
           /\ pc' = [pc EXCEPT ![w] = "running"]
           /\ UNCHANGED <<thread_cnt, shutdown, client, pushed, finished>>

\* task->function(task->arg) returns and task_destroy frees the task; no lock is held.
Run(w) == /\ pc[w] = "running"
          /\ finished' = finished \cup {task[w]}
          /\ task' = [task EXCEPT ![w] = NoTask]
          /\ pc' = [pc EXCEPT ![w] = "returned"]
          /\ UNCHANGED <<pool, client, pushed, started>>

\* Mutant of Finish: no signal on working_cond.
FinishSilently(w) ==
             /\ pc[w] = "returned" /\ client # "gone"
             /\ working_cnt' = working_cnt - 1
             /\ pc' = [pc EXCEPT ![w] = "lock"]
             /\ UNCHANGED <<queue, thread_cnt, shutdown, task, client, pushed, started, finished>>

Finish(w) == /\ pc[w] = "returned" /\ client # "gone"
             /\ WakeClient
             /\ working_cnt' = working_cnt - 1
             /\ pc' = [pc EXCEPT ![w] = "lock"]
             /\ UNCHANGED <<queue, thread_cnt, shutdown, task, pushed, started, finished>>

\* A worker that locks, or comes back from its wait, after free(m_pool): what the
\* thread does from there on is undefined.
TouchFreed(w) == /\ client = "gone"
                 /\ pc[w] \in {"lock", "parked"}
                 /\ pc' = [pc EXCEPT ![w] = "undefined"]
                 /\ UNCHANGED <<pool, task, client, pushed, started, finished>>

WorkerStep(w) == Park(w) \/ Exit(w) \/ Take(w) \/ Run(w) \/ Finish(w)

----------------------------------------------------------------------------
(* The client thread: task_push, pool_wait, pool_destroy *)

Enqueue(t) == /\ client = "idle"
              /\ t \notin SeqElements(pushed)
              /\ queue' = Append(queue, t)
              /\ pushed' = Append(pushed, t)
              /\ UNCHANGED <<working_cnt, thread_cnt, shutdown, task, client, started, finished>>

\* Mutant of Push: the broadcast on work_cond is missing.
PushSilently(t) == Enqueue(t) /\ UNCHANGED pc

\* Mutant of Push: the task is linked in before task_head, not after task_tail.
PushFront(t) == /\ client = "idle"
                /\ t \notin SeqElements(pushed)
                /\ queue' = <<t>> \o queue
                /\ pushed' = Append(pushed, t)
                /\ WakeWorkers
                /\ UNCHANGED <<working_cnt, thread_cnt, shutdown, task, client, started, finished>>

Push(t) == Enqueue(t) /\ WakeWorkers

WaitCall == /\ client = "idle"
            /\ client' = "wait"
            /\ UNCHANGED <<pool, pc, task, pushed, started, finished>>

\* Mutant of Drained: pool_wait looks at the list alone.
ListEmpty == queue = <<>>

\* The condition pool_wait waits for, tested under the mutex.
Drained == queue = <<>> /\ working_cnt = 0

WaitBlock == /\ client \in {"wait", "destroyWait"}
             /\ ~Drained
             /\ client' = IF client = "wait" THEN "waitBlocked" ELSE "destroyBlocked"
             /\ UNCHANGED <<pool, pc, task, pushed, started, finished>>

WaitReturn == /\ client = "wait"
              /\ Drained
              /\ client' = "idle"
              /\ UNCHANGED <<pool, pc, task, pushed, started, finished>>

SpuriousWakeClient == /\ client \in {"waitBlocked", "destroyBlocked"}
                      /\ WakeClient
                      /\ UNCHANGED <<pool, pc, task, pushed, started, finished>>

DestroyCall == /\ client = "idle"
               /\ shutdown' = TRUE
               /\ WakeWorkers
               /\ client' = "destroyWait"
               /\ UNCHANGED <<queue, working_cnt, thread_cnt, task, pushed, started, finished>>

\* Mutant of DestroyReturn: pool_destroy does not call pool_wait.
DestroyAtOnce == /\ client = "destroyWait"
                 /\ client' = "gone"
                 /\ UNCHANGED <<pool, pc, task, pushed, started, finished>>

\* pool_wait returns inside pool_destroy; the mutex, the conditions and the pool go.
DestroyReturn == /\ client = "destroyWait"
                 /\ Drained
                 /\ client' = "gone"
                 /\ UNCHANGED <<pool, pc, task, pushed, started, finished>>

ClientStep == WaitBlock \/ WaitReturn \/ DestroyReturn

Next == \/ \E w \in Workers : WorkerStep(w) \/ SpuriousWakeWorker(w) \/ TouchFreed(w)
        \/ \E t \in Tasks : Push(t)
        \/ WaitCall \/ DestroyCall \/ SpuriousWakeClient
        \/ ClientStep

\* Runnable threads get to run and the mutex is not withheld from one for ever: weak
\* fairness of each thread's own steps.  Nothing makes the client call anything, and no
\* spurious wakeup is promised.
Fairness == /\ \A w \in Workers : WF_vars(WorkerStep(w))
            /\ WF_vars(ClientStep)

Spec == Init /\ [][Next]_vars /\ Fairness

----------------------------------------------------------------------------
(* Properties *)

TypeOK == /\ queue \in Seq(Tasks)
          /\ working_cnt \in Nat
          /\ thread_cnt \in Nat
          /\ shutdown \in BOOLEAN
          /\ pc \in [Workers -> WorkerPC]
          /\ task \in [Workers -> Tasks \cup {NoTask}]
          /\ client \in ClientPC
          /\ pushed \in Seq(Tasks)
          /\ started \in Seq(Tasks)
          /\ finished \subseteq Tasks

\* The list between task_head and task_tail never loses, repeats or reorders a task, in
\* whatever order the client's pushes and the workers' pops fall: the tasks popped so far,
\* followed by the list, are the tasks pushed.
HandedOutInOrder == pushed = started \o queue

Busy == {w \in Workers : pc[w] \in {"running", "returned"}}

\* When pool_destroy frees the pool no worker is in a task or on its way to the unlock
\* that follows one: what a worker can still touch is the mutex and work_cond alone.
FreedOnlyWhenQuiet == client = "gone" => Busy = {}

\* pool_wait always returns: no signal is lost between a worker's last decrement of
\* working_cnt and the client's wait, although the signal precedes the decrement.
PoolWaitReturns == (client = "wait") ~> (client = "idle")

\* A pushed task is executed unless the pool is shut down first: no worker sleeps
\* through the broadcast of task_push.
PushedTaskRuns == \A t \in Tasks :
    (t \in SeqElements(pushed)) ~> (t \in finished \/ shutdown)

\* The comment over pool_wait, "wait for all tasks to be completed", also where
\* pool_destroy calls it: the call comes back with every pushed task completed.
DestroyCompletesTasks == (client = "destroyWait") ~> (finished = SeqElements(pushed))

\* The pool keeps the promises of TaskBatch.
Phase == CASE client = "idle"                             -> "open"
           [] client \in {"wait", "waitBlocked"}          -> "awaiting"
           [] client \in {"destroyWait", "destroyBlocked"} -> "closing"
           [] OTHER                                       -> "closed"

Batch == INSTANCE TaskBatch WITH
            waiting <- SeqElements(queue),
            active  <- SeqElements(started) \ finished,
            done    <- finished,
            phase   <- Phase

ImplementsTaskBatch == Batch!Spec
============================================================================
