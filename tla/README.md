# TLA+ models of the operating-systems projects

The repository holds three student projects in C. This directory holds TLA+ models of
them, TLC configurations that check the models on small instances, and proofs that the
TLA+ proof system checks for every value of the constants. Everything here is written
from the source; where code and comment disagree, the model follows the code and a run
shows the disagreement.

- `Prj1 Basic Linux Concurrency`: a pipe copy, a shell server, a matrix multiplication
  over a thread pool.
- `Prj2 Inter-Process Communication and Synchronization`: two semaphore programs.
- `Prj3 Design and Implementation of the File System`: a disk server (Step1), a file
  system in one process (Step2), and disk server, file system server and client over
  sockets (Step3).

`tlc -config X.cfg M` runs a configuration, `tlapm M.tla` checks the proofs of a module.

## 1. Inventory

| Component | State it keeps | Operations | Talks to | What is hard | What makes it correct |
|---|---|---|---|---|---|
| Thread pool (`matrix_lab/thread_pool.h`) | task list, `working_cnt`, `thread_cnt`, `shutdown`, one mutex, two conditions | `pool_create`, `task_push`, `task_run` (each worker), `pool_wait`, `pool_destroy` | its client and its detached workers | wakeups racing waits, the signal before the decrement, the pool freed under sleeping workers | every task is run once and in order of being handed in, no wakeup is lost, the waits return and only when the pool is drained |
| Matrix program (`multi.c`) | matrices, the arguments of the tasks, output file | push one task per cell, wait, write, free, destroy | the pool | result and memory are shared with the workers without a lock | output complete and right, nothing computed on freed memory, ends |
| Sequential matrix, generators | none | straight-line computation | files | nothing | - |
| Pipe copy (`Copy.c`) | two buffers, a pipe | parent reads the file and writes the pipe, child reads the pipe and writes the file | each other | short reads, the last partial block | the copy is the source, padded to whole buffers |
| Shell server (`shell.c`) | listening socket, table of session pids, per session a directory | accept, exit key, one command or pipeline after the other | clients, forked stages, the keyboard | stages run one after the other over bounded pipes, the exit key tested only after an accept, one keyboard for the server and all sessions | a pipeline delivers and ends; a shutdown waits for every session |
| Stooge farmers (`LarryCurlyMoe.c`) | three semaphores, `unfilled`, three indices | dig, seed, fill | three threads | an unlocked counter, a semaphore that is busy-waited on | shovel exclusion, bound, order, termination |
| Faneuil Hall (`faneuil.c`) | two semaphores, a polled flag, `immigrant_idx` | immigrant, judge and spectator visits | three threads | test and move are two steps, decisions taken on another thread's counter | the rendezvous, the rules of the hall, termination |
| File system, in memory (`Step3/fs.c`, helpers also in `Step2/fs.c`) | inode bitmap, data bitmap, inodes, sectors, current directory | `f mk mkdir rm rmdir cd ls r cat w i d` | the session, the disk side | failures half-way through a resize, reuse of inodes, recursive deletion by position | blocks have one owner and are marked, directories form a tree over the inodes in use |
| File system, disk side (`Step3/fs.c`) | list of changed sectors, `file_in_memory` | `sector_write_pre`, `update_disk`, `transfer`, start from an existing disk | disk server | crashes between writes, stale flags, an unbounded list | after a restart the directories name inodes in use |
| Disk server (`Step3/disk.c`, `Step1/disk.c`) | the disk file, the arm's cylinder | `R W E` (`I R W E`) | file system server | requests out of range, short reads of the socket, a file system that is gone | every request is answered, a read returns what was written last |
| Client (`client.c`) | none | send a line, wait for a reply | file system server | a reply that never comes | each command gets one reply |

`PROJECT.json` lists the hazards of these components, each at its line, with the
property that watches it or the reason why none does yet.

## 2. Plan

Built so far, in this order, the thread pool first because every wait in it depends on it:

1. `TaskBatch`, `ThreadPool`, `MCThreadPool`, `ThreadPoolProofs`
2. `MatrixMultiply` (composes `ThreadPool`), `MCMatrixMultiply`, `MatrixMultiplyProofs`
3. `HoleLine`, `StoogeFarmers`, `MCStoogeFarmers`, `StoogeFarmersProofs`
4. `FaneuilHall`, `MCFaneuilHall`, `FaneuilHallProofs`
5. `FileSystem`, `MCFileSystem`, `FileSystemProofs`
6. `ShellServer`, `MCShellServer`, `ShellServerProofs`
7. `SectorArray`, `DiskLink`, `FileServer` (extends `FileSystem`, uses `DiskLink`), `MCFileServer`,
   `FileServerProofs` (extends `FileSystemProofs`)
8. `PipeCopy`, `PipeCopyProofs`

Not built: file contents, that is `d`, `i`, `w` and `cat` as functions on byte sequences, against
a reference.

## 3. The modules

### Thread pool: `ThreadPool`, `TaskBatch`

All accesses to the pool's fields are inside `task_mutex`, so one critical section is one
action: `Park`, `Take` and `Exit` are the three ways through the locked part of `task_run`,
`Run` is the task's function without the lock, `Finish` the locked part after it. A thread
inside `pthread_cond_wait` has a state of its own, and signal, broadcast and spurious wakeup
send it back to its loop. `client` is the program counter of the one client, which may call
anything in any order until it has destroyed the pool. `TouchFreed` is a worker that locks or
wakes up after `free(m_pool)`; from there on it is in "undefined".
`pushed`, `started` and `finished` are history variables.

`TaskBatch` is what the header promises: tasks waiting, active, done, and waits that return
only when nothing is waiting or active. `ImplementsTaskBatch` maps the list to `waiting` and
the tasks popped and not finished to `active`.

Left out: several clients of one pool (the program has one), failures of `malloc` and of
`pthread_create`.

### Matrix program: `MatrixMultiply`

`main` of `multi.c` is the one client of the pool: the module extends `ThreadPool` with the
cells as tasks, and each step of `main` is a call of the pool or leaves it alone. A cell is "uninit" until
its task stores it, and what is computed on freed memory is "junk". Reading the input is left
out: by the time the pool exists the two matrices are complete.

### Farmers: `StoogeFarmers`, `HoleLine`

One action per semaphore call and per access to `unfilled`. `HoleLine` is the promise seen
from outside: a hole is seeded after it is dug and filled after it is seeded, never more
than the limit ahead.

### Faneuil Hall: `FaneuilHall`

One action per semaphore call, per read or write of `judge_in_hall`, and per printed line a
rule of the hall is about.

### Shell server: `ShellServer`

Server, sessions, clients and running stages are processes. `Quit` and `Fork` are the two ways
on from an accept; a `q` may be at the keyboard at any accept. A session asks for one of the
pipelines of `Lines`, creates all pipes, and then forks a stage (`ForkStage`), closes its ends
(`CloseEnds`) and waits (`WaitStage`), once per stage. `held` and `fds` are the pipe ends open
in the session and in its running stage; a stage gets the session's ends by `fork` and closes
two of them (`ClosedByStage`). End of file and a broken pipe follow from who has which end
open. Data is counted in units a pipe holds `Capacity` of, and a command is what it does to the
amount: `cat` passes on, `wc` reads all and prints one unit, anything else (`ls`, `pwd`, `cat f`,
an unknown word) prints some and reads nothing. A client may leave at any time.

A line without a pipe is run by the session itself (`AskAlone`). A `cat` or `wc` without a file
and without a pipe before it reads the keyboard of the server: `Typed` and `TypingEnds` are what
happens there, and nothing obliges anybody to type. The test for `q` reads the same keyboard;
since a `q` may be found at any accept, the model need not say who of several readers gets a key.

Left out: parsing and the two error messages about misplaced `|`; failing `fork`, `pipe` and
`accept`; and what happens behind the end of `thread_pid`.

### Pipe copy: `PipeCopy`

One action per `fread`, `write`, round of the child's loop and end of either process. A write of
at most `PIPE_BUF` bytes enters the pipe whole, a larger one in any parts. The child writes a whole
buffer whatever `read` returned, and its buffer first holds what `malloc` found there.
`Padded` is the source with the zeros that `memset` puts behind its end. With buffers the pipe
splits, bytes of an earlier round get into the copy, so the theorem about the text is about small
buffers only.

### File system: `FileSystem`

The server takes one command at a time, so a command is one action, a function from an image
of `file_storage` to the next. Helpers keep the names of the C functions (`file_resize`,
`file_delete`, `dir_delete`); `Expand`, `ExpandIndex` and `Shrink` are the branches of
`file_resize`, in its order, with its two places to fail. Sizes are counted in sectors, a
sector is a directory, an index block or data, and the bytes of data are left out: how far
`d` and `i` resize a file is an input, and `i` never asks for more than the `Capacity` of an inode.
`dir_delete` calls itself with the number of an inode; it is written as the stack of its calls,
one `DeleteStep` for each entry it looks at, and `DeleteSteps` bounds their number. The
tree of directories is stated by sets of inodes, and the names are any but `.` and `..`
(`FileSystemAssumption`). A free inode and a free sector keep what was
last in them, because the code only resets `type` and `direct[0]` of an inode it reuses.

`Spec` is the file system under an orderly client. It leaves out five kinds of command that
damage the image, or end or hang the server, at once: `r` of a directory, `rmdir` of `.`, `..` or of a directory
with subdirectories, `w` of a text longer than a sector onto sectors that do not follow one
another, `r` beyond the 4 + 64 sectors a file can have, and `d` on a file without sectors.
`SpecRmdir` and `SpecWrite` put two of them back, and their runs show what happens.

### File server, client and disk: `FileServer`, `DiskLink`, `SectorArray`

`DiskLink` is the socket to the disk server, the disk server with its storage file, and what the
loop of the disk server does when nobody is at the other end: `op`, cylinder and sector are what
they were, the buffer is full of zeros, and the last `W` is served again and again (`DiskSpins`).
`CutWrite` is the `W` in the middle of which the file system was killed.

`FileServer` puts the file system server between a client and `DiskLink`. What a command does to
the image in memory is the operator of that name in `FileSystem`, which it extends; its own
initial states, steps and commands have other names (`ServerInit`, `ServerNext`, `EnterDirectory`,
`OverwriteFile`). What `FileServer` adds is everything around a command:

- `Fetch` and `Fetched` are one round of `get_sector_from_disk`. `Transferred` are the inodes a
  command calls `transfer` for, `Lacking` the sectors of one of them that are not in memory (none if
  its `file_in_memory` is set, and none whose `data_block_in_memory` is), and `AwaitNext` puts the
  first of all these into `sector_idx`, after each command line and each sector read.
- `Execute` is the command. It sets `file_in_memory` (`Flag`), puts sectors on `update_sector`
  (`List`), and replies before or after the list is sent, or not at all (`ReplyAndSave`,
  `ReplyOnly`, `SaveUnreplied`).
- `Save`, `Saved` and `Stop` are `update_disk` and the end; `Killed` is a signal, or the `SIGPIPE` of
  a reply to a client that is gone.
- `server` is "dead" after a null pointer or a kill, "spinning" in a `file_resize` that never ends,
  and "undefined" once it worked on memory that was never written (`Mistaken`) or
  took a disk that was never formatted for a formatted one (a `q` before `f` leaves such a disk).
- `newer` is a history variable: the sectors whose text in memory the disk has not been sent.

`SectorArray` is what the file system counts on: a write is done at once, a read is answered
with what was written last. `Link!Settled(s)` maps the disk to it: the last write of `s` still
under way, or else what the storage file has. A step of `SectorArray` that writes or reads asks for
`Quiet`, so the refinement also says that the server never sends while it waits for a sector.

The table of inodes is one sector here, so the numbers that `mk` and `mkdir` mistake for an inode
come down to one, `InodeSector`.

## 4. The runs

| Run | Configuration | What it shows | Instance |
|---|---|---|---|
| threadpool | `MCThreadPool.cfg` | `HandedOutInOrder`, `FreedOnlyWhenQuiet`, no lost wakeup (`PoolWaitReturns`, `PushedTaskRuns`), refinement of `TaskBatch` | 2 workers, 3 tasks |
| threadpool_shutdown | `MCThreadPoolShutdown.cfg` | `DestroyCompletesTasks` fails | same |
| matrix | `MCMatrixMultiply.cfg` | the output is the product, memory is live while used, the freed pool is met only after the output, the program ends | sizes 0 to 2, 2 workers |
| farmers | `MCStoogeFarmers.cfg` | exact count, bound, termination for every argument but 0, refinement of `HoleLine` | 4 holes, limits 0 to 4 |
| faneuil | `MCFaneuilHall.cfg` | the rendezvous, the immigrants' moves avoid the judge, the one way to hang | 3 immigrants |
| faneuil_spectators | `MCFaneuilSpectatorsAvoidJudge.cfg` | `SpectatorsAvoidJudge` fails | 3 immigrants |
| faneuil_exit | `MCFaneuilThreadsExit.cfg` | `ThreadsExit` fails | 3 immigrants |
| shell | `MCShellServer.cfg` | a pipeline delivers what its commands compose to, ends exactly if it fits, gives back its pipe ends; the server exits last, and does exit | 2 sessions, pipes of 1 unit, 5 lines of up to 3 stages, 2 units typed |
| fs | `MCFileSystem.cfg` | one owner per block, used blocks marked, dense directs and slots, a tree of directories, leaks only when full | 4 inodes, 5 blocks besides the root's, 2 directs, 2 slots, 3 entries, 2 names |
| fs_rmdir | `MCFileSystemRmdir.cfg` | `NamespaceIsTree` fails | same |
| fs_write | `MCFileSystemWrite.cfg` | `DirectoriesIntact` fails | same |
| fileserver | `MCFileServer.cfg` | refinement of `SectorArray`; what the disk will not get is the first sector or the index of a file; file flags mislead only for the number `mk` sets; nothing is sent that was never read, and no request is out of range; a clean exit leaves a sound disk; commands are answered | 2 commands, 2 starts, 3 inodes, 5 blocks besides the root's, 1 direct, 2 slots, a socket of 1 request |

Why the bounds are enough. Pool: a worker idle, one busy and a task queued at once need two
workers and two tasks; the third task gives the list a middle element. Farmers: a limit of 1
makes Larry wait after each hole, one of 4 never. Hall: three numbers have a first, a last
and one before the last, which is the one the judge stops at too early. File system: two
directs and two slots let a file cross from directs to index block and back, five blocks are
exhausted before, at and after the index block, three entries leave a subdirectory room for
one name besides `.` and `..`, so full directories occur, and four inodes give a chain of three
directories. `RootBlock` is the program's: sectors 0 to 6 hold metadata.

Shell: two sessions are needed for one to be waited for while another runs, and leave the case
of an unused slot of `thread_pid`; three stages have a first, a middle and a last one, the three
branches of the code. The pipeline `print 1 | wc | cat` fills each pipe exactly and reads
both; `print 1 | print 2 | cat` leaves data unread in its first pipe and overflows the second.
`print 1` and `wc` without a pipe run in the session; `cat | cat` fits or overflows its pipe,
depending on what is typed.

File server: each start of the server begins with memory that was never written, so its first
command meets every sector it needs missing. The disk is new (and the first command `f`), or
holds a file of two sectors with an index block whose inode is 1, or 2, which is `InodeSector`.
Two commands are enough for the first to leave behind in flags, list and memory what the
second trusts, and two starts for a second server to find the disk of the first. A socket of one
request makes the server wait for the disk in the middle of `update_disk` and lets it run one
request ahead. With one direct every file of more than a sector has an index.

The file system run uses symmetry in the two names (no action or property tells one name from
another) and a `VIEW` that drops what no command reads: sectors no file has, and `type` and
`direct[0]` of a free inode, which `mk` and `mkdir` set. The rest of a free inode stays in
the view, because a new file inherits it. Slots that are `None` beyond an index block, and the
image as a whole, are compared exactly. The one action property of that run, `LeaksOnlyWhenFull`,
reads only bitmaps and blocks of live inodes, which the view keeps.

Deadlock is checked except where a program may really stop: the pool's client may stop
calling, the judge may leave the last immigrant waiting, the shell may wait for a client, for
somebody who types, or for a pipeline that does not fit, and the file server for a client, or for
ever after a kill or in a resize without an end.

## 5. Fairness

Weak fairness of each thread's own steps throughout: a runnable thread is scheduled and a
mutex is not withheld for ever. Spurious wakeups and calls of the client are never owed.
`StoogeFarmers` adds strong fairness of Moe's `sem_wait` on the shovel: Larry drops it and takes
it again for as long as he is held back, but sleeps up to two seconds in between, so the
shovel is free again and again while Moe waits. In `ShellServer` server, sessions
and stages are processes that run when they can; nobody has to connect, ask or leave, so
`ShutdownCompletes` supposes that the clients have left; nobody has to type either, so it and
`PipelineEnds` except lines that read the keyboard. In `FileServer` the file system server and the
disk server run on until they block; nobody has to start them, connect, or type a command, and
no server has to be killed. `FileSystem` by itself has safety properties only.

## 6. What is proved

For every number of workers and tasks, sizes of matrices, holes and limits, immigrants, sessions,
lines and capacities of pipes, sectors and requests under way, inodes, directs, slots and names,
for every source, buffer and pipe. None of the proofs assumes more than the named
assumptions on constants. Those of the file server say that there is a name and a sector for the file that
the disk of `ServerInit` may hold, and that the inode table is not in sector 0. `FileServerProofs` takes
some twenty minutes on two threads, `FileSystemProofs` ten, the others less than two each.

- `ThreadPoolProofs`: `PoolInv` is inductive. `TypeOK` and `HandedOutInOrder` are not enough for
  the waits: the proof needs that `working_cnt` is the number of workers between the pop and
  the lock after the task, `thread_cnt` the number not exited, and that every task begun and
  not completed belongs to exactly one running worker. Then `Drained`, a test of two fields,
  means that no task is waiting or active (`DrainedIsQuiet`), which gives `PoolFreedWhenQuiet` and
  `PoolImplementsTaskBatch`; a worker that does not see `shutdown` runs before `pool_destroy`
  was called, which makes a pop a `Begin`.
- `MatrixMultiplyProofs`: every behaviour of the program is one of the pool with a client that
  may do less (`MainIsLegalClient`), so `PoolInv` and all that follows from it hold in the program.
  `ProgramInv` adds that the cells are pushed row by row, each once, that nothing is queued or
  running once `pool_wait` has come back, and that a finished task has stored its cell. From it `OutputIsProduct`,
  `ComputesOnLiveMemory` and `FreedPoolMetAfterOutput`.
- `StoogeFarmersProofs`: `FieldInv` is inductive. The shovel's semaphore and its holders add up to
  one, so the limit Larry tests still holds when he digs; the other two semaphores hold exactly
  the holes between two farmers, which orders the three counts. From it exclusion, the
  exact count, the bound, and the refinement of `HoleLine`.
- `FaneuilHallProofs`: `HallInv` is inductive. The number of confirmations and the places of the two
  threads determine both semaphores; an immigrant who found the flag down keeps the judge away
  until it sits down. From it the rendezvous, the oath, and that no immigrant moves during a
  visit.

- `ShellServerProofs`: `SessionInv` says which pipe ends a session and its stage hold at each place
  of the loop (`HeldBefore`, `FdsOf`), that what a stage has read, printed and still owes add up
  (`Accounted`), that a stage that exited has printed all it should, and that every earlier one fitted
  its pipe. `ServerInv` says that the sessions waited for have ended. What the stages of a line
  print is defined by recursion over the line; the provers cannot instantiate the library's
  induction, so it is unfolded by an induction over sets of numbers (`SetInduction`). From these
  `PipelineDelivers`, `EndsOnlyIfItFits`, `EndsGivenBack` and `ServerExitsLast`.
- `FileSystemProofs`: `SoundInv` is inductive under the orderly client of `Spec`. It is more than what
  the run checks. `BlocksSound`: every block is held at one place of one inode in use and is marked,
  blocks of files are dense, a directory is its first direct and nothing else (or deleting it would
  lose blocks), and a free inode holds at most the first direct that `file_delete` leaves behind,
  which `mk` and `mkdir` overwrite. `TreeOn`: entries lead to inodes in use, each inode but the root
  has one entry that names it, `..` leads back to the directory of that entry, and no set of
  inodes is cut off from the root. `Resized`, `Removed` and `Added` say what a resize, a deletion and a creation may do to
  the other inodes; `ShrinkResizes`, `ExpandResizes`, `RemovalKeepsSound` and `AdditionKeepsSound`
  prove it of the code's helpers. The calls on the stack of `dir_delete` and
  the steps of `cd` are counted by an induction over sets of numbers. From `SoundInv` follow `NoBlockShared`,
  `UsedBlocksMarked`, `BlocksAreDense`, `NamespaceIsTree`, `DirectoriesIntact` and
  `StandsInDirectory`. `LeaksOnlyWhenFull` needs more of each helper: `Accounts` says that every block
  marked afterwards is held by the file or was marked before in vain, `LosesNone` the same of the whole
  image. Only `file_resize` may break it, and it does so when it has taken the last free block and
  wants one more for the index. The proof needs that no command asks for more sectors than a
  file has places (`Capacity`): `q1` and `q2` then all find a hole (`FillHolesPlaces`).
  The last sections of the module are about images of which only a part is in memory, for `FileServerProofs`.
- `FileServerProofs` has two invariants, and each needs the other. `MemoryInvariant` proves them together, for
  any number of commands and starts.

  *Memory and disk.* `MemoryInv` is the inductive invariant behind the four invariants that the run checks; none
  of those is inductive. Let `Final` be what the disk holds once it has served all requests under way, and
  `Complete(file_storage, Final)` the image in memory with `Final` wherever nothing was read. As long as the server
  runs and was not misled, `Tracks` says: this image is sound (`Sound` of `FileSystemProofs`) with
  directories in the root only; an inode in `file_in_memory` has all its blocks in memory, but for the number of
  the inode table; sectors that are listed or whose flag is set are in memory; and memory and `Final` differ
  only in sectors about to be sent, in index blocks, which on the disk are what they were before they grew
  (`OlderIndex`), and in newer text, which is that of a first sector. `Waiting` says that what the server waits for
  is what the command still lacks, so nothing lacks when it is executed; `Loading`, `Unformatted` and
  `Leaving` are about the time before the first command and after the last one, `Stopped` and `ExitLast` about
  the disk between two starts (`GoodDisk`).
  A command is followed in three steps: what it reads is in memory (`SubjectReads`, `LookedHeld`), what it does to
  the image in memory it does to the complete image, which `FileSystemProofs` knows to stay sound
  (`CompleteResized`, `CompleteRemoved`, `CompleteAdded`), and every place of an inode then holds a sector that is listed, or what
  it held before, perhaps grown (`Carries`, `Carried`). An index block that is older than the one in memory loses no
  soundness, only sectors of its own file (`OlderSound`); so a sector sent (`SaveTracks`) or read
  (`FetchTracks`), and a start from such a disk (`StartTracks`), keep `Tracks`. From it `LittleStaysUnsaved`,
  `FlagsStayTrue`, `OnlyHeldIsSent`, `CleanExitsStaySound` and `RequestsStayInRange`. The initial
  disk is not assumed to be sound: `InitDisk` proves that `f`, `mk` and `r` leave such a disk.

  *The socket.* `LinkSpec` (the actions of `DiskLink`, sent only when no sector is awaited)
  implements `SectorArray` (`LinkImplementsArray`). `LinkInv` says that a read is the last request and nothing is on its way
  back, and that a sector with writes under way has a last one (`HasLast`), which makes `Max` of their
  positions known without an induction on the length. `AppendWrite` and `TailWrite` say what
  becomes of the last write when a request is sent and served; from them every step leaves the
  array alone or is one of its steps: `DiskReads` an answer, `DiskSpins` the loss of one sector, and
  `Connect` drops an answer nobody waits for. The server keeps to `LinkSpec`: `ServerInv` adds
  that something is awaited only between `Fetch` and `Fetched` or after a kill, so `Fetch`, `Save` and
  `Stop` send in turn, and `RequestsInRange`, out of `MemoryInv`, that what they ask for and send exists: the numbers come
  out of sound inodes and index blocks. This is `ServerSeesArray`, the refinement the run checks.
- `PipeCopyProofs`: `CopyInv` is inductive for buffers of 1 to `PIPE_BUF` bytes: destination, pipe
  and what is being written follow one another in the padded source, each a number of
  whole buffers, so no read is short. From it `CopyIsPadded`. `WholeBuffers` has an invariant of its
  own, for every buffer.

Only model-checked: all liveness (it rests on fairness and on `ENABLED`, out of the provers' reach). Every
invariant, action property and refinement that a run checks is also proved. `PipeCopy` has proofs and no run.

## 7. Where code and comments disagree

- `thread_pool.h:132`: a worker leaves at a shutdown before it pops, `pool_destroy` then waits for
  a list that nobody empties. `multi.c` never gets there: it drains the pool first.
- `faneuil.c:108` and `:120`: spectators may come in or leave during a visit.
- `faneuil.c:94`: the judge may stop one visit early and the program hangs.
- `Step3/fs.c:603`: `rmdir` of a directory with a subdirectory frees the inode at the wrong
  position; for a first entry of the root it frees the root.
- `Step3/fs.c:1157`: `w` of more than a sector writes on in memory, over other files' sectors.

## 8. Not modelled

- The sequential matrix program and the generators: no state. Argument parsing everywhere.
- `Step1/disk.c`, the disk server's commands on a terminal, and the arm of `Step3/disk.c`: a request
  names a sector, and cylinder and delay tell no property from another.
- In `FileServer` and `DiskLink`: the bytes of requests (a request is one message, save for the one that is
  cut by a kill), requests out of range, sector 0, which never changes, an inode table of several
  sectors, commands that are refused at once, `cd` of longer paths (in `FileSystem`), and
  directories below the first level (in the run `fs`); a list of more than 1024 sectors; a
  restart of the disk server by itself. A kill ends the story: the disk server loops with the
  old connection and has to be killed too, and no new start follows in the model.
- The bytes of files, names longer than the limit, the log and the wording and time stamps of replies.
- In `PipeCopy`: a destination that runs full, a source that cannot be read, failing `pipe` and `fork`.
