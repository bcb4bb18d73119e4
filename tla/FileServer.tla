----------------------------- MODULE FileServer -----------------------------
(***************************************************************************)
(* The file system server of Step3/fs.c between a client (Step3/client.c)  *)
(* and the disk server: which sectors are in memory, which are on the list *)
(* for the disk, what is fetched before a command and sent after it, the   *)
(* replies, the clean exit, the restart and the sudden end.                *)
(*                                                                         *)
(* What a command does to the image in memory is taken from FileSystem,    *)
(* the socket and the disk server from DiskLink.  The client is the        *)
(* orderly one of FileSystem, and makes directories in the root only.      *)
(* Sector 0 never changes and is left out; the inode table is one sector.  *)
(***************************************************************************)
EXTENDS FileSystem

CONSTANTS InodeSector,   \* the sector of the inode table, 3 in the program
          WireSize,      \* requests the socket to the disk holds
          MaxCommands,   \* commands the clients send
          MaxStarts      \* starts of the two servers

\* The session that left the disk to be found had a name and a sector for a file; the inode
\* table does not lie in sector 0.
ASSUME FileServerAssumption == Names # {} /\ LAST_BLOCK > RootBlock /\ InodeSector # 0

VARIABLES
    inited,                  \* the image is formatted or read
    update_sector,           \* the list of sectors for the disk
    data_block_in_memory,    \* the sectors whose flag is set
    file_in_memory,          \* the numbers whose flag is set
    newer,                   \* sectors whose text is not the one last sent to the disk
    server, job, client,     \* where the two processes stand, and the command being served
    sector_idx,              \* the sector that the command has to wait for, 0 if there is none
    commands, starts,
    wire, reply, store, exists, disk, op, last

InodeBitmap == 1
DataBitmap  == 2
InodeTable  == 3
BasicSectors == {InodeBitmap, DataBitmap, InodeTable, RootBlock}
Sectors      == BasicSectors \cup Blocks

Link == INSTANCE DiskLink WITH Zero <- Data

memVars  == <<file_storage, cur_dir, inited, update_sector, data_block_in_memory,
              file_in_memory, newer>>
linkVars == <<wire, reply, store, exists, disk, op, last>>
procVars == <<server, job, client, sector_idx, commands, starts>>
serverVars == <<memVars, procVars, linkVars>>

Blank  == [Formatted EXCEPT !.sector = [b \in Blocks |-> Unread]]

\* What f makes of memory that was never written.
AfterFormat == [Blank EXCEPT !.sector[RootBlock] = Formatted.sector[RootBlock]]

\* Sector s of an image.
Contents(m, s) == CASE s = InodeBitmap -> [kind |-> "inode_bitmap", bit |-> m.inode_bitmap]
                    [] s = DataBitmap  -> [kind |-> "data_bitmap", bit |-> m.data_bitmap]
                    [] s = InodeTable  -> [kind |-> "inodes", inode |-> m.inode]
                    [] OTHER           -> m.sector[s]

\* Sector s of the memory of the server.
Held(s) == IF inited THEN Contents(file_storage, s) ELSE Unread

Job(o, name) == [op |-> o, name |-> name]
NoJob        == Job("none", "")

\* A file of two sectors with inode i, as f, mk and r leave it.
WithFile(i) == LET name == CHOOSE n \in Names : TRUE
               IN file_resize(Create(AfterFormat, name, File, i, Data), i, 2).mem

\* The disk is new, or holds what a short session and a clean exit have left there.
ServerInit ==
    /\ cur_dir = 0
    /\ \/ exists = FALSE /\ store = [s \in Sectors |-> Data]
       \/ exists = TRUE  /\ \E i \in 1..INODE_NUM - 1 :
                               store = [s \in Sectors |-> Contents(WithFile(i), s)]
    /\ wire = <<>> /\ reply = <<>> /\ disk = "stopped" /\ op = "" /\ last = {}
    /\ file_storage = Blank /\ inited = FALSE
    /\ update_sector = {} /\ data_block_in_memory = {} /\ file_in_memory = {} /\ newer = {}
    /\ server = "stopped" /\ job = NoJob /\ client = "none" /\ sector_idx = 0
    /\ commands = 0 /\ starts = 0

----------------------------------------------------------------------------
(* Fetching sectors *)

\* f[0], f[1], ... up to the first place that is empty.
Prefix(f) == LET s == [k \in 1..Cardinality(DOMAIN f) |-> f[k - 1]]
                 n == SelectInSeq(s, LAMBDA b : b = None)
             IN IF n = 0 THEN s ELSE SubSeq(s, 1, n - 1)

\* Mutant of transfer: the blocks behind the index block are not fetched.
transferDirect(m, i) == LET direct   == Prefix(m.inode[i].direct)
                            indirect == m.inode[i].indirect
                        IN IF direct = <<>> \/ indirect = None THEN direct
                           ELSE <<direct[1], indirect>> \o Tail(direct)

\* The sectors transfer asks for, in its order: it looks at the index after each direct.
transfer(m, i) == LET direct   == Prefix(m.inode[i].direct)
                      indirect == m.inode[i].indirect
                  IN IF direct = <<>> \/ indirect = None THEN direct
                     ELSE <<direct[1], indirect>> \o Prefix(Slots(m, i)) \o Tail(direct)

\* The inodes in the entries of directory d.
Locations(m, d) == LET ch == Children(m, d) IN [k \in 1..Len(ch) |-> ch[k].loc]

\* The position in directory d of what job j names, 0 if it is not there.
Found(m, d, j) == CASE j.op \in {"d", "w", "i", "cat", "rm"} -> EntryOf(m, d, File, j.name)
                    [] j.op \in {"cd", "rmdir"} -> EntryOf(m, d, Directory, j.name)
                    [] j.op = "r" -> SelectInSeq(Children(m, d), LAMBDA e : e.name = j.name)
                    [] OTHER      -> 0

\* The inodes whose sectors the job needs, as far as they are known, if d is the current directory.
Named(m, d, j) == IF j.op = "ls" THEN Locations(m, d)
                  ELSE LET k == Found(m, d, j)
                       IN IF k = 0 THEN <<>> ELSE <<Locations(m, d)[k]>>

\* rmdir goes on to the files of the directory; its "." and ".." have been transferred then.
Transferred(m, d, j) ==
    LET named == Named(m, d, j)
    IN CASE j.op = "start" -> <<0>>
         [] j.op \in {"f", "new", "cd /"} -> <<>>
         [] j.op = "rmdir" /\ named # <<>> -> <<d>> \o named \o Locations(m, named[1])
         [] OTHER -> <<d>> \o named

\* The sectors of inode i that are still to be fetched, if have is there and the flags of
\* known are set.  Only ls does not look at them.
Lacking(m, have, known, j, i) ==
    IF j.op = "ls" \/ i \notin known THEN ToSet(transfer(m, i)) \ have ELSE {}

\* The first element of q that have does not hold.
FirstMissing(q, have) == q[SelectInSeq(q, LAMBDA s : s \notin have)]

\* sector_idx becomes the sector to be fetched first, 0 if there is none: the bitmaps and the
\* inode table at the start, then sectors of the first inode that lacks one.
AwaitNext(m, have, j) ==
    LET basic == IF j.op = "start" THEN {InodeBitmap, DataBitmap, InodeTable} \ have ELSE {}
    IN \/ basic # {} /\ sector_idx' = Min(basic)
       \/ /\ basic = {}
          /\ \E inodes \in {Transferred(m, cur_dir, j)} :
             \E lacking \in {{k \in 1..Len(inodes) : Lacking(m, have, file_in_memory, j, inodes[k]) # {}}} :
                \/ lacking = {} /\ sector_idx' = 0
                \/ lacking # {} /\ \E q \in {transfer(m, inodes[Min(lacking)])} :
                                     sector_idx' = FirstMissing(q, have)

Fetch == /\ server = "load" /\ sector_idx # 0
         /\ Link!SendRead(sector_idx)
         /\ server' = "await"
         /\ UNCHANGED <<memVars, job, client, sector_idx, commands, starts>>

\* A disk file that was never formatted has no bitmaps.
Readable(s, c) == s \in Blocks \/ c.kind = Contents(Blank, s).kind

\* The memory m after c has been read into sector s.
ReadInto(m, s, c) == CASE s \in Blocks       -> [m EXCEPT !.sector[s] = c]
                       [] s = InodeBitmap    -> [m EXCEPT !.inode_bitmap = c.bit]
                       [] s = DataBitmap     -> [m EXCEPT !.data_bitmap = c.bit]
                       [] s = InodeTable     -> [m EXCEPT !.inode = c.inode]

Fetched == /\ server = "await"
           /\ Link!GetReply
           /\ data_block_in_memory' = data_block_in_memory \cup {sector_idx}
           /\ newer' = newer \ {sector_idx}
           /\ \/ /\ Readable(sector_idx, Head(reply))
                 /\ server' = "load"
                 /\ file_storage' = ReadInto(file_storage, sector_idx, Head(reply))
                 /\ AwaitNext(file_storage', data_block_in_memory', job)
              \/ /\ ~Readable(sector_idx, Head(reply))
                 /\ server' = "undefined"
                 /\ UNCHANGED <<file_storage, sector_idx>>
           /\ UNCHANGED <<cur_dir, inited, update_sector, file_in_memory, job, client, commands, starts>>

----------------------------------------------------------------------------
(* Starting, and the client *)

\* An existing disk file is read at once, up to the root directory.
Start ==
    /\ server = "stopped" /\ starts < MaxStarts
    /\ Link!Connect
    /\ starts' = starts + 1
    /\ server' = "load" /\ job' = Job(IF exists THEN "start" ELSE "new", "")
    /\ file_storage' = Blank /\ cur_dir' = 0 /\ inited' = FALSE
    /\ update_sector' = {} /\ data_block_in_memory' = {} /\ file_in_memory' = {} /\ newer' = {}
    /\ sector_idx' = IF exists THEN InodeBitmap ELSE 0
    /\ UNCHANGED <<client, commands>>

Started ==
    /\ job.op \in {"start", "new"}
    /\ inited' = (job.op = "start")
    /\ file_in_memory' = IF job.op = "start" THEN {0} ELSE {}
    /\ server' = "idle" /\ job' = NoJob
    /\ UNCHANGED <<file_storage, cur_dir, update_sector, data_block_in_memory, newer,
                   client, sector_idx, commands, starts, linkVars>>

Accept == /\ server = "idle" /\ client = "none"
          /\ client' = "ready"
          /\ UNCHANGED <<memVars, server, job, sector_idx, commands, starts, linkVars>>

\* What an orderly client keeps away from; the rest is as in FileSystem.
Orderly(o, name) == /\ o = "mkdir" => cur_dir = 0
                    /\ o = "r" => \A e \in ToSet(Children(file_storage, cur_dir)) :
                                      e.name = name => file_storage.inode[e.loc].type = File

\* A command is sent and received.  Commands that are refused at once, before f all but f and
\* after it f, change nothing and are left out.
Ask(o, name) ==
    /\ server = "idle" /\ client = "ready" /\ commands < MaxCommands
    /\ inited = (o # "f")
    /\ Orderly(o, name)
    /\ commands' = commands + 1
    /\ client' = "waiting" /\ server' = "load" /\ job' = Job(o, name)
    /\ AwaitNext(file_storage, data_block_in_memory, Job(o, name))
    /\ UNCHANGED <<memVars, starts, linkVars>>

\* Mutants of Saved: basic sectors of the image.
SavedNoInodes   == BasicSectors \ {InodeTable}
SavedAllSectors == Sectors

SavedAtExit == BasicSectors

\* The client leaves.  If q was pressed the server saves and ends, else it accepts the next.
Exit ==
    /\ server = "idle" /\ client = "ready"
    /\ client' = "none"
    /\ \/ UNCHANGED <<server, job, update_sector>>
       \/ /\ server' = "save" /\ job' = Job("exit", "")
          /\ update_sector' = update_sector \cup SavedAtExit
    /\ UNCHANGED <<file_storage, cur_dir, inited, data_block_in_memory, file_in_memory, newer,
                   sector_idx, commands, starts, linkVars>>

----------------------------------------------------------------------------
(* Executing a command *)

DirBlock(i) == file_storage.inode[i].direct[0]

\* The blocks that a step takes or gives back.
Flipped == {b \in Blocks : file_storage'.data_bitmap[b] # file_storage.data_bitmap[b]}

Indirect(m, i) == {m.inode[i].indirect} \ {None}

\* What file_resize puts on the list: blocks taken or given back, and the index of a file
\* that shrinks.  An index that was there before and gets new entries is not put there.
file_resize_lists(m, i, size) ==
    LET after == file_resize(m, i, size).mem
    IN {b \in Blocks : after.data_bitmap[b] # m.data_bitmap[b]}
       \cup (IF size < get_file_size(m, i) THEN Indirect(m, i) ELSE {})

\* The sector of the k-th position of a file, and those that file_ptr_next lists on its way
\* there.
Position(m, i, k) == IF k < INODE_DIRECT_NUM THEN m.inode[i].direct[k]
                     ELSE Slots(m, i)[k - INODE_DIRECT_NUM]
Walked(m, i, k)   == {Position(m, i, p) : p \in 1..k}
                     \cup (IF k < INODE_DIRECT_NUM THEN {} ELSE Indirect(m, i))

\* The files and directories that the command works on.
Subjects == ToSet(Named(file_storage, cur_dir, job))

\* What the command will read without having asked for it, because a flag said so.
Looked ==
    {DirBlock(i) : i \in (IF job.op \in {"start", "f", "new", "cd /"} THEN {} ELSE {cur_dir})}
    \cup UNION {CASE job.op \in {"i", "d", "cat"} -> BlocksOf(file_storage, i)
                  [] job.op = "ls"                -> IF file_storage.inode[i].type = File
                                                     THEN BlocksOf(file_storage, i) ELSE {}
                  [] job.op = "cd"                -> {}
                  [] job.op = "rmdir"             -> {DirBlock(i)} \cup UNION {
                         Indirect(file_storage, j) : j \in ToSet(Locations(file_storage, i))}
                  [] OTHER                        -> Indirect(file_storage, i)
                : i \in Subjects}

Misled == \E b \in Looked : file_storage.sector[b] = Unread

Executing(o) == job.op = o /\ ~Misled

Flag(more) == file_in_memory' = file_in_memory \cup ToSet(Transferred(file_storage, cur_dir, job)) \cup more

\* The command is done: these sectors are listed, and the text of those is new in memory.
List(listed, text) == /\ update_sector' = update_sector \cup listed
                      /\ newer' = {b \in newer \cup text : file_storage'.data_bitmap[b]}

SaveUnreplied == server' = "save" /\ UNCHANGED <<client, job>>
ReplyAndSave  == server' = "save" /\ client' = "ready" /\ UNCHANGED job
ReplyOnly     == server' = "idle" /\ client' = "ready" /\ job' = NoJob

Rest == UNCHANGED <<sector_idx, commands, starts, linkVars>>
Same == UNCHANGED <<cur_dir, inited, data_block_in_memory>>

\* f: the sectors that hold nothing yet are sent as they are.
Format == /\ Executing("f")
          /\ file_storage' = AfterFormat /\ cur_dir' = 0 /\ inited' = TRUE
          /\ data_block_in_memory' = Sectors
          /\ Flag({0}) /\ List(Sectors, {}) /\ ReplyAndSave /\ Rest

\* Mutant of CreateLists: the directory is not put on the list.
CreateListsBlock == Flipped

\* What mk and mkdir put on the list.
CreateLists == {DirBlock(cur_dir)} \cup Flipped

\* mk and mkdir set a flag by the sector of the inode table and not by the inode.
Make == /\ \/ Executing("mk") /\ cmd_mk(job.name)
           \/ Executing("mkdir") /\ cmd_mkdir(job.name)
        /\ Flag({InodeSector}) /\ List(CreateLists, Flipped) /\ ReplyAndSave /\ Same /\ Rest

\* A refused mk or mkdir has listed the directory, and nothing empties the list.
MakeFails == /\ Executing("mk") \/ Executing("mkdir")
             /\ ~MayCreate(file_storage, job.name)
             /\ UNCHANGED file_storage
             /\ Flag({}) /\ List({DirBlock(cur_dir)}, {}) /\ ReplyOnly /\ Same /\ Rest

Unlink == /\ \/ Executing("rm") /\ cmd_rm(job.name)
             \/ Executing("rmdir") /\ cmd_rmdir(job.name)
          /\ Flag({})
          /\ List({DirBlock(cur_dir)} \cup Flipped, {}) /\ ReplyAndSave /\ Same /\ Rest

\* rm and rmdir list the directory before they look for the name.
NotFound == /\ job.op \in {"rm", "rmdir", "r", "d", "w", "i", "cat"} /\ Executing(job.op)
            /\ Subjects = {}
            /\ UNCHANGED file_storage
            /\ Flag({})
            /\ List(IF job.op \in {"rm", "rmdir"} THEN {DirBlock(cur_dir)} ELSE {}, {})
            /\ IF job.op = "r" THEN ReplyOnly ELSE ReplyAndSave
            /\ Same /\ Rest

\* cd of one name, or of "/" alone, which returns before the list is looked at.
EnterDirectory ==
    /\ \/ Executing("cd") /\ cmd_cd(FALSE, <<job.name>>) /\ ReplyAndSave
       \/ Executing("cd /") /\ cmd_cd(TRUE, <<>>) /\ ReplyOnly
    /\ Flag({}) /\ List({}, {})
    /\ UNCHANGED <<inited, data_block_in_memory>> /\ Rest

\* r, d, w, i and cat work on file i, the first entry of that name.

Size(i) == get_file_size(file_storage, i)

\* More blocks than a file has places for, with enough of them free: file_resize never ends.
Endless(i, size) == /\ size > Capacity
                    /\ \/ Cardinality(FreeBlocks(file_storage)) > size - Size(i)
                       \/ /\ Cardinality(FreeBlocks(file_storage)) = size - Size(i)
                          /\ file_storage.inode[i].indirect # None

\* r answers when the list is sent, and says nothing of a file that could not grow.
Resize(i) == /\ job.op = "r"
             /\ Flag({}) /\ Same /\ Rest
             /\ \E size \in 0..Capacity + 1 :
                   \/ /\ ~Endless(i, size)
                      /\ cmd_r(job.name, size)
                      /\ List(file_resize_lists(file_storage, i, size), Flipped)
                      /\ SaveUnreplied
                   \/ /\ Endless(i, size)
                      /\ server' = "spinning"
                      /\ UNCHANGED <<file_storage, update_sector, newer, job, client>>

\* make_file_ptr tests open_mode before it sets it: it may put the first sector on the list.
MaybeFirst(m, i) == {{}, {m.inode[i].direct[0]} \ {None}}

\* w: both steps of the resize list their blocks; without room for the text the file stays
\* empty and the client is told.
OverwriteFile(i) ==
    /\ job.op = "w"
    /\ \E size \in 0..INODE_DIRECT_NUM :
          LET emptied == file_resize(file_storage, i, 0).mem
              lists   == file_resize_lists(file_storage, i, 0)
                         \cup file_resize_lists(emptied, i, size)
          IN /\ WritesOwnSectors(job.name, size)
             /\ cmd_w(job.name, size)
             /\ \E first \in MaybeFirst(file_storage', i) :
                   List(lists \cup first, ToSet(Prefix(file_storage'.inode[i].direct)))
    /\ Flag({}) /\ ReplyAndSave /\ Same /\ Rest

\* i: text changes from position p on to position q.  At the end of the content the file is
\* walked once; within it several times over, and from the second time on open_mode is set.
Insert(i) ==
    /\ job.op = "i"
    /\ \E size \in 1..Capacity :
          LET grown == file_resize(file_storage, i, Max({Size(i), 1}))
              full  == file_resize(grown.mem, i, size)
          IN /\ cmd_i(job.name, size)
             /\ CASE ~grown.ok -> List({}, {}) /\ ReplyAndSave
                  [] grown.ok /\ ~full.ok ->
                        /\ \E first \in MaybeFirst(grown.mem, i) : List(Flipped \cup first, Flipped)
                        /\ SaveUnreplied
                  [] OTHER ->
                        /\ \E q \in 0..size - 1 : \E p \in 0..q :
                              /\ size > Max({Size(i), 1}) => q = size - 1
                              /\ \E first \in MaybeFirst(full.mem, i) :
                                    List(Flipped \cup Walked(full.mem, i, q) \cup first,
                                         Flipped \cup {Position(full.mem, i, k) : k \in p..q})
                        /\ ReplyAndSave
    /\ Flag({}) /\ Same /\ Rest

\* d of text that reaches to position q; behind the content d does nothing and does not answer.
Delete(i) ==
    /\ job.op = "d" /\ Size(i) > 0
    /\ \/ /\ UNCHANGED file_storage
          /\ \E first \in MaybeFirst(file_storage, i) : List(first, {})
          /\ SaveUnreplied
       \/ /\ \E q \in 0..Size(i) - 1 : \E size \in 0..q + 1 :
                /\ cmd_d(job.name, size)
                /\ List(file_resize_lists(file_storage, i, size)
                            \cup Walked(file_storage, i, q) \cup {Position(file_storage, i, 0)},
                        {Position(file_storage, i, k) : k \in 0..q})
          /\ ReplyAndSave
    /\ Flag({}) /\ Same /\ Rest

Show(i) == /\ job.op = "cat"
           /\ UNCHANGED file_storage
           /\ \E first \in MaybeFirst(file_storage, i) : List(first, {})
           /\ Flag({}) /\ ReplyAndSave /\ Same /\ Rest

Listed == {i \in Subjects : file_storage.inode[i].type = File}

\* ls leaves what it listed on the list.
ListDirectory ==
    /\ Executing("ls") /\ \A i \in Listed : get_file_size(file_storage, i) > 0
    /\ UNCHANGED file_storage
    /\ \/ List({}, {})
       \/ List({DirBlock(i) : i \in Listed}, {})
    /\ Flag({}) /\ ReplyOnly /\ Same /\ Rest

\* d of a file and ls of a directory follow the null pointer of a file without sectors.
NullPointer == /\ \/ Executing("d") /\ \E i \in Subjects : Size(i) = 0
                  \/ Executing("ls") /\ \E i \in Listed : get_file_size(file_storage, i) = 0
               /\ server' = "dead"
               /\ UNCHANGED <<memVars, job, client, sector_idx, commands, starts, linkVars>>

\* The command works on memory that holds nothing.
Mistaken == /\ job.op \notin {"start", "new"} /\ Misled
            /\ server' = "undefined"
            /\ UNCHANGED <<memVars, job, client, sector_idx, commands, starts, linkVars>>

----------------------------------------------------------------------------
(* Saving *)

\* One round of update_disk.
Save == LET s == Min(update_sector)
        IN /\ server = "save" /\ update_sector # {}
           /\ Link!SendWrite(s, Held(s))
           /\ update_sector' = update_sector \ {s}
           /\ newer' = newer \ {s}
           /\ UNCHANGED <<file_storage, cur_dir, inited, data_block_in_memory, file_in_memory, procVars>>

\* The list is sent: r answers now.
Saved == /\ server = "save" /\ update_sector = {} /\ job.op # "exit"
         /\ server' = "idle"
         /\ client' = IF job.op = "r" THEN "ready" ELSE client
         /\ job' = IF client' = "waiting" THEN job ELSE NoJob
         /\ UNCHANGED <<memVars, sector_idx, commands, starts, linkVars>>

Stop == /\ server = "save" /\ update_sector = {} /\ job.op = "exit"
        /\ Link!SendExit
        /\ server' = "stopped"
        /\ UNCHANGED <<memVars, job, client, sector_idx, commands, starts>>

\* A signal, or the reply to a client that is gone, ends the server at any point.
Killed == /\ server \notin {"stopped", "dead"}
          /\ server' = "dead"
          /\ \/ UNCHANGED linkVars
             \/ server = "save" /\ update_sector # {} /\ Link!CutWrite(Min(update_sector))
          /\ UNCHANGED <<memVars, job, client, sector_idx, commands, starts>>

----------------------------------------------------------------------------
Command == \/ Started \/ Format \/ Make \/ MakeFails \/ Unlink \/ NotFound \/ EnterDirectory
           \/ ListDirectory \/ NullPointer \/ Mistaken
           \/ /\ job.op \in {"r", "w", "i", "d", "cat"} /\ Executing(job.op)
              /\ \E i \in Subjects : Resize(i) \/ OverwriteFile(i) \/ Insert(i) \/ Delete(i) \/ Show(i)

\* What the command needs is there, or believed to be there.
Execute == server = "load" /\ sector_idx = 0 /\ Command

ServerStep == Fetch \/ Fetched \/ Execute \/ Save \/ Saved \/ Stop

DiskServes == Link!DiskStep /\ UNCHANGED <<memVars, procVars>>

DiskSpins == server = "dead" /\ Link!DiskSpins /\ UNCHANGED <<memVars, procVars>>

Commands == {"mk", "mkdir", "rm", "rmdir", "cd", "r", "d", "w", "i", "cat"}

ClientStep == \/ Accept \/ Exit
              \/ Ask("f", "") \/ Ask("ls", "") \/ Ask("cd /", "") \/ Ask("cd", "..")
              \/ \E o \in Commands, name \in Names : Ask(o, name)

ServerNext == Start \/ ClientStep \/ ServerStep \/ DiskServes \/ DiskSpins \/ Killed

ServerSpec == ServerInit /\ [][ServerNext]_serverVars

\* Both servers run on until they block; nobody has to start them, or to type a command.
FairSpec == ServerSpec /\ WF_serverVars(ServerStep) /\ WF_serverVars(DiskServes)

----------------------------------------------------------------------------
(* Properties *)

\* The file system reads and writes through the socket as if the disk were an array: a read
\* that overtakes no write, and an answer to every read.
ImplementsSectorArray == Link!Array!Spec

\* Between two commands all that memory has and the disk will not have is the text of a
\* file's first sector, or an index block.
OnlyFirstOrIndexUnsaved ==
    server = "idle" /\ inited =>
        \A b \in Referenced(file_storage) :
            \/ file_storage.sector[b] \in {Unread, Link!Settled(b)} /\ b \notin newer
            \/ \E i \in LiveFiles(file_storage) : b \in {DirBlock(i), file_storage.inode[i].indirect}

\* What file_in_memory says of an inode is true, but for the one number that mk and mkdir set.
MisledOnlyByMake ==
    inited => \A i \in (file_in_memory \cap LiveInodes(file_storage)) \ {InodeSector} :
                  \A b \in BlocksOf(file_storage, i) : file_storage.sector[b] # Unread

\* The sectors that are asked for or on the list exist.
RequestsInRange == sector_idx \in {0} \cup Sectors /\ update_sector \subseteq Sectors

\* No sector of a file or directory is ever sent that the server does not hold, and no request
\* is out of range, which neither side looks at.
SendsOnlyWhatItHolds ==
    /\ RequestsInRange
    /\ server = "save" /\ inited => \A s \in update_sector \cap Referenced(file_storage) : Held(s) # Unread

DiskImage == [inode_bitmap |-> store[InodeBitmap].bit, data_bitmap |-> store[DataBitmap].bit,
              inode |-> store[InodeTable].inode, sector |-> [b \in Blocks |-> store[b]]]

\* After a clean end the disk holds a sound file system, although index blocks on it may be
\* old: no block has two owners or is marked free, and the directories form a tree.
CleanExitLeavesSoundDisk ==
    server = "stopped" /\ disk = "stopped" /\ store[InodeBitmap].kind = "inode_bitmap" =>
        /\ \A s \in {DataBitmap, InodeTable} : store[s].kind = Contents(Blank, s).kind
        /\ \A i \in LiveDirs(DiskImage) : DiskImage.inode[i].direct[0] # None
        /\ OwnersDiffer(DiskImage) /\ OwnedAreMarked(DiskImage) /\ FilledFromLeft(DiskImage)
        /\ MakesTree(DiskImage) /\ DotsLead(DiskImage)

\* Every command is answered, unless the server ends, never ends, or is misled, or the command
\* is an i that finds no space or a d behind the end of the content.
CommandsAnswered ==
    client = "waiting" ~> \/ client # "waiting"
                          \/ server \in {"dead", "spinning", "undefined"}
                          \/ server = "idle" /\ job.op \in {"i", "d"}
=============================================================================
