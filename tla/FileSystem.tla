----------------------------- MODULE FileSystem -----------------------------
(***************************************************************************)
(* The file system of Step3/fs.c in memory: the two bitmaps, the inodes    *)
(* and the sectors of file_storage, and the current directory.  The server *)
(* handles one command at a time, so each command is one action.           *)
(*                                                                         *)
(* A command is a function from an image of file_storage to the next one;  *)
(* the helpers have the names of the C functions they stand for.           *)
(*                                                                         *)
(* Sizes are counted in sectors.  A sector is a directory, an index block  *)
(* or data; what data says is left out, so how far d and i resize a file   *)
(* is an input.  A directory is the sequence of its live entries: an array *)
(* element behind child_num may hold anything (see DeleteStep).            *)
(***************************************************************************)
EXTENDS Integers, FiniteSets, SequencesExt, Graphs

CONSTANTS Names,             \* names a command may give to a file or directory
          INODE_NUM,         \* 32 in the program
          LAST_BLOCK,        \* the last sector of the disk
          INODE_DIRECT_NUM,  \* 4 in the program
          INDEX_NUM,         \* slots of an index block, 64 in the program
          MAX_CHILD_NUM      \* entries of a directory block, 20 in the program

RootBlock == 7     \* sectors 0 to 6 hold the metadata and are never handed out

\* mk and mkdir find "." and ".." in every directory but the root's ".."; an orderly client
\* names nothing so.
ASSUME FileSystemAssumption ==
    /\ {INODE_NUM, INODE_DIRECT_NUM, INDEX_NUM, MAX_CHILD_NUM} \subseteq Nat \ {0}
    /\ LAST_BLOCK \in Nat /\ LAST_BLOCK >= RootBlock
    /\ Names \cap {".", ".."} = {}

Inodes == 0..INODE_NUM - 1
Blocks == RootBlock..LAST_BLOCK
None   == -1

NoDirect == [j \in 0..INODE_DIRECT_NUM - 1 |-> None]
NoSlots  == [j \in 0..INDEX_NUM - 1 |-> None]

Data       == [kind |-> "data"]
Index(s)   == [kind |-> "index", slot |-> s]
Dir(child) == [kind |-> "dir", child |-> child]
Unread     == [kind |-> "unread"]   \* memory that was never written (FileServer)

File      == 0
Directory == 1

VARIABLES file_storage, cur_dir

vars == <<file_storage, cur_dir>>

\* What f writes: inode 0 is the root directory, and its only entry is ".".
Formatted ==
    [inode_bitmap |-> [i \in Inodes |-> i = 0],
     data_bitmap  |-> [b \in Blocks |-> b = RootBlock],
     inode  |-> [i \in Inodes |->
                   [type     |-> Directory,
                    direct   |-> IF i = 0 THEN [NoDirect EXCEPT ![0] = RootBlock] ELSE NoDirect,
                    indirect |-> None]],
     sector |-> [b \in Blocks |->
                   IF b = RootBlock THEN Dir(<<[name |-> ".", loc |-> 0]>>) ELSE Data]]

Init == file_storage = Formatted /\ cur_dir = 0

----------------------------------------------------------------------------
(* Reading an image m *)

\* get_dir_data_block.  Read as a directory, a cleared sector has no entries.
Children(m, d) == LET s == m.sector[m.inode[d].direct[0]]
                  IN IF s.kind = "dir" THEN s.child ELSE <<>>

\* The position of the entry of that type and name, 0 if there is none.
EntryOf(m, d, type, name) ==
    SelectInSeq(Children(m, d), LAMBDA e : e.name = name /\ m.inode[e.loc].type = type)

HasName(m, d, name) == \E e \in ToSet(Children(m, d)) : e.name = name

Slots(m, i) == IF m.inode[i].indirect = None THEN NoSlots
               ELSE LET s == m.sector[m.inode[i].indirect]
                    IN IF s.kind = "index" THEN s.slot ELSE NoSlots

Used(s) == {j \in DOMAIN s : s[j] # None}

get_file_size(m, i) == Cardinality(Used(m.inode[i].direct)) + Cardinality(Used(Slots(m, i)))

FreeInodes(m) == {i \in Inodes : ~m.inode_bitmap[i]}

FreeBlocks(m) == {b \in Blocks : ~m.data_bitmap[b]}

\* bitmap_check: the first n free positions, found by walking over all of them.
FirstFit(free, n) == [r \in 1..n |-> CHOOSE x \in free : Cardinality({y \in free : y <= x}) = r]

----------------------------------------------------------------------------
(* file_resize *)

Marked(f, S, v) == [x \in DOMAIN f |-> IF x \in S THEN v ELSE f[x]]

\* The empty slots, lowest first, take the blocks of q.
FillHoles(s, q) ==
    LET Rank(j) == Cardinality({h \in 0..j : s[h] = None})
    IN [j \in DOMAIN s |-> IF s[j] = None /\ Rank(j) <= Len(q) THEN q[Rank(j)] ELSE s[j]]

\* Mutant of DropTop: the lowest used slots give up their blocks.
DropBottom(s, n) ==
    [j \in DOMAIN s |-> IF Cardinality({h \in Used(s) : h <= j}) <= n THEN None ELSE s[j]]

\* The used slots, highest first, give up n blocks.
DropTop(s, n) ==
    [j \in DOMAIN s |-> IF Cardinality({h \in Used(s) : h >= j}) <= n THEN None ELSE s[j]]

\* Mutant of ExpandIndex: the index block is not marked in the bitmap.
ExpandIndexUnmarked(m, i, q) ==
    LET old == m.inode[i].indirect
        x   == IF old = None THEN FirstFit(FreeBlocks(m), 1)[1] ELSE old
    IN IF old = None /\ FreeBlocks(m) = {}
       THEN [ok |-> FALSE, mem |-> m]
       ELSE [ok |-> TRUE,
             mem |-> [m EXCEPT !.inode[i].indirect = x,
                               !.sector = [Marked(@, ToSet(q), Data) EXCEPT
                                              ![x] = Index(FillHoles(Slots(m, i), q))]]]

\* The blocks q, already marked, go into the index block, which may have to be found
\* first; if there is no room for it, they stay marked.
ExpandIndex(m, i, q) ==
    LET old == m.inode[i].indirect
        x   == IF old = None THEN FirstFit(FreeBlocks(m), 1)[1] ELSE old
    IN IF old = None /\ FreeBlocks(m) = {}
       THEN [ok |-> FALSE, mem |-> m]
       ELSE [ok |-> TRUE,
             mem |-> [m EXCEPT !.data_bitmap[x] = TRUE,
                               !.inode[i].indirect = x,
                               !.sector = [Marked(@, ToSet(q), Data) EXCEPT
                                              ![x] = Index(FillHoles(Slots(m, i), q))]]]

Expand(m, i, n) ==
    LET q      == FirstFit(FreeBlocks(m), n)
        holes  == INODE_DIRECT_NUM - Cardinality(Used(m.inode[i].direct))
        direct == SubSeq(q, 1, Min({n, holes}))
        taken  == [m EXCEPT !.data_bitmap = Marked(@, ToSet(q), TRUE),
                            !.inode[i].direct = FillHoles(@, direct),
                            !.sector = Marked(@, ToSet(direct), Data)]
    IN IF Cardinality(FreeBlocks(m)) < n THEN [ok |-> FALSE, mem |-> m]
       ELSE IF n <= holes THEN [ok |-> TRUE, mem |-> taken]
       ELSE ExpandIndex(taken, i, SubSeq(q, holes + 1, n))

\* The index block itself goes only if its slots are not enough.
IndexGoes(m, i, n) == m.inode[i].indirect # None /\ n > Cardinality(Used(Slots(m, i)))

\* What a file that gives up n blocks is left with.
SlotsLeft(m, i, n)  == DropTop(Slots(m, i), Min({n, Cardinality(Used(Slots(m, i)))}))
DirectLeft(m, i, n) == DropTop(m.inode[i].direct, Max({0, n - Cardinality(Used(Slots(m, i)))}))

\* Mutant of Released: the bit of the index block is not cleared.
ReleasedData(m, i, n) == (Range(Slots(m, i)) \ Range(SlotsLeft(m, i, n)))
                         \cup (Range(m.inode[i].direct) \ Range(DirectLeft(m, i, n)))

\* Mutant of Released: the bit of the index block is always cleared.
ReleasedAll(m, i, n) == ReleasedData(m, i, n) \cup ({m.inode[i].indirect} \ {None})

Released(m, i, n) == (Range(Slots(m, i)) \ Range(SlotsLeft(m, i, n)))
                     \cup (Range(m.inode[i].direct) \ Range(DirectLeft(m, i, n)))
                     \cup (IF IndexGoes(m, i, n) THEN {m.inode[i].indirect} ELSE {})

Shrink(m, i, n) ==
    [m EXCEPT !.data_bitmap = Marked(@, Released(m, i, n), FALSE),
              !.inode[i].direct = DirectLeft(m, i, n),
              !.inode[i].indirect = IF IndexGoes(m, i, n) THEN None ELSE @,
              !.sector = IF m.inode[i].indirect = None THEN @
                         ELSE [@ EXCEPT ![m.inode[i].indirect] = Index(SlotsLeft(m, i, n))]]

\* A target beyond Capacity makes the last loop of file_resize spin for ever.
Capacity == INODE_DIRECT_NUM + INDEX_NUM

file_resize(m, i, size) ==
    LET now == get_file_size(m, i)
    IN CASE now < size -> Expand(m, i, size - now)
         [] now > size -> [ok |-> TRUE, mem |-> Shrink(m, i, now - size)]
         [] OTHER      -> [ok |-> TRUE, mem |-> m]

----------------------------------------------------------------------------
(* file_delete and dir_delete *)

RemoveEntry(m, d, k) == [m EXCEPT !.sector[m.inode[d].direct[0]] = Dir(RemoveAt(Children(m, d), k))]

\* file_delete for the file in entry k of directory d.
file_delete(m, d, k) ==
    LET i == Children(m, d)[k].loc
    IN RemoveEntry([file_resize(m, i, 0).mem EXCEPT !.inode_bitmap[i] = FALSE], d, k)

\* dir_delete calls itself for the subdirectories of what it deletes: calls are the entries
\* whose directories are being deleted, the innermost last.  After a call has returned, the
\* caller clears the inode bit found in its own directory at the position that this
\* directory has in the one above; behind the live entries there stands some stale number.
DeleteStep(c, stale) ==
    LET call  == Last(c.calls)
        above == Front(c.calls)
        i     == Children(c.mem, call.dir)[call.pos].loc
        child == Children(c.mem, i)
        j     == SelectInSeq(child, LAMBDA e : e.name \notin {".", ".."})
        gone  == RemoveEntry([c.mem EXCEPT !.inode_bitmap[i] = FALSE,
                                           !.data_bitmap[c.mem.inode[i].direct[0]] = FALSE],
                             call.dir, call.pos)
        left  == Children(gone, call.dir)
        k     == Last(above).pos
        x     == IF k <= Len(left) THEN left[k].loc ELSE stale
    IN IF j # 0
       THEN IF c.mem.inode[child[j].loc].type = File
            THEN [c EXCEPT !.mem = file_delete(c.mem, i, j)]
            ELSE [c EXCEPT !.calls = Append(c.calls, [dir |-> i, pos |-> j])]
       ELSE [mem   |-> IF above = <<>> THEN gone ELSE [gone EXCEPT !.inode_bitmap[x] = FALSE],
             calls |-> above]

\* Bound: more steps than a tree of so many inodes takes.
DeleteSteps == 2 * INODE_NUM

\* dir_delete for the directory in entry k of directory d.
dir_delete(m, d, k, stale) ==
    LET after[n \in 0..DeleteSteps] ==
            IF n = 0 THEN [mem |-> m, calls |-> <<[dir |-> d, pos |-> k]>>]
            ELSE LET c == after[n - 1] IN IF c.calls = <<>> THEN c ELSE DeleteStep(c, stale)
    IN after[DeleteSteps].mem

----------------------------------------------------------------------------
(* The commands that change the image or the current directory *)

\* Mutant of MayCreate: the name is not looked up.
MayCreateTwice(m, name) == /\ FreeInodes(m) # {} /\ FreeBlocks(m) # {}
                           /\ Len(Children(m, cur_dir)) < MAX_CHILD_NUM

MayCreate(m, name) == /\ ~HasName(m, cur_dir, name)
                      /\ FreeInodes(m) # {} /\ FreeBlocks(m) # {}
                      /\ Len(Children(m, cur_dir)) < MAX_CHILD_NUM

\* What mk and mkdir have in common; of the inode they set the type and direct[0] alone.
Create(m, name, type, i, content) ==
    LET b == FirstFit(FreeBlocks(m), 1)[1]
        d == m.inode[cur_dir].direct[0]
    IN [m EXCEPT !.inode_bitmap[i] = TRUE,
                 !.data_bitmap[b] = TRUE,
                 !.inode[i].type = type,
                 !.inode[i].direct[0] = b,
                 !.sector = [@ EXCEPT ![d] = Dir(Append(Children(m, cur_dir), [name |-> name, loc |-> i])),
                                      ![b] = content]]

cmd_mk(name) ==
    LET i == FirstFit(FreeInodes(file_storage), 1)[1]
    IN /\ MayCreate(file_storage, name)
       /\ file_storage' = Create(file_storage, name, File, i, Data)
       /\ UNCHANGED cur_dir

\* Mutant of cmd_mkdir: ".." of the new directory is the root.
cmd_mkdir_under_root(name) ==
    LET i == FirstFit(FreeInodes(file_storage), 1)[1]
    IN /\ MayCreate(file_storage, name)
       /\ file_storage' = Create(file_storage, name, Directory, i,
                                 Dir(<<[name |-> ".", loc |-> i], [name |-> "..", loc |-> 0]>>))
       /\ UNCHANGED cur_dir

cmd_mkdir(name) ==
    LET i == FirstFit(FreeInodes(file_storage), 1)[1]
    IN /\ MayCreate(file_storage, name)
       /\ file_storage' = Create(file_storage, name, Directory, i,
                                 Dir(<<[name |-> ".", loc |-> i], [name |-> "..", loc |-> cur_dir]>>))
       /\ UNCHANGED cur_dir

cmd_rm(name) ==
    LET k == EntryOf(file_storage, cur_dir, File, name)
    IN /\ k # 0
       /\ file_storage' = file_delete(file_storage, cur_dir, k)
       /\ UNCHANGED cur_dir

cmd_rmdir(name) ==
    LET k == EntryOf(file_storage, cur_dir, Directory, name)
    IN /\ k # 0
       /\ \E stale \in Inodes : file_storage' = dir_delete(file_storage, cur_dir, k, stale)
       /\ UNCHANGED cur_dir

\* Mutant of Enter: cd does not look at the type of the entry.
EnterAnything(d, name) ==
    LET k == SelectInSeq(Children(file_storage, d), LAMBDA e : e.name = name)
    IN IF k = 0 THEN d ELSE Children(file_storage, d)[k].loc

Enter(d, name) == LET k == EntryOf(file_storage, d, Directory, name)
                  IN IF k = 0 THEN d ELSE Children(file_storage, d)[k].loc

\* A component that is not there is passed over, also when cd then answers "not found".
cmd_cd(absolute, path) ==
    LET at[n \in 0..Len(path)] == IF n = 0 THEN IF absolute THEN 0 ELSE cur_dir
                                  ELSE Enter(at[n - 1], path[n])
    IN /\ cur_dir' = at[Len(path)]
       /\ UNCHANGED file_storage

\* Whatever has that name is resized, and a failure is not reported.
cmd_r(name, size) ==
    /\ \E e \in ToSet(Children(file_storage, cur_dir)) :
          /\ e.name = name
          /\ file_storage' = file_resize(file_storage, e.loc, size).mem
    /\ UNCHANGED cur_dir

\* The file that d, w and i work on.
Target(name) == {e.loc : e \in {x \in ToSet(Children(file_storage, cur_dir)) :
                                   x.name = name /\ file_storage.inode[x.loc].type = File}}

\* d leaves the file as many sectors as its content still needs.  Without a sector to read,
\* get_content_size follows a null pointer.
cmd_d(name, size) ==
    /\ \E i \in Target(name) : /\ get_file_size(file_storage, i) \in 1..Capacity
                               /\ size <= get_file_size(file_storage, i)
                               /\ file_storage' = file_resize(file_storage, i, size).mem
    /\ UNCHANGED cur_dir

\* w empties the file and writes size sectors of text, one after the other in memory from
\* the file's first sector on, whatever sectors the file got.
Overwrite(m, i, size) ==
    LET resized == file_resize(file_resize(m, i, 0).mem, i, size)
        start   == resized.mem.inode[i].direct[0]
    IN IF resized.ok /\ size > 0
       THEN [resized.mem EXCEPT !.sector = Marked(@, start..start + size - 1, Data)]
       ELSE resized.mem

cmd_w(name, size) ==
    /\ \E i \in Target(name) : file_storage' = Overwrite(file_storage, i, size)
    /\ UNCHANGED cur_dir

\* An empty file gets a sector first; then the file grows if the content asks for it.
cmd_i(name, size) ==
    /\ \E f \in Target(name) :
          LET now == get_file_size(file_storage, f)
              one == file_resize(file_storage, f, Max({now, 1}))
          IN /\ size \in Max({now, 1})..(now + INODE_DIRECT_NUM) /\ size <= Capacity
             /\ file_storage' = IF one.ok THEN file_resize(one.mem, f, size).mem ELSE one.mem
    /\ UNCHANGED cur_dir

----------------------------------------------------------------------------
(* The commands a client may send.  Some commands damage the image at once:                *)
(* r also resizes a directory, rmdir also takes "." and ".." and frees the inode of "..",  *)
(* and w writes over whatever lies behind the file's first sector.  An orderly client      *)
(* stays away from them; the other clients do not.                                         *)

\* One line of a client is short: w writes at most as many sectors as a file has directs.
Sizes     == 0..Capacity
TextSizes == 0..INODE_DIRECT_NUM

Paths == {<<>>} \cup {<<n>> : n \in Names \cup {"..", "."}}
               \cup {<<n, p>> : n \in Names \cup {".."}, p \in Names \cup {".."}}

HoldsNoDirectory(dir) ==
    \A e \in ToSet(Children(file_storage, dir)) :
        e.name \in {".", ".."} \/ file_storage.inode[e.loc].type = File

\* The sectors w would write are the file's own.
WritesOwnSectors(name, size) ==
    \A f \in Target(name) :
        LET m == file_resize(file_resize(file_storage, f, 0).mem, f, size).mem
        IN \A j \in Used(m.inode[f].direct) : m.inode[f].direct[j] = m.inode[f].direct[0] + j

AnyCommand(name) ==
    \/ cmd_mk(name) \/ cmd_mkdir(name) \/ cmd_rm(name)
    \/ \E size \in Sizes : \/ Target(name) # {} /\ cmd_r(name, size)
                           \/ cmd_d(name, size)
                           \/ cmd_i(name, size)

ChangeDirectory == \E path \in Paths, absolute \in BOOLEAN : cmd_cd(absolute, path)

OrderlyRmdir(name) ==
    /\ \A e \in ToSet(Children(file_storage, cur_dir)) :
           e.name = name /\ file_storage.inode[e.loc].type = Directory => HoldsNoDirectory(e.loc)
    /\ cmd_rmdir(name)

OrderlyWrite(name) == \E size \in TextSizes : WritesOwnSectors(name, size) /\ cmd_w(name, size)

AnyWrite(name) == \E size \in TextSizes : cmd_w(name, size)

Next == \/ \E name \in Names : AnyCommand(name) \/ OrderlyRmdir(name) \/ OrderlyWrite(name)
        \/ ChangeDirectory

Spec == Init /\ [][Next]_vars

\* A client that also removes directories with subdirectories.
SpecRmdir == Init /\ [][Next \/ \E name \in Names : cmd_rmdir(name)]_vars

\* A client that also writes texts of several sectors, wherever these lie.
SpecWrite == Init /\ [][Next \/ \E name \in Names : AnyWrite(name)]_vars

----------------------------------------------------------------------------
(* Properties.  Those of the image are stated for any image m. *)

LiveInodes(m) == {j \in Inodes : m.inode_bitmap[j]}
LiveFiles(m)  == {j \in LiveInodes(m) : m.inode[j].type = File}
LiveDirs(m)   == LiveInodes(m) \ LiveFiles(m)

\* Every place that holds a block number of inode j, with the number it holds.
References(m, j) ==
    {<<"direct", k, m.inode[j].direct[k]>> : k \in Used(m.inode[j].direct)}
    \cup {<<"slot", k, Slots(m, j)[k]>> : k \in Used(Slots(m, j))}
    \cup (IF m.inode[j].indirect = None THEN {} ELSE {<<"indirect", 0, m.inode[j].indirect>>})

BlocksOf(m, j) == {x[3] : x \in References(m, j)}

Referenced(m) == UNION {BlocksOf(m, j) : j \in LiveInodes(m)}

OwnersDiffer(m) ==
    \A j \in LiveInodes(m) : /\ \A x, y \in References(m, j) : x[3] = y[3] => x = y
                             /\ \A l \in LiveInodes(m) \ {j} : BlocksOf(m, j) \cap BlocksOf(m, l) = {}

OwnedAreMarked(m) == \A b \in Referenced(m) : m.data_bitmap[b]

FilledFromLeft(m) ==
    \A j \in LiveFiles(m) :
        /\ \A k \in Used(m.inode[j].direct) : 0..k \subseteq Used(m.inode[j].direct)
        /\ \A k \in Used(Slots(m, j)) : 0..k \subseteq Used(Slots(m, j))
        /\ m.inode[j].indirect # None => /\ Used(m.inode[j].direct) = DOMAIN NoDirect
                                         /\ m.sector[m.inode[j].indirect].kind = "index"

Tree(m) == [node |-> LiveInodes(m),
            edge |-> UNION {{<<e.loc, j>> : e \in {x \in ToSet(Children(m, j)) : x.name \notin {".", ".."}}}
                            : j \in LiveDirs(m)}]

\* No entry leads to a freed inode, none has two names, and from every inode the way up ends
\* at the root (no set of other inodes keeps it to itself).
MakesTree(m) ==
    /\ IsDirectedGraph(Tree(m))
    /\ 0 \in LiveInodes(m)
    /\ \A S \in SUBSET (LiveInodes(m) \ {0}) :
           S # {} => \E x \in Tree(m).edge : x[1] \in S /\ x[2] \notin S
    /\ \A x, y \in Tree(m).edge : x[1] = y[1] => x = y
    /\ \A j \in LiveDirs(m) : \A k, l \in 1..Len(Children(m, j)) :
           \/ Children(m, j)[k].name = Children(m, j)[l].name
           \/ Children(m, j)[k].loc = Children(m, j)[l].loc
           => k = l

DotsLead(m) ==
    \A j \in LiveDirs(m) : /\ Children(m, j) # <<>>
                           /\ Children(m, j)[1] = [name |-> ".", loc |-> j]
                           /\ j # 0 => /\ Len(Children(m, j)) >= 2
                                       /\ Children(m, j)[2].name = ".."
                                       /\ <<j, Children(m, j)[2].loc>> \in Tree(m).edge

\* However files grow, shrink and disappear, no block is used twice: not by two inodes, and
\* not in two places of one inode.
NoBlockShared == OwnersDiffer(file_storage)

\* No block in use is marked free: the next file_resize or mk would hand it out again.
UsedBlocksMarked == OwnedAreMarked(file_storage)

\* What file_ptr_next and transfer rely on, which stop at the first empty place: directs and
\* slots are filled from the left, and there is an index block only behind full directs.
BlocksAreDense == FilledFromLeft(file_storage)

\* The entries of the directories form a tree over exactly the inodes marked in use, so none
\* stays marked that no path reaches.
NamespaceIsTree == MakesTree(file_storage)

\* "." and ".." of every directory lead to itself and to the directory that lists it, so
\* that cd never leaves the tree.
DirectoriesIntact == DotsLead(file_storage)

\* The current directory is never one that has been deleted, nor a file.
StandsInDirectory == cur_dir \in LiveDirs(file_storage)

Leaked == {b \in Blocks : file_storage.data_bitmap[b]} \ Referenced(file_storage)

\* Blocks get lost, marked and in no file, in one way only: a file_resize that takes the
\* last free blocks and then finds none for the index block.
LeaksOnlyWhenFull == [][Leaked' \subseteq Leaked \/ FreeBlocks(file_storage)' = {}]_vars
=============================================================================
