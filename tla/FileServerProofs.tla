-------------------------- MODULE FileServerProofs --------------------------
(***************************************************************************)
(* Proofs about FileServer for every number of inodes, sectors, directs    *)
(* and slots, every size of the socket, and any number of commands and     *)
(* starts.                                                                 *)
(*                                                                         *)
(* Memory and disk.  Complete(m, z) is the image m in memory with what the *)
(* disk z has where nothing was read, and z is Final, what the disk will   *)
(* hold once it has served all requests.  Tracks says that this image is   *)
(* sound, that the flags tell the truth about what is in memory, and that  *)
(* memory and disk differ only in sectors still to be sent, first sectors  *)
(* of files and index blocks that have grown.  Each command is followed    *)
(* through the image it leaves, the sectors it lists (Carried, Served);    *)
(* sending a sector or reading one keeps Tracks (SaveTracks, FetchTracks), *)
(* and MemoryInv adds the start, the first format and the exit.            *)
(*                                                                         *)
(* The socket.  LinkInv says that a read is the last request under way;    *)
(* with it each step of DiskLink is one of SectorArray or leaves it alone, *)
(* and MemoryInv gives that the sectors asked for and listed exist.        *)
(***************************************************************************)
EXTENDS FileServer, FileSystemProofs

----------------------------------------------------------------------------
(* What file_resize keeps, step by step *)

(* A file that gives up blocks keeps the others; its index block is written. *)
LEMMA ShrinkStays ==
    ASSUME NEW m \in Image, NEW i \in Inodes, HoldsOnce(m, i), DenseFile(m, i), NEW n \in Nat
    PROVE  Stays(m, Shrink(m, i, n), i, Indirect(m, i))
<1> DEFINE new == Shrink(m, i, n)
           old == m.inode[i].indirect
           left == SlotsLeft(m, i, n)
<1>1. /\ new \in Image
      /\ new.inode[i].direct = DirectLeft(m, i, n)
      /\ new.inode[i].indirect = IF IndexGoes(m, i, n) THEN None ELSE old
  BY ShrinkResizes DEF Resized
<1>2. Cardinality(Used(Slots(m, i))) \in Nat
  BY SizeTyped
<1>3. /\ m.inode[i].direct \in [0..INODE_DIRECT_NUM - 1 -> Slot] /\ Slots(m, i) \in [0..INDEX_NUM - 1 -> Slot]
      /\ INODE_DIRECT_NUM \in Nat /\ INDEX_NUM \in Nat /\ m.sector \in [Blocks -> Sector] /\ None \notin Blocks
      /\ old \in Slot
  BY ImageTyped, ConstantsTyped
<1>4. \A k \in 0..INODE_DIRECT_NUM - 1 : new.inode[i].direct[k] \in {m.inode[i].direct[k], None}
  <2> DEFINE y == n - Cardinality(Used(Slots(m, i)))
             c == Max({0, y})
  <2>0. y \in Int
    BY <1>2
  <2>1. c \in Nat
    <3> HIDE DEF y
    <3>1. c = IF 0 <= y THEN y ELSE 0
      BY <2>0, MinMaxOfTwo
    <3> HIDE DEF c
    <3> QED BY <2>0, <3>1
  <2> HIDE DEF c
  <2>2. Emptied(INODE_DIRECT_NUM, m.inode[i].direct, DropTop(m.inode[i].direct, c))
    BY <1>3, <2>1, DropTopProperties
  <2> QED BY <1>1, <2>2 DEF Emptied, DirectLeft, c
<1>5. left \in [0..INDEX_NUM - 1 -> Slot] /\ \A k \in 0..INDEX_NUM - 1 : left[k] \in {Slots(m, i)[k], None}
  <2> DEFINE c == Min({n, Cardinality(Used(Slots(m, i)))})
  <2>1. c \in Nat
    BY <1>2, MinMaxOfTwo
  <2> HIDE DEF c
  <2>2. Emptied(INDEX_NUM, Slots(m, i), DropTop(Slots(m, i), c))
    BY <1>3, <2>1, DropTopProperties
  <2> QED BY <2>2 DEF Emptied, SlotsLeft, c
<1>6. /\ old # None => new.sector[old] = Index(left)
      /\ \A b \in Blocks \ {old} : new.sector[b] = m.sector[b]
  <2>1. new.sector = IF old = None THEN m.sector ELSE [m.sector EXCEPT ![old] = Index(left)]
    BY DEF Shrink, Image
  <2> HIDE DEF new, left
  <2> QED BY <1>3, <2>1 DEF Slot
<1>7. \A k \in 0..INDEX_NUM - 1 : Slots(new, i)[k] \in {Slots(m, i)[k], None}
  <2>1. CASE new.inode[i].indirect = None
    <3>1. Slots(new, i) = NoSlots
      BY <2>1 DEF Slots
    <3> QED BY <3>1 DEF NoSlots
  <2>2. CASE new.inode[i].indirect # None
    <3>1. new.inode[i].indirect = old /\ new.sector[old] = Index(left) /\ old # None
      BY <1>1, <1>6, <2>2
    <3> HIDE DEF new, old, left
    <3>2. Slots(new, i) = left
      BY <3>1, SlotsOfIndex
    <3> QED BY <1>5, <3>2
  <2> QED BY <2>1, <2>2
<1> HIDE DEF new, left
<1>8. ASSUME NEW p \in Places, At(new, i, p) # None
      PROVE  KeepsAt(m, new, i, p) \/ TakesAt(new, i, p, Indirect(m, i))
  <2>1. CASE \E k \in 0..INODE_DIRECT_NUM - 1 : p = <<"direct", k>>
    <3>1. PICK k \in 0..INODE_DIRECT_NUM - 1 : p = <<"direct", k>>
      BY <2>1
    <3>2. At(m, i, p) = m.inode[i].direct[k] /\ At(new, i, p) = new.inode[i].direct[k]
      BY <3>1, AtDirect
    <3>3. At(new, i, p) = At(m, i, p) /\ At(m, i, p) \in Blocks \ {old}
      BY <1>4, <1>8, <3>2, HeldPlaces
    <3> QED BY <1>6, <3>3 DEF KeepsAt
  <2>2. CASE \E k \in 0..INDEX_NUM - 1 : p = <<"slot", k>>
    <3>1. PICK k \in 0..INDEX_NUM - 1 : p = <<"slot", k>>
      BY <2>2
    <3>2. At(m, i, p) = Slots(m, i)[k] /\ At(new, i, p) = Slots(new, i)[k]
      BY <3>1, AtSlot
    <3>3. At(new, i, p) = At(m, i, p) /\ At(m, i, p) \in Blocks \ {old}
      BY <1>7, <1>8, <3>2, HeldPlaces
    <3> QED BY <1>6, <3>3 DEF KeepsAt
  <2>3. CASE p = <<"indirect", 0>>
    <3>1. At(new, i, p) = old /\ old # None
      BY <1>1, <1>8, <2>3, AtIndirect
    <3>2. new.sector[old] # Unread /\ old \in Indirect(m, i)
      BY <1>6, <3>1, Kinds DEF Indirect
    <3> QED BY <3>1, <3>2 DEF TakesAt, InMemory
  <2> QED BY <2>1, <2>2, <2>3, PlacesByKind
<1> QED BY <1>8 DEF Stays, new

(* file_resize puts on the list whatever it writes. *)
LEMMA FileResizeStays ==
    ASSUME NEW m \in Image, NEW i \in Inodes, HoldsOnce(m, i), DenseFile(m, i), NEW size \in Nat
    PROVE  /\ Stays(m, file_resize(m, i, size).mem, i, file_resize_lists(m, i, size))
           /\ size >= get_file_size(m, i)
                => /\ Stays(m, file_resize(m, i, size).mem, i, Switched(m, file_resize(m, i, size).mem))
                   /\ \A b \in Blocks : m.data_bitmap[b] => file_resize(m, i, size).mem.data_bitmap[b]
<1> DEFINE now == get_file_size(m, i)
           new == file_resize(m, i, size).mem
<1>1. now \in Nat
  BY SizeTyped
<1> HIDE DEF now
<1>2. file_resize_lists(m, i, size) = Switched(m, new) \cup (IF size < now THEN Indirect(m, i) ELSE {})
  BY DEF file_resize_lists, Switched, now
<1>3. CASE now < size
  <2>1. new = Expand(m, i, size - now).mem /\ size - now \in Nat
    BY <1>1, <1>3 DEF file_resize, now
  <2>2. Grows(m, new, i)
    BY <2>1, ExpandResizes
  <2> HIDE DEF new
  <2>3. Stays(m, new, i, Switched(m, new)) /\ \A b \in Blocks : m.data_bitmap[b] => new.data_bitmap[b]
    BY <2>2, GrowStays, GrowMarks
  <2>4. Stays(m, new, i, file_resize_lists(m, i, size))
    BY <1>2, <2>3, StaysMore
  <2> QED BY <2>3, <2>4 DEF new
<1>4. CASE size < now
  <2>1. new = Shrink(m, i, now - size) /\ now - size \in Nat
    BY <1>1, <1>4 DEF file_resize, now
  <2>2. Stays(m, new, i, Indirect(m, i))
    BY <2>1, ShrinkStays
  <2>3. Indirect(m, i) \subseteq file_resize_lists(m, i, size)
    BY <1>2, <1>4
  <2>4. ~(size >= now)
    BY <1>1, <1>4
  <2>5. Stays(m, new, i, file_resize_lists(m, i, size))
    BY <2>2, <2>3, StaysMore
  <2> QED BY <2>4, <2>5 DEF now
<1>5. CASE size = now
  <2>1. new = m
    BY <1>1, <1>5 DEF file_resize, now
  <2> QED BY <2>1, StaysSame
<1> QED BY <1>1, <1>3, <1>4, <1>5

----------------------------------------------------------------------------
(* What memory and disk have to do with each other *)

\* Inodes whose flag is set have their blocks in memory, but for the number of the inode table,
\* whose flag mk sets.
Resident(m, z, F) ==
    \A i \in (F \cap Live(m)) \ {InodeSector} : \A p \in Places :
        At(Complete(m, z), i, p) # None => InMemory(m, At(Complete(m, z), i, p))

\* Memory m, with the flags of D and F and newer text in N, goes with disk z, once the
\* sectors of E, which are on the list U, have been sent.
Tracks(m, z, U, D, F, N, E, d) ==
    /\ m \in Image /\ OnDisk(z)
    /\ Sound(Complete(m, z)) /\ Shallow(Complete(m, z))
    /\ {0, d} \subseteq F /\ d \in Dirs(m)
    /\ U \subseteq Sectors /\ N \subseteq Blocks /\ \A b \in N : m.data_bitmap[b]
    /\ Resident(m, z, F)
    /\ \A b \in Blocks : Owned(Complete(m, z), b) => BlockTracks(m, z, D \cup U, N, E, b)
    /\ \A i \in Files(m) : m.inode[i].indirect # None => IndexTracks(m, z, E, m.inode[i].indirect)

(* After a command memory and disk go together, if each place holds what it held or a sector *)
(* that is listed.                                                                             *)
LEMMA Carried ==
    ASSUME NEW m, NEW z, NEW U, NEW D, NEW F, NEW N, NEW E, NEW d, Tracks(m, z, U, D, F, N, E, d),
           NEW m2 \in Image, NEW U2, NEW F2, NEW N2, E \subseteq U2,
           Sound(Complete(m2, z)), Shallow(Complete(m2, z)), d \in Dirs(m2),
           U \subseteq U2, U2 \subseteq Sectors, F \subseteq F2, F2 \subseteq F \cup {InodeSector},
           N2 \subseteq Blocks, \A b \in N2 : m2.data_bitmap[b],
           \A j \in Live(m2), p \in Places : At(Complete(m2, z), j, p) # None => Carries(m, m2, z, U2, j, p),
           \A b \in U2 \ U : Owned(Complete(m2, z), b) => InMemory(m2, b),
           \A b \in N2 \ N : Owned(Complete(m2, z), b) => b \in U2 \/ IsFirstOrIndex(m2, b)
    PROVE  Tracks(m2, z, U2, D, F2, N2, U2, d)
<1> DEFINE w  == Complete(m, z)
           w2 == Complete(m2, z)
<1>1. /\ m \in Image /\ OnDisk(z) /\ BlocksSound(w) /\ BlocksSound(w2)
      /\ {0, d} \subseteq F /\ Resident(m, z, F)
      /\ \A b \in Blocks : Owned(w, b) => BlockTracks(m, z, D \cup U, N, E, b)
      /\ \A i \in Files(m) : m.inode[i].indirect # None => IndexTracks(m, z, E, m.inode[i].indirect)
  BY DEF Tracks, Sound
<1>2. /\ w.inode = m.inode /\ w2.inode = m2.inode /\ Live(w) = Live(m) /\ Live(w2) = Live(m2)
      /\ Dirs(w) = Dirs(m) /\ Dirs(w2) = Dirs(m2)
  BY <1>1, CompleteMembers
<1> HIDE DEF w, w2
<1>3. \A j \in Live(m2), p \in Places : At(w2, j, p) # None => At(w2, j, p) \in Blocks /\ Carries(m, m2, z, U2, j, p)
  BY <1>1, <1>2, OwnedBlocks DEF w2
<1>4. ASSUME NEW j \in Live(m2), NEW p \in Places, NEW b \in Blocks, At(w2, j, p) = b, ~(b \in U2 /\ InMemory(m2, b))
      PROVE  /\ j \in Live(m) /\ At(w, j, p) = b /\ m2.inode[j].type = m.inode[j].type
             /\ m2.sector[b] = m.sector[b] \/ (p = <<"indirect", 0>> /\ Grown(m.sector[b], m2.sector[b]))
             /\ Owned(w, b) /\ BlockTracks(m, z, D \cup U, N, E, b)
             /\ InMemory(m, b) => InMemory(m2, b)
  <2>1. /\ j \in Live(m) /\ At(w, j, p) = b /\ m2.inode[j].type = m.inode[j].type
        /\ m2.sector[b] = m.sector[b] \/ (p = <<"indirect", 0>> /\ Grown(m.sector[b], m2.sector[b]))
    <3>1. Carries(m, m2, z, U2, j, p)
      BY <1>3, <1>4, NoneIsNoBlock
    <3> QED BY <1>4, <3>1 DEF Carries, w, w2
  <2>2. Owned(w, b)
    BY <1>2, <2>1 DEF Owned
  <2>3. InMemory(m, b) => InMemory(m2, b)
    BY <2>1, GrownKinds DEF InMemory
  <2> QED BY <1>1, <2>1, <2>2, <2>3
<1>5. Resident(m2, z, F2)
  <2> SUFFICES ASSUME NEW i \in (F2 \cap Live(m2)) \ {InodeSector}, NEW p \in Places, At(w2, i, p) # None
               PROVE  InMemory(m2, At(w2, i, p))
    BY DEF Resident, w2
  <2> DEFINE b == At(w2, i, p)
  <2>1. b \in Blocks /\ i \in Live(m2)
    BY <1>3
  <2>2. CASE ~(b \in U2 /\ InMemory(m2, b))
    <3>1. i \in Live(m) /\ At(w, i, p) = b /\ (InMemory(m, b) => InMemory(m2, b)) /\ b # None
      BY <1>4, <2>1, <2>2
    <3>2. i \in (F \cap Live(m)) \ {InodeSector}
      BY <3>1
    <3>3. InMemory(m, b)
      BY <1>1, <3>1, <3>2 DEF Resident, w
    <3> QED BY <3>1, <3>3
  <2> QED BY <2>2
<1>6. ASSUME NEW b \in Blocks, Owned(w2, b)
      PROVE  BlockTracks(m2, z, D \cup U2, N2, U2, b)
  <2>1. PICK j \in Live(m2), p \in Places : At(w2, j, p) = b
    BY <1>2, <1>6 DEF Owned
  <2>2. CASE b \in U2 /\ InMemory(m2, b)
    BY <2>2 DEF BlockTracks
  <2>3. CASE ~(b \in U2 /\ InMemory(m2, b))
    <3>1. /\ j \in Live(m) /\ At(w, j, p) = b /\ m2.inode[j].type = m.inode[j].type
          /\ m2.sector[b] = m.sector[b] \/ (p = <<"indirect", 0>> /\ Grown(m.sector[b], m2.sector[b]))
          /\ Owned(w, b) /\ BlockTracks(m, z, D \cup U, N, E, b)
          /\ InMemory(m, b) => InMemory(m2, b)
      BY <1>4, <2>1, <2>3
    <3>2. b \in D \cup U2 => InMemory(m2, b)
      <4>1. CASE b \in D \cup U
        BY <3>1, <4>1 DEF BlockTracks
      <4>2. CASE b \in U2 \ U
        BY <1>6, <4>2 DEF w2
      <4> QED BY <4>1, <4>2
    <3>3. \A i \in Files(m) : /\ b = m.inode[i].direct[0] => i = j /\ p = <<"direct", 0>>
                              /\ b = m.inode[i].indirect => i = j /\ p = <<"indirect", 0>>
      BY <1>1, <3>1, PlaceOfFirst DEF w
    <3>4. /\ p = <<"direct", 0>> => m2.inode[j].direct[0] = b
          /\ p = <<"indirect", 0>> => m2.inode[j].indirect = b /\ j \in Files(m2)
      <4>1. /\ At(w2, j, <<"direct", 0>>) = m2.inode[j].direct[0]
            /\ At(w2, j, <<"indirect", 0>>) = m2.inode[j].indirect
        BY <1>2, ConstantsTyped, AllPlaces
      <4>2. j \in Dirs(m2) => m2.inode[j].indirect = None
        BY <1>1, <1>2, OwnedBlocks
      <4> QED BY <2>1, <4>1, <4>2, NoneIsNoBlock DEF Files
    <3>5. j \in Files(m) => j \in Files(m2)
      BY <3>1 DEF Files, Dirs
    <3>6. IsIndex(m, b) => IsIndex(m2, b)
      BY <3>3, <3>4 DEF IsIndex
    <3>7. IsFirstOrIndex(m, b) => IsFirstOrIndex(m2, b)
      BY <3>3, <3>4, <3>5 DEF IsFirstOrIndex
    <3>8. b \in E \/ (z[b] # Unread /\ (m.sector[b] \in {Unread, z[b]} \/ IsIndex(m, b)) /\ (b \in N => IsFirstOrIndex(m, b)))
      BY <3>1 DEF BlockTracks
    <3>9. b \in E \/ m2.sector[b] \in {Unread, z[b]} \/ IsIndex(m2, b)
      <4>1. CASE m2.sector[b] = m.sector[b]
        BY <3>6, <3>8, <4>1
      <4>2. CASE p = <<"indirect", 0>>
        BY <3>4, <4>2 DEF IsIndex
      <4> QED BY <3>1, <4>1, <4>2
    <3>10. b \in U2 \/ b \in E \/ (b \in N2 => IsFirstOrIndex(m2, b))
      <4>1. b \in N2 \ N => b \in U2 \/ IsFirstOrIndex(m2, b)
        BY <1>6 DEF w2
      <4> QED BY <3>7, <3>8, <4>1
    <3> QED BY <3>2, <3>8, <3>9, <3>10 DEF BlockTracks
  <2> QED BY <2>2, <2>3
<1>7. ASSUME NEW i \in Files(m2), m2.inode[i].indirect # None
      PROVE  IndexTracks(m2, z, U2, m2.inode[i].indirect)
  <2> DEFINE x == m2.inode[i].indirect
  <2>1. i \in Live(m2) /\ x \in Blocks
    BY <1>1, <1>2, <1>7, OwnedBlocks DEF Files
  <2>2. At(w2, i, <<"indirect", 0>>) = x /\ At(w, i, <<"indirect", 0>>) = m.inode[i].indirect /\ <<"indirect", 0>> \in Places
    BY <1>2, AllPlaces
  <2>3. CASE ~(x \in U2 /\ InMemory(m2, x))
    <3>1. /\ i \in Live(m) /\ m.inode[i].indirect = x /\ m2.inode[i].type = m.inode[i].type
          /\ m2.sector[x] = m.sector[x] \/ Grown(m.sector[x], m2.sector[x])
      BY <1>4, <2>1, <2>2, <2>3
    <3>2. i \in Files(m)
      BY <1>7, <3>1 DEF Files, Dirs
    <3>3. IndexTracks(m, z, E, x)
      BY <1>1, <1>7, <3>1, <3>2
    <3>4. CASE ~InMemory(m, x)
      <4>1. ~InMemory(m2, x)
        BY <3>1, <3>4, GrownKinds DEF InMemory
      <4> QED BY <4>1 DEF IndexTracks
    <3>5. CASE OlderIndex(z[x], m.sector[x])
      <4>1. OlderIndex(z[x], m2.sector[x])
        BY <3>1, <3>5, GrownOn DEF OlderIndex
      <4> QED BY <4>1 DEF IndexTracks
    <3> QED BY <3>3, <3>4, <3>5 DEF IndexTracks
  <2>4. CASE x \in U2
    BY <2>4 DEF IndexTracks
  <2> QED BY <2>3, <2>4
<1> QED BY <1>1, <1>5, <1>6, <1>7 DEF Tracks, w2

----------------------------------------------------------------------------
(* Commands that work on one file, or on none *)

(* More sectors are listed, more flags are set, more is still to be sent. *)
LEMMA TracksMore ==
    ASSUME NEW m, NEW z, NEW U, NEW D, NEW F, NEW N, NEW E, NEW d, Tracks(m, z, U, D, F, N, E, d),
           NEW U2, NEW F2, NEW E2, U \subseteq U2, U2 \subseteq Sectors, E \subseteq E2,
           F \subseteq F2, Resident(m, z, F2),
           \A b \in U2 \ U : Owned(Complete(m, z), b) => InMemory(m, b)
    PROVE  Tracks(m, z, U2, D, F2, N, E2, d)
<1>1. ASSUME NEW b \in Blocks, Owned(Complete(m, z), b) PROVE BlockTracks(m, z, D \cup U2, N, E2, b)
  <2>1. BlockTracks(m, z, D \cup U, N, E, b)
    BY <1>1 DEF Tracks
  <2> QED BY <1>1, <2>1 DEF BlockTracks
<1>2. ASSUME NEW i \in Files(m), m.inode[i].indirect # None PROVE IndexTracks(m, z, E2, m.inode[i].indirect)
  <2>1. IndexTracks(m, z, E, m.inode[i].indirect)
    BY <1>2 DEF Tracks
  <2> QED BY <2>1 DEF IndexTracks
<1> QED BY <1>1, <1>2 DEF Tracks

(* What a file has while memory and disk go together. *)
LEMMA TrackedFile ==
    ASSUME NEW m, NEW z, NEW U, NEW D, NEW F, NEW N, NEW E, NEW d, Tracks(m, z, U, D, F, N, E, d),
           NEW i \in Files(m), IndexHeld(m, i)
    PROVE  /\ m \in Image /\ OnDisk(z) /\ i \in Inodes /\ i \in Live(m) /\ i \notin Dirs(m)
           /\ HoldsOnce(m, i) /\ DenseFile(m, i)
           /\ \A p \in Places : At(Complete(m, z), i, p) = At(m, i, p)
<1> DEFINE w == Complete(m, z)
<1>1. /\ m \in Image /\ OnDisk(z) /\ i \in Inodes /\ i \in Live(m) /\ i \notin Dirs(m) /\ BlocksSound(w)
  BY DEF Tracks, Files, Live, Sound
<1>2. /\ w.inode = m.inode /\ w.data_bitmap = m.data_bitmap /\ Live(w) = Live(m) /\ Dirs(w) = Dirs(m)
      /\ \A b \in Blocks : InMemory(m, b) => w.sector[b] = m.sector[b]
  BY <1>1, CompleteMembers
<1>3. (\A p \in Places : At(w, i, p) = At(m, i, p)) /\ Slots(w, i) = Slots(m, i)
  BY <1>1, CompletePlaces
<1>4. m.inode[i].indirect # None => w.sector[m.inode[i].indirect] = m.sector[m.inode[i].indirect]
  <2>1. m.inode[i].indirect \in Slot
    BY <1>1, ImageTyped
  <2> QED BY <1>2, <2>1 DEF IndexHeld, Slot
<1> HIDE DEF w
<1>5. HoldsOnce(w, i) /\ DenseFile(w, i)
  BY <1>1, <1>2 DEF BlocksSound
<1>6. HoldsOnce(m, i)
  BY <1>2, <1>3, <1>5 DEF HoldsOnce
<1>7. DenseFile(m, i)
  BY <1>2, <1>3, <1>4, <1>5 DEF DenseFile
<1> QED BY <1>1, <1>3, <1>6, <1>7 DEF w

(* A file has been resized or written into, and its sectors are listed if they are new. *)
LEMMA FileCarried ==
    ASSUME NEW m, NEW z, NEW U, NEW D, NEW F, NEW N, NEW E, NEW d, Tracks(m, z, U, D, F, N, E, d),
           NEW i \in Files(m), IndexHeld(m, i), NEW m2, Resized(m, m2, i),
           NEW L, Stays(m, m2, i, L), NEW U2, L \subseteq U2,
           E \subseteq U2, U \subseteq U2, U2 \subseteq Sectors,
           \A b \in U2 \ U : b \in Switched(m, m2) \/ InMemory(m2, b),
           NEW N2, N2 \subseteq Blocks, \A b \in N2 : m2.data_bitmap[b],
           \A b \in N2 \ N : b \in U2 \/ IsFirstOrIndex(m2, b)
    PROVE  Tracks(m2, z, U2, D, F, N2, U2, d)
<1> DEFINE w  == Complete(m, z)
           w2 == Complete(m2, z)
<1>1. /\ m \in Image /\ OnDisk(z) /\ i \in Inodes /\ i \in Live(m) /\ i \notin Dirs(m)
      /\ HoldsOnce(m, i) /\ DenseFile(m, i) /\ \A p \in Places : At(w, i, p) = At(m, i, p)
  BY TrackedFile
<1>2. Sound(w) /\ Shallow(w) /\ d \in Dirs(m) /\ BlocksSound(w)
  BY DEF Tracks, Sound
<1>3. m2 \in Image /\ HoldsOnce(m2, i) /\ DenseFile(m2, i)
  BY DEF Resized
<1>4. /\ w.inode = m.inode /\ w.data_bitmap = m.data_bitmap /\ Live(w) = Live(m) /\ Dirs(w) = Dirs(m)
      /\ w2.inode = m2.inode /\ w2.data_bitmap = m2.data_bitmap /\ Live(w2) = Live(m2) /\ Dirs(w2) = Dirs(m2)
      /\ w2 \in Image
  BY <1>1, <1>3, CompleteMembers
<1>5. Resized(w, w2, i)
  BY <1>1, CompleteResized
<1>6. \A p \in Places : At(w2, i, p) = At(m2, i, p)
  BY <1>1, <1>3, CompletePlaces, DenseHolds
<1> HIDE DEF w, w2
<1>7. Sound(w2) /\ Dirs(w2) = Dirs(w) /\ Live(w2) = Live(w) /\ Listing(w2) = Listing(w)
  BY <1>1, <1>2, <1>4, <1>5, ResizeKeepsSound, SoundAfterResize
<1>8. \A e \in Dirs(w) : Children(w2, e) = Children(w, e)
  BY <1>7 DEF Listing
<1>9. Shallow(w2)
  <2>1. \A e \in Dirs(w2) \ {0} : Flat(w2, e)
    BY <1>2, <1>7, <1>8 DEF Shallow, Flat
  <2>2. 0 \in Dirs(w)
    BY <1>2 DEF Sound, TreeOn, DirectoriesOf, Listing
  <2>3. w2.inode[0] = w.inode[0]
    BY <1>1, <1>4, <1>5, <2>2, ConstantsTyped DEF Resized
  <2> QED BY <1>2, <2>1, <2>3 DEF Shallow
<1>10. ASSUME NEW j \in Live(m), j # i, NEW p \in Places, NEW b, b = At(w, j, p), b # None
       PROVE  b \in Blocks /\ m2.data_bitmap[b] /\ m.data_bitmap[b] /\ m2.sector[b] = m.sector[b]
  <2>1. b \in Blocks /\ m.data_bitmap[b]
    BY <1>2, <1>4, <1>10, OwnedBlocks
  <2>2. \A r \in Places : At(w, i, r) # b
    BY <1>1, <1>2, <1>4, <1>10 DEF BlocksSound
  <2> QED BY <1>1, <2>1, <2>2 DEF Resized
<1>11. \A j \in Live(m) \ {i} : \A p \in Places : At(w2, j, p) = At(w, j, p)
  <2> SUFFICES ASSUME NEW j \in Live(m) \ {i} PROVE \A p \in Places : At(w2, j, p) = At(w, j, p)
    OBVIOUS
  <2>1. w2.inode[j] = w.inode[j]
    BY <1>5 DEF Resized, Live
  <2>2. \A p \in Places : At(w, j, p) # None => w2.data_bitmap[At(w, j, p)]
    BY <1>4, <1>10
  <2>3. w.inode[j].indirect # None => w2.sector[w.inode[j].indirect] = w.sector[w.inode[j].indirect]
    <3> SUFFICES ASSUME w.inode[j].indirect # None PROVE w2.sector[w.inode[j].indirect] = w.sector[w.inode[j].indirect]
      OBVIOUS
    <3>1. /\ <<"indirect", 0>> \in Places /\ At(w, j, <<"indirect", 0>>) = w.inode[j].indirect
      BY AllPlaces
    <3>2. /\ w.inode[j].indirect \in Blocks
          /\ m2.sector[w.inode[j].indirect] = m.sector[w.inode[j].indirect]
      BY <1>10, <3>1
    <3> QED BY <1>1, <1>3, <3>2, CompleteMembers DEF w, w2, InMemory
  <2>4. Kept(w, w2, j)
    BY <2>1, <2>2, <2>3 DEF Kept
  <2> QED BY <2>4, KeptPlaces
<1>12. ASSUME NEW j \in Live(m2), NEW p \in Places, At(w2, j, p) # None
       PROVE  /\ Carries(m, m2, z, U2, j, p)
              /\ At(w2, j, p) \in Switched(m, m2) => InMemory(m2, At(w2, j, p))
  <2> DEFINE b == At(w2, j, p)
  <2>1. j \in Live(m) /\ j \in Inodes /\ m2.inode[j].type = m.inode[j].type
    <3>1. j \in Live(m) /\ j \in Inodes
      BY <1>4, <1>7 DEF Live
    <3>2. j # i => m2.inode[j] = m.inode[j]
      BY <3>1 DEF Resized
    <3>3. m2.inode[i].type = m.inode[i].type
      BY DEF Resized
    <3> QED BY <3>1, <3>2, <3>3
  <2>2. CASE j # i
    <3>1. b = At(w, j, p)
      BY <1>11, <2>1, <2>2
    <3>2. m2.data_bitmap[b] /\ m.data_bitmap[b] /\ m2.sector[b] = m.sector[b]
      BY <1>10, <1>12, <2>1, <2>2, <3>1
    <3> QED BY <2>1, <3>1, <3>2 DEF Carries, Switched, w, w2
  <2>3. CASE j = i /\ TakesAt(m2, i, p, L)
    BY <1>6, <2>3 DEF Carries, TakesAt, w2
  <2>4. CASE j = i /\ KeepsAt(m, m2, i, p)
    <3>1. b = At(m2, i, p) /\ b = At(m, i, p) /\ b = At(w, i, p)
      BY <1>1, <1>6, <2>4 DEF KeepsAt
    <3>2. m2.sector[b] = m.sector[b] \/ (p = <<"indirect", 0>> /\ Grown(m.sector[b], m2.sector[b]))
      BY <2>4, <3>1 DEF KeepsAt
    <3>3. m2.data_bitmap[b] /\ m.data_bitmap[b]
      BY <1>1, <1>3, <1>12, <3>1 DEF HoldsOnce
    <3> QED BY <2>1, <2>4, <3>1, <3>2, <3>3 DEF Carries, Switched, w, w2
  <2>5. j = i => KeepsAt(m, m2, i, p) \/ TakesAt(m2, i, p, L)
    BY <1>6, <1>12 DEF Stays
  <2> QED BY <2>2, <2>3, <2>4, <2>5
<1>13. \A b \in U2 \ U : Owned(w2, b) => InMemory(m2, b)
  <2> SUFFICES ASSUME NEW b \in U2 \ U, Owned(w2, b), b \in Switched(m, m2) PROVE InMemory(m2, b)
    OBVIOUS
  <2>1. PICK j \in Live(m2), p \in Places : At(w2, j, p) = b
    BY <1>4 DEF Owned
  <2>2. b # None
    BY NoneIsNoBlock DEF Switched
  <2> QED BY <1>12, <2>1, <2>2
<1>14. d \in Dirs(m2)
  BY <1>2, <1>4, <1>7
<1> QED
  <2>1. \A j \in Live(m2), p \in Places : At(Complete(m2, z), j, p) # None => Carries(m, m2, z, U2, j, p)
    BY <1>12 DEF w2
  <2>2. \A b \in U2 \ U : Owned(Complete(m2, z), b) => InMemory(m2, b)
    BY <1>13 DEF w2
  <2>3. \A b \in N2 \ N : Owned(Complete(m2, z), b) => b \in U2 \/ IsFirstOrIndex(m2, b)
    OBVIOUS
  <2>4. Sound(Complete(m2, z)) /\ Shallow(Complete(m2, z))
    BY <1>7, <1>9 DEF w2
  <2> QED BY <1>3, <1>14, <2>1, <2>2, <2>3, <2>4, Carried

----------------------------------------------------------------------------
(* What transfer asks for *)

(* Prefix(f) is f[0], f[1], ... up to the first place that is empty. *)
LEMMA PrefixLeads ==
    ASSUME NEW N \in Nat, NEW f \in [0..N - 1 -> Slot]
    PROVE  Leads(Prefix(f), f, N)
<1> DEFINE c == Cardinality(DOMAIN f)
           s == [k \in 1..c |-> f[k - 1]]
           I == {k \in 1..Len(s) : s[k] = None}
           n == SelectInSeq(s, LAMBDA b : b = None)
<1>1. c = N
  <2>1. DOMAIN f = 0..N - 1
    OBVIOUS
  <2>2. Cardinality(0..N - 1) = N
    BY FS_Interval
  <2> QED BY <2>1, <2>2
<1>2. s \in Seq(Slot) /\ Len(s) = N /\ \A k \in 1..N : s[k] = f[k - 1]
  <2> HIDE DEF c
  <2>1. s \in [1..N -> Slot]
    BY <1>1
  <2> QED BY <1>1, <2>1
<1>3. n = IF I # {} THEN Min(I) ELSE 0
  BY DEF SelectInSeq
<1>4. Prefix(f) = IF n = 0 THEN s ELSE SubSeq(s, 1, n - 1)
  BY DEF Prefix
<1> HIDE DEF n, s, c
<1>5. I \in SUBSET Nat /\ 0 \notin I
  BY <1>2
<1>6. I # {} => Min(I) \in I /\ \A y \in I : Min(I) <= y
  <2> HIDE DEF I
  <2> QED BY <1>5, LeastElement
<1>7. CASE I = {}
  <2>1. Prefix(f) = s
    BY <1>3, <1>4, <1>7
  <2>2. \A k \in 1..N : s[k] # None
    BY <1>2, <1>7
  <2> QED BY <1>2, <2>1, <2>2 DEF Leads
<1>8. CASE I # {}
  <2>1. n \in I /\ \A y \in I : n <= y
    BY <1>3, <1>6, <1>8
  <2>2. n \in 1..N /\ s[n] = None /\ \A k \in 1..n - 1 : s[k] # None
    BY <1>2, <2>1
  <2>3. Prefix(f) = SubSeq(s, 1, n - 1)
    BY <1>4, <2>2
  <2>4. SubSeq(s, 1, n - 1) \in Seq(Slot) /\ Len(SubSeq(s, 1, n - 1)) = n - 1
        /\ \A k \in 1..n - 1 : SubSeq(s, 1, n - 1)[k] = s[k]
    BY <1>2, <2>2
  <2>5. f[n - 1] = None /\ \A k \in 1..n - 1 : s[k] = f[k - 1]
    BY <1>2, <2>2
  <2>6. n - 1 \in 0..N /\ \A k \in 1..n - 1 : f[k - 1] # None
    <3>1. ASSUME NEW k \in 1..n - 1 PROVE f[k - 1] # None
      <4>1. s[k] # None /\ s[k] = f[k - 1]
        BY <2>2, <2>5
      <4> QED BY <4>1
    <3>2. n - 1 \in 0..N
      BY <2>2
    <3> QED BY <3>1, <3>2
  <2> DEFINE q == SubSeq(s, 1, n - 1)
  <2>7. q \in Seq(Slot) /\ Len(q) = n - 1 /\ \A k \in 1..n - 1 : q[k] = f[k - 1]
    BY <2>4, <2>5
  <2> HIDE DEF q
  <2>8. Leads(q, f, N)
    BY <2>5, <2>6, <2>7 DEF Leads
  <2> QED BY <2>3, <2>8 DEF q
<1> QED BY <1>7, <1>8

(* Of what is filled from the left it is everything. *)
LEMMA PrefixElements ==
    ASSUME NEW N \in Nat, NEW f \in [0..N - 1 -> Slot]
    PROVE  /\ Prefix(f) \in Seq(Slot)
           /\ \A b \in ToSet(Prefix(f)) : b # None /\ \E k \in 0..N - 1 : f[k] = b
           /\ Dense(f) => \A k \in 0..N - 1 : f[k] # None => f[k] \in ToSet(Prefix(f))
           /\ Prefix(f) # <<>> => Prefix(f)[1] = f[0]
           /\ N > 0 /\ f[0] # None => Prefix(f) # <<>>
<1> DEFINE q == Prefix(f)
<1>1. Leads(q, f, N)
  BY PrefixLeads
<1> HIDE DEF q
<1>2. \A b \in ToSet(q) : b # None /\ \E k \in 0..N - 1 : f[k] = b
  <2> SUFFICES ASSUME NEW b \in ToSet(q) PROVE b # None /\ \E k \in 0..N - 1 : f[k] = b
    OBVIOUS
  <2>1. PICK k \in 1..Len(q) : q[k] = b
    BY <1>1 DEF ToSet, Leads
  <2> QED BY <1>1, <2>1 DEF Leads
<1>3. ASSUME Dense(f), NEW k \in 0..N - 1, f[k] # None PROVE f[k] \in ToSet(q)
  <2>1. 0..k \subseteq Used(f)
    BY <1>3 DEF Dense, Used
  <2>2. Len(q) > k
    BY <1>1, <2>1 DEF Leads, Used
  <2>3. k + 1 \in 1..Len(q) /\ q[k + 1] = f[k]
    BY <1>1, <2>2 DEF Leads
  <2> QED BY <1>1, <2>3 DEF ToSet, Leads
<1>4. q # <<>> => q[1] = f[0]
  <2> SUFFICES ASSUME q # <<>> PROVE q[1] = f[0]
    OBVIOUS
  <2>1. 1 \in 1..Len(q)
    BY <1>1 DEF Leads
  <2> QED BY <1>1, <2>1 DEF Leads
<1>5. N > 0 /\ f[0] # None => q # <<>>
  <2>1. <<>> \in Seq(Slot) /\ Len(<<>>) = 0
    OBVIOUS
  <2> QED BY <1>1, <2>1 DEF Leads
<1>6. q \in Seq(Slot)
  BY <1>1 DEF Leads
<1> QED BY <1>2, <1>3, <1>4, <1>5, <1>6 DEF q

(* The set of sectors that transfer asks for. *)
LEMMA TransferSet ==
    ASSUME NEW m \in Image, NEW i \in Inodes
    PROVE  /\ transfer(m, i) \in Seq(Slot)
           /\ ToSet(Prefix(m.inode[i].direct)) \subseteq ToSet(transfer(m, i))
           /\ Prefix(m.inode[i].direct) # <<>> /\ m.inode[i].indirect # None =>
                 m.inode[i].indirect \in ToSet(transfer(m, i)) /\ ToSet(Prefix(Slots(m, i))) \subseteq ToSet(transfer(m, i))
           /\ \A b \in ToSet(transfer(m, i)) : \/ b \in ToSet(Prefix(m.inode[i].direct))
                                               \/ b \in ToSet(Prefix(Slots(m, i)))
                                               \/ b = m.inode[i].indirect /\ b # None
<1> DEFINE q == Prefix(m.inode[i].direct)
           x == m.inode[i].indirect
           t == Prefix(Slots(m, i))
           all == InOrder(q, x, t)
<1>1. q \in Seq(Slot) /\ t \in Seq(Slot) /\ x \in Slot
  BY ImageTyped, ConstantsTyped, PrefixElements
<1>2. transfer(m, i) = IF q = <<>> \/ x = None THEN q ELSE all
  BY DEF transfer, InOrder
<1>3. q # <<>> => all \in Seq(Slot) /\ ToSet(all) = ToSet(q) \cup {x} \cup ToSet(t)
  <2> HIDE DEF q, x, t
  <2> QED BY <1>1, InOrderElements
<1> HIDE DEF q, x, t, all
<1>4. CASE q = <<>> \/ x = None
  <2>1. transfer(m, i) = q
    BY <1>2, <1>4
  <2> QED BY <1>1, <1>4, <2>1 DEF q, x, t
<1>5. CASE q # <<>> /\ x # None
  <2>1. transfer(m, i) = all
    BY <1>2, <1>5
  <2>2. ToSet(transfer(m, i)) = ToSet(q) \cup {x} \cup ToSet(t) /\ transfer(m, i) \in Seq(Slot)
    BY <1>3, <1>5, <2>1
  <2> QED BY <1>5, <2>2 DEF q, x, t
<1> QED BY <1>4, <1>5

(* Each is a sector of the inode. *)
LEMMA TransferElements ==
    ASSUME NEW m \in Image, NEW i \in Inodes, NEW b \in ToSet(transfer(m, i))
    PROVE  b \in Blocks /\ \E p \in Places : At(m, i, p) = b
<1>1. \/ b \in ToSet(Prefix(m.inode[i].direct))
      \/ b \in ToSet(Prefix(Slots(m, i)))
      \/ b = m.inode[i].indirect /\ b # None
  BY TransferSet
<1>2. /\ m.inode[i].direct \in [0..INODE_DIRECT_NUM - 1 -> Slot] /\ Slots(m, i) \in [0..INDEX_NUM - 1 -> Slot]
      /\ m.inode[i].indirect \in Slot /\ INODE_DIRECT_NUM \in Nat /\ INDEX_NUM \in Nat
  BY ImageTyped, ConstantsTyped
<1>3. CASE b \in ToSet(Prefix(m.inode[i].direct))
  <2>1. PICK k \in 0..INODE_DIRECT_NUM - 1 : b # None /\ m.inode[i].direct[k] = b
    <3> DEFINE f == m.inode[i].direct
    <3>1. f \in [0..INODE_DIRECT_NUM - 1 -> Slot] /\ b \in ToSet(Prefix(f))
      BY <1>2, <1>3
    <3> HIDE DEF f
    <3>2. b # None /\ \E k \in 0..INODE_DIRECT_NUM - 1 : f[k] = b
      BY <1>2, <3>1, PrefixElements
    <3> QED BY <3>2 DEF f
  <2>2. <<"direct", k>> \in Places /\ At(m, i, <<"direct", k>>) = b
    BY <2>1, AllPlaces
  <2> QED BY <1>2, <2>1, <2>2 DEF Slot
<1>4. CASE b \in ToSet(Prefix(Slots(m, i)))
  <2>1. PICK k \in 0..INDEX_NUM - 1 : b # None /\ Slots(m, i)[k] = b
    BY <1>2, <1>4, PrefixElements
  <2>2. <<"slot", k>> \in Places /\ At(m, i, <<"slot", k>>) = b
    BY <2>1, AllPlaces
  <2> QED BY <1>2, <2>1, <2>2 DEF Slot
<1>5. CASE b = m.inode[i].indirect /\ b # None
  BY <1>2, <1>5, AllPlaces DEF Slot
<1> QED BY <1>1, <1>3, <1>4, <1>5

(* All sectors of an inode are among them, if they are in memory: the index block then says *)
(* what the others are.                                                                      *)
LEMMA TransferAll ==
    ASSUME NEW m \in Image, NEW z, OnDisk(z), BlocksSound(Complete(m, z)), NEW i \in Live(m),
           \A b \in ToSet(transfer(m, i)) : InMemory(m, b),
           NEW p \in Places, At(Complete(m, z), i, p) # None
    PROVE  InMemory(m, At(Complete(m, z), i, p))
<1> DEFINE w == Complete(m, z)
           f == m.inode[i].direct
           x == m.inode[i].indirect
<1>1. w.inode = m.inode /\ Live(w) = Live(m) /\ Dirs(w) = Dirs(m) /\ i \in Inodes
  BY CompleteMembers DEF Live
<1>2. /\ f \in [0..INODE_DIRECT_NUM - 1 -> Slot] /\ Slots(m, i) \in [0..INDEX_NUM - 1 -> Slot]
      /\ x \in Slot /\ INODE_DIRECT_NUM \in Nat /\ INDEX_NUM \in Nat /\ INODE_DIRECT_NUM > 0
  BY <1>1, ImageTyped, ConstantsTyped
<1>3. IndexHeld(m, i) => \A r \in Places : At(w, i, r) = At(m, i, r)
  BY <1>1, CompletePlaces
<1> HIDE DEF w
<1>4. CASE i \in Dirs(m)
  <2>1. OnlyFirst(w, i) /\ w.inode[i].direct[0] # None
    BY <1>1, <1>4 DEF BlocksSound, w
  <2>2. p = <<"direct", 0>>
    BY <2>1 DEF OnlyFirst, w
  <2>3. At(w, i, p) = f[0] /\ f[0] # None
    BY <1>1, <1>2, <2>1, <2>2, AllPlaces
  <2>4. Prefix(f) # <<>> /\ Prefix(f)[1] = f[0] /\ Prefix(f) \in Seq(Slot)
    BY <1>2, <2>3, PrefixElements
  <2>5. f[0] \in ToSet(Prefix(f))
    BY <2>4, SeqElements
  <2>6. f[0] \in ToSet(transfer(m, i))
    BY <1>1, <2>5, TransferSet
  <2> QED BY <2>3, <2>6 DEF w
<1>5. CASE i \notin Dirs(m)
  <2>1. DenseFile(w, i)
    BY <1>1, <1>5 DEF BlocksSound, w
  <2>2. Dense(f) /\ Dense(Slots(w, i)) /\ (x # None => f[0] # None)
    BY <1>1, <1>2, <2>1 DEF DenseFile
  <2>3. x # None => x \in ToSet(transfer(m, i)) /\ ToSet(Prefix(Slots(m, i))) \subseteq ToSet(transfer(m, i))
    <3>1. x # None => Prefix(f) # <<>>
      BY <1>2, <2>2, PrefixElements
    <3> QED BY <1>1, <3>1, TransferSet
  <2>4. IndexHeld(m, i)
    BY <2>3 DEF IndexHeld
  <2>5. Slots(w, i) = Slots(m, i) /\ At(w, i, p) = At(m, i, p)
    BY <1>1, <1>3, <2>4, CompletePlaces DEF w
  <2>6. At(m, i, p) \in ToSet(transfer(m, i))
    <3>1. CASE \E k \in 0..INODE_DIRECT_NUM - 1 : p = <<"direct", k>>
      <4>1. PICK k \in 0..INODE_DIRECT_NUM - 1 : p = <<"direct", k>>
        BY <3>1
      <4>2. At(m, i, p) = f[k] /\ f[k] # None
        BY <2>5, <4>1, AtDirect DEF w
      <4>3. f[k] \in ToSet(Prefix(f))
        BY <1>2, <2>2, <4>2, PrefixElements
      <4> QED BY <1>1, <4>2, <4>3, TransferSet
    <3>2. CASE \E k \in 0..INDEX_NUM - 1 : p = <<"slot", k>>
      <4>1. PICK k \in 0..INDEX_NUM - 1 : p = <<"slot", k>>
        BY <3>2
      <4>2. At(m, i, p) = Slots(m, i)[k] /\ Slots(m, i)[k] # None
        BY <2>5, <4>1, AtSlot DEF w
      <4>3. x # None
        BY <4>2 DEF Slots, NoSlots
      <4>4. Slots(m, i)[k] \in ToSet(Prefix(Slots(m, i)))
        BY <1>2, <2>2, <2>5, <4>2, PrefixElements
      <4> QED BY <2>3, <4>2, <4>3, <4>4
    <3>3. CASE p = <<"indirect", 0>>
      <4>1. At(m, i, p) = x /\ x # None
        BY <2>5, <3>3, AtIndirect DEF w
      <4> QED BY <2>3, <4>1
    <3> QED BY <3>1, <3>2, <3>3, PlacesByKind
  <2> QED BY <2>5, <2>6 DEF w
<1> QED BY <1>4, <1>5

(* The first sector that is missing is one. *)
LEMMA FirstMissingFound ==
    ASSUME NEW S, NEW q \in Seq(S), NEW have, ToSet(q) \ have # {}
    PROVE  FirstMissing(q, have) \in ToSet(q) \ have
<1> DEFINE I == {k \in 1..Len(q) : q[k] \notin have}
           n == SelectInSeq(q, LAMBDA s : s \notin have)
<1>1. n = IF I # {} THEN Min(I) ELSE 0
  BY DEF SelectInSeq
<1>2. FirstMissing(q, have) = q[n]
  BY DEF FirstMissing
<1>3. \A b : b \in ToSet(q) <=> \E k \in 1..Len(q) : q[k] = b
  BY SeqElements
<1>4. I # {}
  BY <1>3
<1>5. I \in SUBSET Nat
  OBVIOUS
<1>6. n \in I
  <2> HIDE DEF I, n
  <2> QED BY <1>1, <1>4, <1>5, LeastElement
<1> HIDE DEF n
<1> QED BY <1>2, <1>3, <1>6

----------------------------------------------------------------------------
(* The entries a command looks at *)

(* What is found is there. *)
LEMMA FoundMatches ==
    ASSUME NEW m, NEW d, NEW j, Children(m, d) \in Seq(Entry), Found(m, d, j) # 0
    PROVE  Matches(m, d, j, Found(m, d, j))
<1>1. CASE j.op \in {"d", "w", "i", "cat", "rm"}
  <2>1. Found(m, d, j) = EntryOf(m, d, File, j.name)
    BY <1>1 DEF Found
  <2>2. EntryOf(m, d, File, j.name) # 0
    BY <2>1
  <2> QED BY <1>1, <2>1, <2>2, EntryFound DEF Matches
<1>2. CASE j.op \in {"cd", "rmdir"}
  <2>1. Found(m, d, j) = EntryOf(m, d, Directory, j.name)
    BY <1>2 DEF Found
  <2>2. EntryOf(m, d, Directory, j.name) # 0
    BY <2>1
  <2> QED BY <1>2, <2>1, <2>2, EntryFound DEF Matches
<1>3. CASE j.op = "r"
  <2> DEFINE s == Children(m, d)
             I == {x \in 1..Len(s) : s[x].name = j.name}
  <2>1. Found(m, d, j) = IF I # {} THEN Min(I) ELSE 0
    BY <1>3 DEF Found, SelectInSeq
  <2>2. I \in SUBSET Nat
    OBVIOUS
  <2>3. I # {} => Min(I) \in I
    <3> HIDE DEF I
    <3> QED BY <2>2, LeastElement
  <2>4. Found(m, d, j) \in I
    <3> HIDE DEF I
    <3> QED BY <2>1, <2>3
  <2> QED BY <1>3, <2>4 DEF Matches
<1>4. CASE j.op \notin {"d", "w", "i", "cat", "rm", "cd", "rmdir", "r"}
  BY <1>4 DEF Found
<1> QED BY <1>1, <1>2, <1>3, <1>4

(* The inodes that a directory in memory leads to are in use. *)
LEMMA LocationsLive ==
    ASSUME NEW m \in Image, NEW z, OnDisk(z), Sound(Complete(m, z)), NEW d \in Dirs(m)
    PROVE  /\ Locations(m, d) \in Seq(Live(m)) /\ Len(Locations(m, d)) = Len(Children(m, d))
           /\ \A k \in 1..Len(Children(m, d)) : Locations(m, d)[k] = Children(m, d)[k].loc
           /\ \A k \in 1..Len(Children(m, d)) : /\ k \in 1..Len(Children(Complete(m, z), d))
                                                /\ Children(m, d)[k] = Children(Complete(m, z), d)[k]
<1> DEFINE w == Complete(m, z)
           s == Children(m, d)
<1>1. Live(w) = Live(m) /\ Dirs(w) = Dirs(m)
  BY CompleteMembers
<1>2. s \in Seq(Entry) /\ (s = Children(w, d) \/ s = <<>>)
  BY MemoryChildren DEF ListsSame, Sound
<1>3. \A k \in 1..Len(s) : k \in 1..Len(Children(w, d)) /\ s[k] = Children(w, d)[k]
  <2> HIDE DEF s, w
  <2> QED BY <1>2
<1>4. \A k \in 1..Len(s) : s[k].loc \in Live(m)
  <2> SUFFICES ASSUME NEW k \in 1..Len(s) PROVE s[k].loc \in Live(m)
    OBVIOUS
  <2>1. k \in 1..Len(Children(w, d)) /\ s[k] = Children(w, d)[k] /\ d \in Dirs(w)
    BY <1>1, <1>3
  <2>2. Children(w, d)[k].loc \in Live(w)
    <3> HIDE DEF w, s
    <3> QED BY <2>1, EntryLive DEF w
  <2> QED BY <1>1, <2>1, <2>2
<1>5. Locations(m, d) = [k \in 1..Len(s) |-> s[k].loc]
  BY DEF Locations
<1>6. Len(s) \in Nat
  BY <1>2
<1> HIDE DEF s, w
<1>7. Locations(m, d) \in Seq(Live(m)) /\ Len(Locations(m, d)) = Len(s)
  BY <1>4, <1>5, <1>6
<1> QED BY <1>3, <1>5, <1>7 DEF s, w

(* What a command names, and goes on to, is in use. *)
LEMMA TransferredLive ==
    ASSUME NEW m \in Image, NEW z, OnDisk(z), Sound(Complete(m, z)), NEW d \in Dirs(m), NEW j, j.op # "start"
    PROVE  /\ Named(m, d, j) \in Seq(Live(m))
           /\ j.op # "ls" /\ Named(m, d, j) # <<>> =>
                 /\ Matches(m, d, j, Found(m, d, j))
                 /\ Named(m, d, j) = <<Children(m, d)[Found(m, d, j)].loc>>
           /\ j.op = "rmdir" /\ Named(m, d, j) # <<>> => Named(m, d, j)[1] \in Dirs(m)
           /\ Transferred(m, d, j) \in Seq(Live(m))
<1> DEFINE n == Named(m, d, j)
           k == Found(m, d, j)
<1>1. /\ Locations(m, d) \in Seq(Live(m)) /\ Len(Locations(m, d)) = Len(Children(m, d))
      /\ \A x \in 1..Len(Children(m, d)) : Locations(m, d)[x] = Children(m, d)[x].loc
  BY LocationsLive
<1>2. Children(m, d) \in Seq(Entry) /\ d \in Live(m)
  BY MemoryChildren DEF ListsSame, Sound, Dirs
<1>3. CASE j.op = "ls"
  <2>1. Named(m, d, j) = Locations(m, d)
    BY <1>3 DEF Named
  <2>2. Transferred(m, d, j) = <<d>> \o Locations(m, d)
    BY <1>3, <2>1 DEF Transferred
  <2> QED BY <1>1, <1>2, <1>3, <2>1, <2>2, Joined
<1>4. CASE j.op # "ls" /\ k = 0
  <2>1. Named(m, d, j) = <<>>
    BY <1>4 DEF Named
  <2>2. Transferred(m, d, j) \in {<<>>, <<d>> \o <<>>}
    BY <1>4, <2>1 DEF Transferred
  <2>3. Transferred(m, d, j) \in Seq(Live(m)) /\ Named(m, d, j) \in Seq(Live(m))
    BY <1>1, <1>2, <2>1, <2>2, Joined
  <2> QED BY <1>4, <2>1, <2>3
<1>5. CASE j.op # "ls" /\ k # 0
  <2> DEFINE i == Children(m, d)[k].loc
  <2>1. Matches(m, d, j, k)
    BY <1>2, <1>5, FoundMatches
  <2>2. k \in 1..Len(Children(m, d)) /\ Locations(m, d)[k] = i
    BY <1>1, <2>1 DEF Matches
  <2>3. Named(m, d, j) = <<i>> /\ i \in Live(m)
    <3>1. Named(m, d, j) = <<Locations(m, d)[k]>>
      BY <1>5 DEF Named
    <3>2. Locations(m, d)[k] \in Live(m)
      BY <1>1, <2>2
    <3> QED BY <2>2, <3>1, <3>2
  <2>4. j.op = "rmdir" => i \in Dirs(m)
    BY <2>1, <2>3 DEF Matches, Dirs
  <2>5. j.op = "rmdir" => Locations(m, i) \in Seq(Live(m))
    <3> HIDE DEF i
    <3> QED BY <2>4, LocationsLive
  <2>6. \/ Transferred(m, d, j) \in {<<>>, <<d>> \o <<i>>}
        \/ j.op = "rmdir" /\ Transferred(m, d, j) = <<d>> \o <<i>> \o Locations(m, i)
    <3> HIDE DEF i, k
    <3>1. Named(m, d, j) # <<>> /\ Named(m, d, j)[1] = i
      BY <2>3
    <3> QED BY <2>3, <3>1 DEF Transferred
  <2> HIDE DEF i, k
  <2>7. Transferred(m, d, j) \in Seq(Live(m))
    <3>1. CASE Transferred(m, d, j) \in {<<>>, <<d>> \o <<i>>}
      BY <1>1, <1>2, <2>3, <3>1, Joined
    <3>2. CASE j.op = "rmdir" /\ Transferred(m, d, j) = <<d>> \o <<i>> \o Locations(m, i)
      BY <1>2, <2>3, <2>5, <3>2, Joined
    <3> QED BY <2>6, <3>1, <3>2
  <2>8. Named(m, d, j) \in Seq(Live(m)) /\ Named(m, d, j)[1] = i
    BY <2>3
  <2> QED BY <1>5, <2>1, <2>3, <2>4, <2>7, <2>8 DEF i, k
<1> QED BY <1>3, <1>4, <1>5

(* All entries of one name lead to one inode. *)
LEMMA OneName ==
    ASSUME NEW m \in Image, NEW z, OnDisk(z), Sound(Complete(m, z)), NEW d \in Dirs(m),
           NEW k \in 1..Len(Children(m, d)), NEW e \in ToSet(Children(m, d)),
           e.name = Children(m, d)[k].name
    PROVE  e.loc = Children(m, d)[k].loc
<1> DEFINE w == Complete(m, z)
<1>1. Dirs(w) = Dirs(m) /\ Children(m, d) \in Seq(Entry)
  BY CompleteMembers, MemoryChildren DEF ListsSame, Sound
<1>2. PICK l \in 1..Len(Children(m, d)) : e = Children(m, d)[l]
  BY <1>1, SeqElements
<1>3. /\ k \in 1..Len(Children(w, d)) /\ Children(m, d)[k] = Children(w, d)[k]
      /\ l \in 1..Len(Children(w, d)) /\ Children(m, d)[l] = Children(w, d)[l]
  BY LocationsLive
<1>4. NamesDiffer(Listing(w)) /\ d \in DOMAIN Listing(w) /\ Listing(w)[d] = Children(w, d)
  BY <1>1 DEF Sound, TreeOn, Listing
<1> HIDE DEF w
<1>5. k = l
  BY <1>2, <1>3, <1>4 DEF NamesDiffer
<1> QED BY <1>2, <1>5

----------------------------------------------------------------------------
(* What a command waits for *)

\* Nothing lacks for job j in directory d and s is 0, or s is a sector that lacks.
Awaits(m, D, F, d, j, s) ==
    \/ s = 0 /\ \A i \in ToSet(Transferred(m, d, j)) : Lacking(m, D, F, j, i) = {}
    \/ s \in Blocks /\ \E i \in ToSet(Transferred(m, d, j)) : s \in Lacking(m, D, F, j, i)

\* So it is when the server starts: the bitmaps, the inode table, and the root directory.
AwaitsBasic(m, D, s) ==
    \/ s \in {InodeBitmap, DataBitmap, InodeTable} \ D /\ (s # InodeBitmap => InodeBitmap \in D)
    \/ /\ {InodeBitmap, DataBitmap, InodeTable} \subseteq D
       /\ \/ s = 0 /\ ToSet(transfer(m, 0)) \subseteq D
          \/ s \in Blocks /\ s \in ToSet(transfer(m, 0)) \ D

\* The positions in q of inodes that lack a sector.
LackingAt(m, D, F, j, q) == {k \in 1..Len(q) : Lacking(m, D, F, j, q[k]) # {}}

(* The first of several sets that is not empty. *)
LEMMA FirstLacking ==
    ASSUME NEW m \in Image, NEW D, NEW F, NEW j, NEW q, q \in Seq(Inodes), NEW s,
           LackingAt(m, D, F, j, q) # {}, s = FirstMissing(transfer(m, q[Min(LackingAt(m, D, F, j, q))]), D)
    PROVE  s \in Blocks /\ \E i \in ToSet(q) : s \in Lacking(m, D, F, j, i)
<1> DEFINE K == LackingAt(m, D, F, j, q)
<1>1. K \in SUBSET Nat
  BY DEF LackingAt
<1>2. Min(K) \in K
  <2> HIDE DEF K
  <2>1. K # {}
    BY DEF K
  <2> QED BY <1>1, <2>1, LeastElement
<1> DEFINE n == Min(K)
           i == q[n]
<1>3. n \in 1..Len(q) /\ Lacking(m, D, F, j, i) # {}
  BY <1>2 DEF LackingAt
<1> HIDE DEF n
<1>4. i \in Inodes /\ i \in ToSet(q)
  BY <1>3, SeqElements
<1> HIDE DEF i
<1>5. Lacking(m, D, F, j, i) = ToSet(transfer(m, i)) \ D
  BY <1>3 DEF Lacking, i, n
<1>6. transfer(m, i) \in Seq(Slot) /\ ToSet(transfer(m, i)) \ D # {}
  BY <1>3, <1>4, <1>5, TransferSet
<1>7. FirstMissing(transfer(m, i), D) \in ToSet(transfer(m, i)) \ D
  BY <1>6, FirstMissingFound
<1>8. s = FirstMissing(transfer(m, i), D)
  BY DEF i, n
<1>9. s \in Blocks
  BY <1>4, <1>7, <1>8, TransferElements
<1> QED BY <1>4, <1>5, <1>7, <1>8, <1>9

(* AwaitNext looks for it. *)
LEMMA NextAwaited ==
    ASSUME NEW m \in Image, NEW D, NEW j, AwaitNext(m, D, j),
           j.op # "start" => Transferred(m, cur_dir, j) \in Seq(Inodes),
           j.op = "start" => file_in_memory = {}
    PROVE  /\ j.op # "start" => Awaits(m, D, file_in_memory, cur_dir, j, sector_idx')
           /\ j.op = "start" => AwaitsBasic(m, D, sector_idx')
<1> DEFINE basic == IF j.op = "start" THEN {InodeBitmap, DataBitmap, InodeTable} \ D ELSE {}
           q == Transferred(m, cur_dir, j)
           K == LackingAt(m, D, file_in_memory, j, q)
<1>1. \/ basic # {} /\ sector_idx' = Min(basic)
      \/ /\ basic = {}
         /\ \/ K = {} /\ sector_idx' = 0
            \/ K # {} /\ sector_idx' = FirstMissing(transfer(m, q[Min(K)]), D)
  BY DEF AwaitNext, LackingAt
<1>2. q \in Seq(Inodes)
  <2>1. CASE j.op = "start"
    <3>1. q = <<0>>
      BY <2>1 DEF Transferred
    <3> QED BY <3>1, ConstantsTyped
  <2> QED BY <2>1
<1> HIDE DEF q
<1>3. CASE basic # {} /\ sector_idx' = Min(basic)
  <2>1. j.op = "start" /\ basic = {InodeBitmap, DataBitmap, InodeTable} \ D /\ basic \in SUBSET Nat
    BY <1>3 DEF InodeBitmap, DataBitmap, InodeTable
  <2> HIDE DEF basic
  <2>2. sector_idx' \in basic /\ \A y \in basic : sector_idx' <= y
    BY <1>3, <2>1, LeastElement
  <2>3. sector_idx' # 1 => 1 \notin basic
    BY <2>1, <2>2 DEF InodeBitmap, DataBitmap, InodeTable
  <2> QED BY <2>1, <2>2, <2>3 DEF AwaitsBasic, InodeBitmap, DataBitmap, InodeTable
<1>4. CASE basic = {} /\ K = {} /\ sector_idx' = 0
  <2>1. \A i \in ToSet(q) : Lacking(m, D, file_in_memory, j, i) = {}
    <3> SUFFICES ASSUME NEW i \in ToSet(q) PROVE Lacking(m, D, file_in_memory, j, i) = {}
      OBVIOUS
    <3>1. PICK k \in 1..Len(q) : q[k] = i
      BY <1>2, SeqElements
    <3> QED BY <1>4, <3>1 DEF LackingAt
  <2>2. CASE j.op # "start"
    BY <1>4, <2>1, <2>2 DEF Awaits, q
  <2>3. CASE j.op = "start"
    <3>1. q = <<0>>
      BY <2>3 DEF Transferred, q
    <3>2. 0 \in ToSet(q)
      <4>1. q[1] = 0 /\ 1 \in 1..Len(q)
        BY <3>1
      <4> QED BY <1>2, <4>1, SeqElements
    <3>3. Lacking(m, D, file_in_memory, j, 0) = ToSet(transfer(m, 0)) \ D
      BY <2>3 DEF Lacking
    <3>4. {InodeBitmap, DataBitmap, InodeTable} \subseteq D
      BY <1>4, <2>3
    <3> QED BY <1>4, <2>1, <2>3, <3>2, <3>3, <3>4 DEF AwaitsBasic
  <2> QED BY <2>2, <2>3
<1>5. CASE basic = {} /\ K # {} /\ sector_idx' = FirstMissing(transfer(m, q[Min(K)]), D)
  <2>1. sector_idx' \in Blocks /\ \E i \in ToSet(q) : sector_idx' \in Lacking(m, D, file_in_memory, j, i)
    <3> HIDE DEF basic
    <3> QED BY <1>2, <1>5, FirstLacking
  <2>2. CASE j.op # "start"
    BY <2>1, <2>2 DEF Awaits, q
  <2>3. CASE j.op = "start"
    <3>1. q = <<0>>
      BY <2>3 DEF Transferred, q
    <3>2. PICK i \in ToSet(q) : sector_idx' \in Lacking(m, D, file_in_memory, j, i)
      BY <2>1
    <3>3. PICK k \in 1..Len(q) : q[k] = i
      BY <1>2, SeqElements
    <3>4. i = 0
      BY <3>1, <3>3
    <3>5. Lacking(m, D, file_in_memory, j, 0) = ToSet(transfer(m, 0)) \ D
      BY <2>3 DEF Lacking
    <3>6. {InodeBitmap, DataBitmap, InodeTable} \subseteq D
      BY <1>5, <2>3
    <3> QED BY <2>1, <2>3, <3>2, <3>4, <3>5, <3>6 DEF AwaitsBasic
  <2> QED BY <2>2, <2>3
<1> QED BY <1>1, <1>3, <1>4, <1>5

(* The flags that a command sets say the truth. *)
LEMMA FlagTracks ==
    ASSUME NEW m, NEW z, NEW U, NEW D, NEW F, NEW N, NEW E, NEW d, Tracks(m, z, U, D, F, N, E, d),
           NEW j, NEW S, \A i \in S : Lacking(m, D, F, j, i) = {}
    PROVE  Tracks(m, z, U, D, F \cup S, N, E, d)
<1> DEFINE w == Complete(m, z)
<1>1. m \in Image /\ OnDisk(z) /\ BlocksSound(w) /\ Resident(m, z, F) /\ U \subseteq Sectors
  BY DEF Tracks, Sound
<1>2. Live(w) = Live(m)
  BY <1>1, CompleteMembers
<1>3. Resident(m, z, F \cup S)
  <2> SUFFICES ASSUME NEW i \in ((F \cup S) \cap Live(m)) \ {InodeSector}, NEW p \in Places, At(w, i, p) # None
               PROVE  InMemory(m, At(w, i, p))
    BY DEF Resident
  <2>1. CASE i \in F
    BY <1>1, <2>1 DEF Resident
  <2>2. CASE i \notin F
    <3>1. ToSet(transfer(m, i)) \subseteq D /\ i \in Live(m) /\ i \in Inodes
      BY <2>2 DEF Lacking, Live
    <3>2. \A b \in ToSet(transfer(m, i)) : InMemory(m, b)
      <4> SUFFICES ASSUME NEW b \in ToSet(transfer(m, i)) PROVE InMemory(m, b)
        OBVIOUS
      <4>1. b \in Blocks /\ \E r \in Places : At(m, i, r) = b
        BY <1>1, <3>1, TransferElements
      <4>2. PICK r \in Places : At(m, i, r) = b
        BY <4>1
      <4>3. At(w, i, r) = b
        BY <1>1, <3>1, <4>1, <4>2, CompletePlaces, NoneIsNoBlock
      <4>4. Owned(w, b)
        BY <1>2, <3>1, <4>3 DEF Owned
      <4>5. BlockTracks(m, z, D \cup U, N, E, b)
        BY <4>1, <4>4 DEF Tracks
      <4> QED BY <3>1, <4>5 DEF BlockTracks
    <3> QED BY <1>1, <3>1, <3>2, TransferAll
  <2> QED BY <2>1, <2>2
<1>4. \A b \in U \ U : Owned(w, b) => InMemory(m, b)
  OBVIOUS
<1> HIDE DEF w
<1>5. F \subseteq F \cup S /\ U \subseteq U /\ E \subseteq E
  OBVIOUS
<1> QED BY <1>1, <1>3, <1>5, TracksMore

----------------------------------------------------------------------------
(* How many sectors a file has *)

(* The k-th position of a file is one of its places, and used. *)
LEMMA SizePositions ==
    ASSUME NEW m \in Image, NEW i \in Inodes, DenseFile(m, i), NEW k \in Nat, k < get_file_size(m, i)
    PROVE  /\ Position(m, i, k) \in Blocks /\ \E p \in Places : At(m, i, p) = Position(m, i, k)
           /\ k >= INODE_DIRECT_NUM => m.inode[i].indirect \in Blocks
           /\ k = 0 => Position(m, i, k) = m.inode[i].direct[0]
<1> DEFINE d == m.inode[i].direct
           s == Slots(m, i)
           c == Cardinality(Used(d))
           e == Cardinality(Used(s))
           N == INODE_DIRECT_NUM
           M == INDEX_NUM
<1>1. /\ d \in [0..N - 1 -> Slot] /\ s \in [0..M - 1 -> Slot] /\ N \in Nat \ {0} /\ M \in Nat
      /\ m.inode[i].indirect \in Slot
  BY ImageTyped, ConstantsTyped
<1>2. Dense(d) /\ Dense(s)
  BY DEF DenseFile
<1>3. get_file_size(m, i) = c + e
  BY SizeTyped
<1>a. m.inode[i].indirect = None => s = NoSlots
  BY DEF Slots
<1>b. m.inode[i].indirect # None => \A x \in 0..N - 1 : d[x] # None
  BY DEF DenseFile
<1> HIDE DEF d, s, N, M
<1>4. c \in 0..N /\ (\A x \in 0..N - 1 : d[x] # None <=> x < c)
  BY <1>1, <1>2, DenseCount
<1>5. e \in 0..M /\ (\A x \in 0..M - 1 : s[x] # None <=> x < e)
  BY <1>1, <1>2, DenseCount
<1> HIDE DEF c, e
<1>6. e > 0 => m.inode[i].indirect # None
  <2> SUFFICES ASSUME e > 0, m.inode[i].indirect = None PROVE FALSE
    OBVIOUS
  <2>1. 0 \in 0..M - 1 /\ s[0] # None
    BY <1>1, <1>5
  <2> QED BY <1>a, <2>1 DEF NoSlots, M
<1>7. e > 0 => c = N
  <2> SUFFICES ASSUME e > 0 PROVE c = N
    OBVIOUS
  <2>1. N - 1 \in 0..N - 1
    BY <1>1
  <2>2. d[N - 1] # None
    BY <1>6, <1>b, <2>1
  <2>3. N - 1 < c
    BY <1>4, <2>1, <2>2
  <2> QED BY <1>1, <1>4, <2>3
<1>8. k < c + e
  BY <1>3
<1>9. CASE k < N
  <2>1. k < c /\ k \in 0..N - 1
    BY <1>1, <1>4, <1>5, <1>7, <1>8, <1>9
  <2>2. d[k] # None /\ d[k] \in Slot
    BY <1>1, <1>4, <2>1
  <2>3. Position(m, i, k) = d[k]
    BY <1>9 DEF Position, N, d
  <2>4. <<"direct", k>> \in Places /\ At(m, i, <<"direct", k>>) = d[k]
    BY <2>1, AllPlaces DEF N, d
  <2>5. ~(k >= INODE_DIRECT_NUM)
    BY <1>1, <1>9 DEF N
  <2>6. k = 0 => d[k] = m.inode[i].direct[0]
    BY DEF d
  <2> QED BY <2>2, <2>3, <2>4, <2>5, <2>6 DEF Slot
<1>10. CASE ~(k < N)
  <2>1. e > 0 /\ k - N \in 0..M - 1 /\ k - N < e /\ k # 0
    BY <1>1, <1>4, <1>5, <1>7, <1>8, <1>10
  <2>2. s[k - N] # None /\ s[k - N] \in Slot
    BY <1>1, <1>5, <2>1
  <2>3. Position(m, i, k) = s[k - N]
    BY <1>10 DEF Position, N, s
  <2>4. <<"slot", k - N>> \in Places /\ At(m, i, <<"slot", k - N>>) = s[k - N]
    BY <2>1, AllPlaces DEF M, s
  <2>5. m.inode[i].indirect \in Blocks
    BY <1>1, <1>6, <2>1 DEF Slot
  <2> QED BY <2>1, <2>2, <2>3, <2>4, <2>5 DEF Slot
<1> QED BY <1>9, <1>10

----------------------------------------------------------------------------
(* r, d and i *)

(* What file_resize lists are sectors of the file, some of them no longer. *)
LEMMA ListsInRange ==
    ASSUME NEW m \in Image, NEW i \in Inodes, NEW size
    PROVE  /\ file_resize_lists(m, i, size) \subseteq Blocks /\ Blocks \subseteq Sectors
           /\ Switched(m, file_resize(m, i, size).mem) \subseteq file_resize_lists(m, i, size)
           /\ \A b \in file_resize_lists(m, i, size) : \/ b \in Switched(m, file_resize(m, i, size).mem)
                                                       \/ b = m.inode[i].indirect /\ b # None
<1>1. m.inode[i].indirect \in Slot
  BY ImageTyped
<1>2. Indirect(m, i) \subseteq Blocks
  BY <1>1 DEF Indirect, Slot
<1> QED BY <1>2 DEF file_resize_lists, Switched, Sectors, Indirect

(* A file has been resized; X are further sectors listed, and T those that are written. *)
LEMMA ResizeTracks ==
    ASSUME NEW m, NEW z, NEW U, NEW D, NEW F, NEW N, NEW E, NEW d, Tracks(m, z, U, D, F, N, E, d),
           NEW i \in Files(m), IndexHeld(m, i), NEW size \in Nat, NEW m2, m2 = file_resize(m, i, size).mem,
           NEW X, X \subseteq Blocks, \A b \in X : InMemory(m, b), NEW T, T \subseteq Blocks,
           E \subseteq U \cup (file_resize_lists(m, i, size) \cup X), T \subseteq U \cup (file_resize_lists(m, i, size) \cup X)
    PROVE  Tracks(m2, z, U \cup (file_resize_lists(m, i, size) \cup X), D, F, Left(N \cup T, m2),
                  U \cup (file_resize_lists(m, i, size) \cup X), d)
           /\ Resized(m, m2, i) /\ i \in Files(m2) /\ IndexHeld(m2, i)
<1> DEFINE L == file_resize_lists(m, i, size)
           N2 == Left(N \cup T, m2)
           U2 == U \cup (L \cup X)
<1>1. m \in Image /\ i \in Inodes /\ HoldsOnce(m, i) /\ DenseFile(m, i)
  BY TrackedFile
<1>2. Resized(m, m2, i)
  BY <1>1, FileResizes
<1>3. Stays(m, m2, i, L)
  BY <1>1, FileResizeStays
<1>4. /\ L \subseteq Blocks /\ Blocks \subseteq Sectors
      /\ \A b \in L : b \in Switched(m, m2) \/ (b = m.inode[i].indirect /\ b # None)
  BY <1>1, ListsInRange
<1>5. \A b \in Blocks : InMemory(m, b) => InMemory(m2, b)
  BY <1>1, FileResizeMemory
<1> HIDE DEF L
<1>6. U2 = U \cup (L \cup X) /\ U \subseteq Sectors /\ N \subseteq Blocks /\ E \subseteq U2 /\ T \subseteq U2
  BY DEF L, Tracks
<1> HIDE DEF U2
<1>7. \A b \in U2 \ U : b \in Switched(m, m2) \/ InMemory(m2, b)
  <2> SUFFICES ASSUME NEW b \in U2 \ U, b \notin Switched(m, m2) PROVE InMemory(m2, b)
    OBVIOUS
  <2>1. CASE b \in X
    BY <1>5, <2>1
  <2>2. CASE b \in L
    <3>1. b = m.inode[i].indirect /\ b # None /\ b \in Blocks
      BY <1>4, <2>2
    <3> QED BY <1>5, <3>1 DEF IndexHeld
  <2> QED BY <1>6, <2>1, <2>2
<1>8. L \subseteq U2 /\ U \subseteq U2 /\ U2 \subseteq Sectors
  BY <1>4, <1>6
<1>9. N2 \subseteq Blocks /\ (\A b \in N2 : m2.data_bitmap[b]) /\ \A b \in N2 \ N : b \in U2 \/ IsFirstOrIndex(m2, b)
  BY <1>6 DEF Left
<1> HIDE DEF N2
<1>10. Tracks(m2, z, U2, D, F, N2, U2, d)
  BY <1>2, <1>3, <1>6, <1>7, <1>8, <1>9, FileCarried
<1> QED BY <1>2, <1>10, ResizedFile DEF N2, U2, L

(* A file that grows twice keeps what it has and lists what it takes. *)
LEMMA GrowsTwice ==
    ASSUME NEW m \in Image, NEW i \in Inodes, HoldsOnce(m, i), DenseFile(m, i),
           NEW s1 \in Nat, s1 >= get_file_size(m, i), NEW a, a = file_resize(m, i, s1).mem,
           NEW s2 \in Nat, s2 >= get_file_size(a, i), NEW b, b = file_resize(a, i, s2).mem
    PROVE  /\ Resized(m, b, i) /\ Stays(m, b, i, Switched(m, b))
           /\ Stays(m, a, i, Switched(m, a)) /\ a \in Image /\ HoldsOnce(a, i) /\ DenseFile(a, i)
<1>1. Resized(m, a, i)
  BY FileResizes
<1>2. a \in Image /\ HoldsOnce(a, i) /\ DenseFile(a, i)
  BY <1>1 DEF Resized
<1>3. Resized(a, b, i)
  BY <1>2, FileResizes
<1>4. Stays(m, a, i, Switched(m, a)) /\ \A x \in Blocks : m.data_bitmap[x] => a.data_bitmap[x]
  BY FileResizeStays
<1>5. Stays(a, b, i, Switched(a, b)) /\ \A x \in Blocks : a.data_bitmap[x] => b.data_bitmap[x]
  BY <1>2, FileResizeStays
<1>6. Resized(m, b, i)
  BY <1>1, <1>3, ResizedTwice
<1>7. Stays(m, b, i, Switched(m, a) \cup Switched(a, b))
  BY <1>4, <1>5, StaysOn
<1>8. Switched(m, a) \cup Switched(a, b) \subseteq Switched(m, b)
  <2>1. b \in Image /\ \A x \in Blocks : m.data_bitmap[x] \in BOOLEAN /\ a.data_bitmap[x] \in BOOLEAN /\ b.data_bitmap[x] \in BOOLEAN
    BY <1>2, <1>3 DEF Resized, Image
  <2> QED BY <1>4, <1>5, <2>1 DEF Switched
<1>9. Stays(m, b, i, Switched(m, b))
  BY <1>7, <1>8, StaysMore
<1> QED BY <1>2, <1>4, <1>6, <1>9

(* A file has grown; X are further sectors listed, and T those that are written. *)
LEMMA GrowTracks ==
    ASSUME NEW m, NEW z, NEW U, NEW D, NEW F, NEW N, NEW E, NEW d, Tracks(m, z, U, D, F, N, E, d),
           NEW i \in Files(m), IndexHeld(m, i), NEW b, Resized(m, b, i), Stays(m, b, i, Switched(m, b)),
           NEW X, X \subseteq Blocks, \A x \in X : InMemory(b, x), NEW T, T \subseteq Blocks,
           E \subseteq U \cup (Switched(m, b) \cup X),
           \A x \in T : x \in U \cup (Switched(m, b) \cup X) \/ x = b.inode[i].direct[0]
    PROVE  Tracks(b, z, U \cup (Switched(m, b) \cup X), D, F, Left(N \cup T, b), U \cup (Switched(m, b) \cup X), d)
<1> DEFINE U2 == U \cup (Switched(m, b) \cup X)
           N2 == Left(N \cup T, b)
<1>1. U \subseteq Sectors /\ N \subseteq Blocks /\ Blocks \subseteq Sectors
  BY DEF Tracks, Sectors
<1>2. Switched(m, b) \subseteq Blocks
  BY DEF Switched
<1>3. Switched(m, b) \subseteq U2 /\ U \subseteq U2 /\ U2 \subseteq Sectors
  BY <1>1, <1>2
<1>4. \A x \in U2 \ U : x \in Switched(m, b) \/ InMemory(b, x)
  OBVIOUS
<1>5. N2 \subseteq Blocks /\ \A x \in N2 : b.data_bitmap[x]
  BY <1>1 DEF Left
<1>6. \A x \in N2 \ N : x \in U2 \/ IsFirstOrIndex(b, x)
  <2>1. i \in Files(b)
    BY ResizedFile
  <2> QED BY <2>1 DEF IsFirstOrIndex, Left
<1>0. E \subseteq U2
  OBVIOUS
<1> HIDE DEF N2, U2
<1>7. Tracks(b, z, U2, D, F, N2, U2, d)
  BY <1>0, <1>3, <1>4, <1>5, <1>6, FileCarried
<1> QED BY <1>7 DEF N2, U2

----------------------------------------------------------------------------
(* w *)

(* A file has been resized, and nothing is written. *)
LEMMA ResizeOnly ==
    ASSUME NEW m, NEW z, NEW U, NEW D, NEW F, NEW N, NEW E, NEW d, Tracks(m, z, U, D, F, N, E, d),
           NEW i \in Files(m), IndexHeld(m, i), NEW size \in Nat, NEW m2, m2 = file_resize(m, i, size).mem,
           E \subseteq U, NEW U2, U2 = U \cup file_resize_lists(m, i, size)
    PROVE  Tracks(m2, z, U2, D, F, Left(N, m2), U2, d) /\ Resized(m, m2, i) /\ i \in Files(m2) /\ IndexHeld(m2, i)
<1> DEFINE none == {}
           V == U \cup (file_resize_lists(m, i, size) \cup none)
<1>1. V = U2 /\ N \cup none = N
  OBVIOUS
<1>2. none \subseteq Blocks /\ \A b \in none : InMemory(m, b)
  OBVIOUS
<1>4. none \subseteq U \cup (file_resize_lists(m, i, size) \cup none) /\ E \subseteq U \cup (file_resize_lists(m, i, size) \cup none)
  OBVIOUS
<1> HIDE DEF none, V
<1>3. Tracks(m2, z, U \cup (file_resize_lists(m, i, size) \cup none), D, F, Left(N \cup none, m2),
             U \cup (file_resize_lists(m, i, size) \cup none), d)
  BY <1>2, <1>4, ResizeTracks
<1>5. m \in Image /\ i \in Inodes /\ HoldsOnce(m, i) /\ DenseFile(m, i)
  BY TrackedFile
<1>6. Resized(m, m2, i)
  BY <1>5, FileResizes
<1> QED BY <1>1, <1>3, <1>6, ResizedFile DEF V

(* w has emptied and filled file i; first is what make_file_ptr may list. *)
LEMMA TextTracks ==
    ASSUME NEW m, NEW z, NEW U, NEW D, NEW F, NEW N, NEW d, Tracks(m, z, U, D, F, N, {}, d),
           NEW i \in Files(m), IndexHeld(m, i), NEW size \in TextSizes,
           NEW a, a = file_resize(m, i, 0).mem, NEW b, b = file_resize(a, i, size).mem,
           \A j \in Used(b.inode[i].direct) : b.inode[i].direct[j] = b.inode[i].direct[0] + j,
           NEW text, text = Overwrite(m, i, size), NEW first, first \in MaybeFirst(text, i),
           NEW U2, U2 = U \cup file_resize_lists(m, i, 0) \cup file_resize_lists(a, i, size) \cup first,
           NEW N2, N2 = {x \in N \cup ToSet(Prefix(text.inode[i].direct)) : text.data_bitmap[x]}
    PROVE  Tracks(text, z, U2, D, F, N2, U2, d)
<1> DEFINE L1 == file_resize_lists(m, i, 0)
           L2 == file_resize_lists(a, i, size)
           U1 == U \cup L1
           N1 == Left(N, a)
           V  == U1 \cup L2
           Nb == Left(N1, b)
           S  == b.inode[i].direct[0]..b.inode[i].direct[0] + size - 1
<1>b. Nb \subseteq N /\ \A x : x \in Nb <=> x \in N /\ a.data_bitmap[x] /\ b.data_bitmap[x]
  BY DEF Left
<1>c. V = U \cup L1 \cup L2 /\ U \subseteq V /\ U2 = V \cup first
  OBVIOUS
<1>0. size \in Nat /\ 0 \in Nat
  BY FileSystemAssumption DEF TextSizes
<1>1. m \in Image /\ i \in Inodes /\ HoldsOnce(m, i) /\ DenseFile(m, i)
  BY TrackedFile
<1>o. \A j \in Used(b.inode[i].direct) : b.inode[i].direct[j] = b.inode[i].direct[0] + j
  OBVIOUS
<1> HIDE DEF L1, L2, U1, N1, V, Nb, S
<1>2. Tracks(a, z, U1, D, F, N1, U1, d) /\ Resized(m, a, i) /\ i \in Files(a) /\ IndexHeld(a, i)
  <2>1. U1 = U \cup file_resize_lists(m, i, 0) /\ {} \subseteq U
    BY DEF U1, L1
  <2> QED BY <1>0, <2>1, ResizeOnly DEF N1
<1>3. a \in Image /\ HoldsOnce(a, i) /\ DenseFile(a, i)
  BY <1>2 DEF Resized
<1>4. NoBlocks(a, i)
  BY <1>1, ResizedToNothing
<1>5. Resized(a, b, i)
  BY <1>0, <1>1, <1>3, FileResizes
<1>6. b \in Image /\ HoldsOnce(b, i) /\ DenseFile(b, i)
  BY <1>5 DEF Resized
<1>7. Tracks(b, z, V, D, F, Nb, V, d) /\ i \in Files(b) /\ IndexHeld(b, i)
  <2>1. V = U1 \cup file_resize_lists(a, i, size) /\ U1 \subseteq U1
    BY DEF V, L2
  <2>2. Tracks(b, z, V, D, F, Left(N1, b), V, d)
    BY <1>0, <1>2, <2>1, ResizeOnly
  <2> QED BY <1>2, <1>5, <2>2, ResizedFile DEF Nb
<1>8. \A p \in Places : At(b, i, p) # None => At(b, i, p) \in Switched(a, b)
  BY <1>1, <1>3, <1>4, <1>5, GrownIsSwitched
<1>9. Switched(a, b) \subseteq L2 /\ Switched(a, b) \subseteq V
  BY <1>1, <1>3, <1>c, ListsInRange DEF L2
<1>11. \A k \in 0..INODE_DIRECT_NUM - 1 : b.inode[i].direct[k] # None => b.inode[i].direct[k] \in V /\ b.inode[i].direct[k] \in Blocks
  <2>1. \A p \in Places : At(b, i, p) # None => At(b, i, p) \in V
    BY <1>8, <1>9
  <2> QED BY <1>1, <1>6, <2>1, DirectsIn
<1>10. /\ Resized(b, text, i) /\ Stays(b, text, i, V)
       /\ text.data_bitmap = b.data_bitmap /\ text.inode = b.inode
  <2>1. CASE file_resize(a, i, size).ok /\ size > 0
    <3>1. text = Written(b, S)
      BY <2>1 DEF Overwrite, S, Written
    <3>2. InDirects(b, i, S)
      BY <1>1, <1>3, <1>4, <1>o, <2>1, TextIsOwn DEF S
    <3>3. S \subseteq V
      <4> HIDE DEF S, V
      <4> SUFFICES ASSUME NEW x \in S PROVE x \in V
        OBVIOUS
      <4>1. PICK k \in 0..INODE_DIRECT_NUM - 1 : x = b.inode[i].direct[k] /\ x \in Blocks
        BY <3>2 DEF InDirects
      <4> QED BY <1>11, <4>1, NoneIsNoBlock
    <3> HIDE DEF S, V
    <3> QED BY <1>1, <1>6, <3>1, <3>2, <3>3, WrittenStays
  <2>2. CASE ~(file_resize(a, i, size).ok /\ size > 0)
    <3>1. text = b
      BY <2>2 DEF Overwrite
    <3> HIDE DEF V
    <3> QED BY <1>1, <1>6, <3>1, SameResizes, StaysSame
  <2> QED BY <2>1, <2>2
<1>12. first \subseteq V
  <2> HIDE DEF V
  <2>1. 0 \in 0..INODE_DIRECT_NUM - 1 /\ text.inode[i].direct[0] = b.inode[i].direct[0]
    BY <1>10, ConstantsTyped
  <2> QED BY <1>11, <2>1 DEF MaybeFirst
<1>13. U2 = V
  BY <1>12, <1>c
<1>14. ToSet(Prefix(text.inode[i].direct)) \subseteq V /\ ToSet(Prefix(text.inode[i].direct)) \subseteq Blocks
  <2> HIDE DEF V
  <2> DEFINE f == b.inode[i].direct
             n == INODE_DIRECT_NUM
  <2>1. f \in [0..n - 1 -> Slot] /\ n \in Nat
    BY <1>1, <1>6, ImageTyped, ConstantsTyped
  <2>2. text.inode[i].direct = f
    BY <1>10
  <2> HIDE DEF f, n
  <2>3. \A x \in ToSet(Prefix(f)) : x # None /\ \E k \in 0..n - 1 : f[k] = x
    BY <2>1, PrefixElements
  <2>4. \A k \in 0..n - 1 : f[k] # None => f[k] \in V /\ f[k] \in Blocks
    BY <1>11 DEF f, n
  <2> QED BY <2>2, <2>3, <2>4
<1>15. U \subseteq V /\ V \subseteq Sectors /\ N \subseteq Blocks /\ Nb \subseteq N
  <2>1. V \subseteq Sectors
    BY <1>7 DEF Tracks
  <2>2. N \subseteq Blocks
    BY DEF Tracks
  <2> QED BY <2>1, <2>2, <1>b, <1>c
<1>16. ASSUME NEW x \in N2, x \notin Nb PROVE x \in V
  <2>1. CASE x \in ToSet(Prefix(text.inode[i].direct))
    BY <1>14, <2>1
  <2>2. CASE x \in N
    <3>1. b.data_bitmap[x] /\ ~a.data_bitmap[x] /\ x \in Blocks
      BY <1>10, <1>15, <1>16, <1>b, <2>2
    <3>2. a.data_bitmap \in [Blocks -> BOOLEAN] /\ b.data_bitmap \in [Blocks -> BOOLEAN]
      BY <1>1, <1>3, <1>6, ImageTyped
    <3>3. x \in Switched(a, b)
      BY <3>1, <3>2 DEF Switched
    <3> QED BY <1>9, <3>3
  <2> QED BY <2>1, <2>2
<1>17. N2 \subseteq Blocks /\ \A x \in N2 : text.data_bitmap[x]
  BY <1>14, <1>15
<1> HIDE DEF V, Nb
<1>18. \A x \in N2 \ Nb : x \in V \/ IsFirstOrIndex(text, x)
  BY <1>16
<1>19. Tracks(text, z, V, D, F, N2, V, d)
  BY <1>7, <1>10, <1>15, <1>17, <1>18, FileCarried
<1> QED BY <1>13, <1>19

----------------------------------------------------------------------------
(* rm and rmdir *)

(* An inode is off the tree that had at most one sector and listed nothing. *)
LEMMA RemovalCarried ==
    ASSUME NEW m, NEW z, NEW U, NEW D, NEW F, NEW N, NEW E, NEW d, Tracks(m, z, U, D, F, N, E, d),
           NEW e, NEW k, NEW i, Lists(Listing(Complete(m, z)), e, k, i), OnlyFirst(Complete(m, z), i),
           \A l, j : ~Lists(Listing(Complete(m, z)), i, l, j), i # d,
           InMemory(m, m.inode[e].direct[0]),
           NEW m2, Removed(m, m2, e, i, RemoveAt(Children(m, e), k)),
           NEW U2, U \subseteq U2, U2 \subseteq Sectors, E \subseteq U2, m.inode[e].direct[0] \in U2,
           \A b \in U2 \ U : b \in {m.inode[e].direct[0], m.inode[i].direct[0]},
           NEW N2, N2 \subseteq N, \A b \in N2 : m2.data_bitmap[b]
    PROVE  Tracks(m2, z, U2, D, F, N2, U2, d)
<1> DEFINE W == Complete(m, z)
           V == Complete(m2, z)
           x == m.inode[e].direct[0]
<1>1. /\ m \in Image /\ OnDisk(z) /\ Sound(W) /\ Shallow(W) /\ BlocksSound(W) /\ d \in Dirs(m)
      /\ U \subseteq Sectors /\ N \subseteq Blocks
  BY DEF Tracks, Sound
<1>2. /\ W.inode_bitmap = m.inode_bitmap /\ W.data_bitmap = m.data_bitmap /\ W.inode = m.inode
      /\ Live(W) = Live(m) /\ Dirs(W) = Dirs(m)
  BY <1>1, CompleteMembers
<1>3. e \in Dirs(m) /\ e \in Live(m) /\ e \in Inodes
  BY <1>2 DEF Lists, Listing, Dirs, Live
<1>4. x \in Blocks /\ Owned(W, x) /\ At(W, e, <<"direct", 0>>) = x
  <2>1. e \in Dirs(W) /\ W.inode[e].direct[0] = x
    BY <1>2, <1>3
  <2>2. x \in Blocks /\ Owned(W, x)
    BY <1>1, <2>1, OwnedBlocks
  <2>3. At(W, e, <<"direct", 0>>) = W.inode[e].direct[0]
    BY DEF At
  <2> QED BY <2>1, <2>2, <2>3
<1>5. Children(m, e) = Children(W, e)
  BY <1>1, <1>3, <1>4, CompleteChildren
<1>6. m2 \in Image /\ m2.inode = m.inode
  BY DEF Removed
<1>7. /\ Removed(W, V, e, i, RemoveAt(Children(W, e), k))
      /\ InMemory(m2, x) /\ \A b \in Blocks \ {x} : V.sector[b] = W.sector[b]
  BY <1>1, <1>3, <1>4, <1>5, CompleteRemoved
<1>8. /\ V.inode = m.inode /\ Live(V) = Live(m2) /\ Dirs(V) = Dirs(m2)
  BY <1>1, <1>6, CompleteMembers
<1>m. \A b \in Blocks \ {x} : m2.sector[b] = m.sector[b]
  BY DEF Removed
<1>9. x \in U2 /\ \A b \in U2 \ U : b \in {x, m.inode[i].direct[0]}
  OBVIOUS
<1>10. Lists(Listing(W), e, k, i) /\ OnlyFirst(W, i) /\ \A l, j : ~Lists(Listing(W), i, l, j)
  OBVIOUS
<1> HIDE DEF W, V, x
<1>11. /\ Sound(V) /\ Live(V) = Live(W) \ {i} /\ Dirs(V) = Dirs(W) \ {i} /\ e # i
       /\ Children(V, e) = RemoveAt(Children(W, e), k)
       /\ \A f \in Dirs(W) \ {e, i} : Children(V, f) = Children(W, f)
  BY <1>1, <1>7, <1>10, RemovalKeepsSound
<1>12. i \in Live(W)
  <2>1. EntriesLead(Live(W), Listing(W))
    BY <1>1 DEF Sound, TreeOn
  <2> QED BY <1>10, <2>1 DEF Lists, EntriesLead
<1>13. ASSUME NEW f \in Dirs(V) \ {0} PROVE Flat(V, f)
  <2>1. f \in Dirs(W) \ {0} /\ f # i /\ Flat(W, f)
    BY <1>1, <1>11, <1>13 DEF Shallow
  <2>2. CASE f # e
    BY <1>11, <2>1, <2>2 DEF Flat
  <2>3. CASE f = e
    <3> DEFINE ch == Children(W, e)
    <3>1. ch \in Seq(Entry) /\ k \in 1..Len(ch)
      BY <1>1, <1>2, <1>3, <1>10, SoundImage DEF Lists, Listing
    <3>4. Children(V, e) = RemoveAt(ch, k)
      BY <1>11
    <3>3. \A l \in 1..Len(ch) : ch[l].name \in {".", ".."} \/ ch[l].loc \notin Dirs(W)
      BY <2>1, <2>3 DEF Flat
    <3> HIDE DEF ch
    <3>2. /\ RemoveAt(ch, k) \in Seq(Entry) /\ Len(RemoveAt(ch, k)) = Len(ch) - 1 /\ Len(ch) \in Nat
          /\ \A l \in 1..Len(ch) - 1 : RemoveAt(ch, k)[l] = IF l < k THEN ch[l] ELSE ch[l + 1]
      BY <3>1, WithoutElement
    <3>5. \A l \in 1..Len(ch) - 1 : l \in 1..Len(ch) /\ l + 1 \in 1..Len(ch)
      BY <3>2
    <3> QED BY <1>11, <2>3, <3>2, <3>3, <3>4, <3>5 DEF Flat
  <2> QED BY <2>2, <2>3
<1>14. Shallow(V)
  BY <1>1, <1>2, <1>8, <1>13 DEF Shallow
<1>15. ASSUME NEW j \in Live(V), NEW p \in Places PROVE At(V, j, p) = At(W, j, p)
  <2>1. j \in Live(W) /\ j # i /\ j \in Inodes
    BY <1>11, <1>15 DEF Live
  <2>2. W.inode[j].indirect # x
    <3>1. CASE j = e
      BY <1>1, <1>2, <1>3, <1>4, <3>1, OwnedBlocks, NoneIsNoBlock
    <3>2. CASE j # e
      <4>1. At(W, j, <<"indirect", 0>>) = W.inode[j].indirect /\ <<"indirect", 0>> \in Places /\ <<"direct", 0>> \in Places
        BY <1>1, AtIndirect, SoundImage
      <4> QED BY <1>1, <1>2, <1>3, <1>4, <2>1, <3>2, <4>1, NoneIsNoBlock DEF BlocksSound
    <3> QED BY <3>1, <3>2
  <2>3. W.inode[j].indirect # None => W.inode[j].indirect \in Blocks
    BY <1>1, <2>1, OwnedBlocks
  <2>4. Slots(V, j) = Slots(W, j)
    <3>1. V.inode[j].indirect = W.inode[j].indirect
      BY <1>2, <1>8
    <3>2. CASE W.inode[j].indirect = None
      BY <3>1, <3>2 DEF Slots
    <3>3. CASE W.inode[j].indirect # None
      <4>1. V.sector[W.inode[j].indirect] = W.sector[W.inode[j].indirect]
        BY <1>7, <2>2, <2>3, <3>3
      <4> QED BY <3>1, <4>1 DEF Slots
    <3> QED BY <3>2, <3>3
  <2> QED BY <1>2, <1>8, <2>4 DEF At
<1>16. ASSUME NEW j \in Live(m2), NEW p \in Places, At(V, j, p) # None PROVE Carries(m, m2, z, U2, j, p)
  <2>1. j \in Live(m) /\ At(W, j, p) = At(V, j, p) /\ j \in Live(W)
    BY <1>2, <1>8, <1>11, <1>15, <1>16
  <2>2. At(V, j, p) \in Blocks
    BY <1>1, <1>16, <2>1, OwnedBlocks
  <2>3. CASE At(V, j, p) = x
    BY <1>7, <1>9, <2>3 DEF Carries, V
  <2>4. CASE At(V, j, p) # x
    <3>1. m2.sector[At(V, j, p)] = m.sector[At(V, j, p)] /\ m2.inode[j].type = m.inode[j].type
      BY <1>6, <1>m, <2>2, <2>4
    <3> QED BY <2>1, <3>1 DEF Carries, V, W
  <2> QED BY <2>3, <2>4
<1>17. ASSUME NEW b \in U2 \ U, Owned(V, b) PROVE InMemory(m2, b)
  <2>1. CASE b = x
    BY <1>7, <2>1
  <2>2. CASE b # x
    <3>1. b = m.inode[i].direct[0]
      BY <1>9, <2>2
    <3>2. PICK j \in Live(V), p \in Places : At(V, j, p) = b
      BY <1>17 DEF Owned
    <3>3. j \in Live(W) /\ j # i /\ At(W, j, p) = b
      BY <1>11, <1>15, <3>2
    <3>4. At(W, i, <<"direct", 0>>) = b /\ <<"direct", 0>> \in Places
      <4>1. 0 \in 0..INODE_DIRECT_NUM - 1
        BY ConstantsTyped
      <4> QED BY <1>2, <3>1, <4>1, AtDirect
    <3>5. b # None
      BY NoneIsNoBlock, BlockNumbers DEF None, Sectors, BasicSectors, InodeBitmap, DataBitmap, InodeTable, RootBlock
    <3> QED BY <1>1, <1>12, <3>3, <3>4, <3>5 DEF BlocksSound
  <2> QED BY <2>1, <2>2
<1>18. d \in Dirs(m2)
  BY <1>1, <1>2, <1>8, <1>11
<1>19. N2 \subseteq Blocks /\ \A b \in N2 \ N : Owned(V, b) => b \in U2 \/ IsFirstOrIndex(m2, b)
  BY <1>1
<1>20. F \subseteq F \cup {InodeSector}
  OBVIOUS
<1>21. Tracks(m2, z, U2, D, F, N2, U2, d)
  BY <1>6, <1>11, <1>14, <1>16, <1>17, <1>18, <1>19, <1>20, Carried DEF V
<1> QED BY <1>21

(* A file that is emptied lists what it gives up, and nothing else. *)
LEMMA EmptiedLists ==
    ASSUME NEW m \in Image, NEW i \in Inodes, HoldsOnce(m, i), DenseFile(m, i),
           NEW a, a = file_resize(m, i, 0).mem
    PROVE  /\ file_resize_lists(m, i, 0) = Switched(m, a) /\ NoBlocks(a, i) /\ Resized(m, a, i)
           /\ \A b \in Blocks : a.data_bitmap[b] => m.data_bitmap[b]
<1>0. 0 \in Nat /\ 0 <= Capacity
  BY ConstantsTyped DEF Capacity
<1>1. NoBlocks(a, i)
  BY ResizedToNothing
<1>2. Accounts(m, a, i)
  BY <1>0, FileResizeAccounts
<1>3. Resized(m, a, i)
  BY <1>0, FileResizes
<1>4. \A p \in Places : At(a, i, p) = None
  BY <1>1, NoBlockAt
<1>5. \A b \in Blocks : a.data_bitmap[b] => m.data_bitmap[b] /\ \A r \in Places : At(m, i, r) # b
  BY <1>2, <1>4, NoneIsNoBlock DEF Accounts
<1>6. m.inode[i].indirect # None => m.inode[i].indirect \in Switched(m, a)
  <2>1. m.inode[i].indirect # None => m.inode[i].indirect \in Blocks /\ m.data_bitmap[m.inode[i].indirect]
    BY HeldPlaces
  <2>2. At(m, i, <<"indirect", 0>>) = m.inode[i].indirect /\ <<"indirect", 0>> \in Places
    BY AtIndirect
  <2>3. m.inode[i].indirect # None => ~a.data_bitmap[m.inode[i].indirect]
    BY <1>5, <2>1, <2>2
  <2> QED BY <2>1, <2>3 DEF Switched
<1>7. /\ Switched(m, a) \subseteq file_resize_lists(m, i, 0)
      /\ \A b \in file_resize_lists(m, i, 0) : b \in Switched(m, a) \/ (b = m.inode[i].indirect /\ b # None)
  BY ListsInRange
<1> QED BY <1>1, <1>3, <1>5, <1>6, <1>7

\* Then memory goes with the disk as before, if directory e and the sectors given up are listed.
FileOff(m, z, U, D, F, N, d, new, e, k, i) ==
    /\ Tracks(new, z, U \cup ({m.inode[e].direct[0]} \cup Switched(m, new)), D, F, Left(N, new),
              U \cup ({m.inode[e].direct[0]} \cup Switched(m, new)), d)
    /\ Deleted(m, z, new, e, k, i)

(* file_delete takes a file off the tree. *)
LEMMA FileGone ==
    ASSUME NEW m, NEW z, NEW U, NEW D, NEW F, NEW N, NEW E, NEW d, Tracks(m, z, U, D, F, N, E, d), E \subseteq U,
           NEW e, NEW k, NEW i \in Files(m), IndexHeld(m, i), Lists(Listing(Complete(m, z)), e, k, i),
           InMemory(m, m.inode[e].direct[0]),
           NEW new, new = file_delete(m, e, k)
    PROVE  FileOff(m, z, U, D, F, N, d, new, e, k, i)
<1> DEFINE a  == file_resize(m, i, 0).mem
           U2 == U \cup ({m.inode[e].direct[0]} \cup Switched(m, new))
           U1 == U \cup file_resize_lists(m, i, 0)
           x  == m.inode[e].direct[0]
<1>0. 0 \in Nat
  OBVIOUS
<1>1. m \in Image /\ i \in Inodes /\ HoldsOnce(m, i) /\ DenseFile(m, i) /\ i \notin Dirs(m)
  BY TrackedFile
<1>2. /\ OnDisk(z) /\ Sound(Complete(m, z)) /\ BlocksSound(Complete(m, z)) /\ d \in Dirs(m)
      /\ U \subseteq Sectors /\ N \subseteq Blocks
  BY DEF Tracks, Sound
<1>3. file_resize_lists(m, i, 0) = Switched(m, a) /\ NoBlocks(a, i) /\ Resized(m, a, i)
      /\ \A b \in Blocks : a.data_bitmap[b] => m.data_bitmap[b]
  BY <1>1, EmptiedLists
<1>4. Tracks(a, z, U1, D, F, Left(N, a), U1, d)
  BY <1>0, ResizeOnly
<1>5. \A b \in Blocks : InMemory(m, b) => InMemory(a, b)
  BY <1>0, <1>1, FileResizeMemory
<1>6. e \in Dirs(m) /\ e \in Inodes /\ k \in 1..Len(Children(Complete(m, z), e)) /\ Children(Complete(m, z), e)[k].loc = i
  <2>1. Dirs(Complete(m, z)) = Dirs(m)
    BY <1>1, <1>2, CompleteMembers
  <2> QED BY <2>1 DEF Lists, Listing, Dirs, Live
<1>7. x \in Blocks
  <2>1. Dirs(Complete(m, z)) = Dirs(m) /\ Complete(m, z).inode = m.inode
    BY <1>1, <1>2, CompleteMembers
  <2> QED BY <1>2, <1>6, <2>1, SoundImage
<1>8. Children(m, e) = Children(Complete(m, z), e)
  BY <1>1, <1>2, <1>6, <1>7, CompleteChildren
<1>9. new = RemoveEntry([a EXCEPT !.inode_bitmap[i] = FALSE], e, k)
  BY <1>6, <1>8 DEF file_delete
<1>s. file_resize_lists(m, i, 0) \subseteq Blocks /\ Blocks \subseteq Sectors
  BY <1>1, ListsInRange
<1>u. U1 = U \cup Switched(m, a)
  BY <1>3
<1> HIDE DEF a, U1
<1>10. a \in Image /\ e # i /\ a.inode[e] = m.inode[e] /\ \A j \in Inodes \ {i} : a.inode[j] = m.inode[j]
  BY <1>1, <1>3, <1>6 DEF Resized
<1>11. /\ Listing(Complete(a, z)) = Listing(Complete(m, z)) /\ Live(a) = Live(m) /\ Dirs(a) = Dirs(m)
       /\ Complete(a, z).inode = a.inode
  <2>1. Resized(Complete(m, z), Complete(a, z), i)
    BY <1>1, <1>2, <1>3, CompleteResized
  <2>2. /\ Live(Complete(m, z)) = Live(m) /\ Dirs(Complete(m, z)) = Dirs(m)
        /\ Live(Complete(a, z)) = Live(a) /\ Dirs(Complete(a, z)) = Dirs(a) /\ Complete(a, z).inode = a.inode
    BY <1>1, <1>2, <1>10, CompleteMembers
  <2>3. i \in Live(Complete(m, z)) \ Dirs(Complete(m, z))
    BY <2>2 DEF Files
  <2>4. /\ Live(Complete(a, z)) = Live(Complete(m, z)) /\ Dirs(Complete(a, z)) = Dirs(Complete(m, z))
        /\ Listing(Complete(a, z)) = Listing(Complete(m, z))
    BY <1>2, <2>1, <2>3, ResizeKeepsSound
  <2> QED BY <2>2, <2>4
<1>12. \A f \in Dirs(m) : Children(Complete(a, z), f) = Children(Complete(m, z), f)
  <2>1. Dirs(Complete(m, z)) = Dirs(m) /\ Dirs(Complete(a, z)) = Dirs(m)
    BY <1>1, <1>2, <1>10, <1>11, CompleteMembers
  <2>2. \A f \in Dirs(m) : Listing(Complete(a, z))[f] = Children(Complete(a, z), f) /\ Listing(Complete(m, z))[f] = Children(Complete(m, z), f)
    BY <2>1 DEF Listing
  <2> QED BY <1>11, <2>2
<1>13. a.inode[e].direct[0] = x /\ a.inode[i].direct[0] = None
  BY <1>3, <1>10, ConstantsTyped DEF NoBlocks
<1>14. InMemory(a, x)
  BY <1>5, <1>7
<1>15. Children(a, e) = Children(Complete(a, z), e)
  BY <1>2, <1>6, <1>7, <1>10, <1>13, <1>14, CompleteChildren
<1>16. k \in 1..Len(Children(a, e)) /\ Children(a, e) \in Seq(Entry)
  <2>1. BlocksSound(Complete(a, z))
    BY <1>4 DEF Tracks, Sound
  <2>2. Dirs(Complete(a, z)) = Dirs(a)
    BY <1>2, <1>10, CompleteMembers
  <2>3. Children(Complete(a, z), e) \in Seq(Entry)
    BY <1>6, <1>11, <2>1, <2>2, SoundImage
  <2> QED BY <1>6, <1>12, <1>15, <2>3
<1>17. Removed(a, new, e, i, RemoveAt(Children(a, e), k))
  <2> DEFINE y    == [a EXCEPT !.inode_bitmap[i] = FALSE]
             bits == a.data_bitmap
  <2>1. bits \in [Blocks -> BOOLEAN]
    BY <1>1, <1>10, ImageTyped
  <2>2. y = [inode_bitmap |-> [a.inode_bitmap EXCEPT ![i] = FALSE], data_bitmap |-> bits,
             inode |-> a.inode, sector |-> a.sector]
    BY <1>10, InodeFreed
  <2>3. new = RemoveEntry(y, e, k)
    BY <1>9
  <2>4. \A b \in Blocks : bits[b] <=> a.data_bitmap[b] /\ b # a.inode[i].direct[0]
    BY <1>13, NoneIsNoBlock
  <2>5. a.inode[e].direct[0] \in Blocks /\ a \in Image /\ e \in Inodes /\ i \in Inodes
    BY <1>1, <1>6, <1>7, <1>10, <1>13
  <2> HIDE DEF y, bits
  <2>6. Removed(a, RemoveEntry(y, e, k), e, i, RemoveAt(Children(a, e), k))
    BY ONLY <1>16, <2>1, <2>2, <2>4, <2>5, EntryRemoved
  <2> QED BY <2>3, <2>6
<1>18. /\ new \in Image /\ new.inode = a.inode /\ \A b \in Blocks : new.data_bitmap[b] <=> a.data_bitmap[b]
       /\ \A b \in Blocks \ {x} : new.sector[b] = a.sector[b]
  BY <1>13, <1>17, NoneIsNoBlock DEF Removed
<1>19. a.data_bitmap \in [Blocks -> BOOLEAN] /\ new.data_bitmap \in [Blocks -> BOOLEAN] /\ m.data_bitmap \in [Blocks -> BOOLEAN]
  BY <1>1, <1>10, <1>18, ImageTyped
<1>20. new.data_bitmap = a.data_bitmap
  BY <1>18, <1>19
<1>21. Switched(m, new) = Switched(m, a) /\ Left(N, new) = Left(N, a)
  BY <1>20 DEF Switched, Left
<1>22. OnlyFirst(Complete(a, z), i)
  <2>1. \A p \in Places : At(a, i, p) = None
    BY <1>3, NoBlockAt
  <2>2. i \in Files(a) /\ IndexHeld(a, i)
    BY <1>3, ResizedFile
  <2>3. \A p \in Places : At(Complete(a, z), i, p) = At(a, i, p)
    BY <1>4, <2>2, TrackedFile
  <2> QED BY <2>1, <2>3 DEF OnlyFirst
<1>23. \A l, j : ~Lists(Listing(Complete(a, z)), i, l, j)
  <2>1. DOMAIN Listing(Complete(a, z)) = Dirs(m)
    <3>1. Dirs(Complete(a, z)) = Dirs(m)
      BY <1>2, <1>10, <1>11, CompleteMembers
    <3> QED BY <3>1 DEF Listing
  <2> QED BY <1>1, <2>1 DEF Lists
<1>24. InMemory(a, a.inode[e].direct[0])
  BY <1>13, <1>14
<1>25. /\ U1 \subseteq U2 /\ U2 \subseteq Sectors /\ a.inode[e].direct[0] \in U2
       /\ \A b \in U2 \ U1 : b \in {a.inode[e].direct[0], a.inode[i].direct[0]}
  BY <1>2, <1>3, <1>7, <1>13, <1>s, <1>u, <1>21
<1>26. Left(N, new) \subseteq Left(N, a) /\ \A b \in Left(N, new) : new.data_bitmap[b]
  BY <1>21 DEF Left
<1>27. i # d
  BY <1>1, <1>2
<1>28. Lists(Listing(Complete(a, z)), e, k, i)
  BY <1>11
<1> DEFINE M  == Left(N, new)
           ch == RemoveAt(Children(a, e), k)
<1>r. Removed(a, new, e, i, ch) /\ M \subseteq Left(N, a) /\ \A b \in M : new.data_bitmap[b]
  BY <1>17, <1>26
<1>q. U1 \subseteq U2 /\ U2 \subseteq Sectors /\ a.inode[e].direct[0] \in U2
  BY <1>25
<1> HIDE DEF M, U2
<1>t. Tracks(new, z, U2, D, F, M, U2, d)
  BY ONLY <1>4, <1>r, <1>22, <1>23, <1>24, <1>25, <1>q, <1>27, <1>28, RemovalCarried
<1>v. OffTree(a, new, z, e, k, i)
  <2>1. OnDisk(z) /\ Sound(Complete(a, z))
    BY <1>4 DEF Tracks
  <2> QED BY ONLY <1>10, <1>r, <1>22, <1>23, <1>24, <1>28, <2>1, RemovalOffTree
<1>z. Tracks(new, z, U2, D, F, Left(N, new), U2, d)
  BY <1>t DEF M
<1>30. \A b \in Blocks : InMemory(m, b) => InMemory(new, b)
  <2>1. InMemory(new, x)
    BY <1>13, <1>17, Kinds DEF Removed, InMemory
  <2> QED BY <1>5, <1>18, <2>1 DEF InMemory
<1>31. Deleted(m, z, new, e, k, i)
  BY <1>1, <1>3, <1>6, <1>10, <1>11, <1>12, <1>18, <1>19, <1>v, <1>30 DEF Deleted, OffTree
<1> QED BY <1>z, <1>31 DEF FileOff, U2

(* A directory that lists nothing goes. *)
LEMMA DirectoryCarried ==
    ASSUME NEW m, NEW z, NEW U, NEW D, NEW F, NEW N, NEW E, NEW d, Tracks(m, z, U, D, F, N, E, d), E \subseteq U,
           NEW k, NEW i \in Dirs(m), Lists(Listing(Complete(m, z)), d, k, i),
           \A l \in 1..Len(Children(Complete(m, z), i)) : Children(Complete(m, z), i)[l].name \in {".", ".."},
           InMemory(m, m.inode[d].direct[0]), m.inode[d].direct[0] \in U, m.inode[i].direct[0] \in U,
           NEW new, new = DirectoryGone(m, d, k, i)
    PROVE  /\ Tracks(new, z, U, D, F, Left(N, new), U, d)
           /\ \A b \in Blocks : new.data_bitmap[b] <=> m.data_bitmap[b] /\ b # m.inode[i].direct[0]
           /\ \A b \in Blocks : new.data_bitmap[b] \in BOOLEAN
<1> DEFINE W == Complete(m, z)
<1>1. /\ m \in Image /\ OnDisk(z) /\ Sound(W) /\ BlocksSound(W) /\ d \in Dirs(m) /\ U \subseteq Sectors
  BY DEF Tracks, Sound
<1>2. Live(W) = Live(m) /\ Dirs(W) = Dirs(m) /\ W.inode = m.inode
  BY <1>1, CompleteMembers
<1>3. i \in Inodes /\ d \in Inodes
  BY <1>1 DEF Dirs, Live
<1>4. m.inode[d].direct[0] \in Blocks /\ m.inode[i].direct[0] \in Blocks
  BY <1>1, <1>2, SoundImage
<1>5. Children(m, d) = Children(W, d)
  BY <1>1, <1>3, <1>4, CompleteChildren
<1>6. Children(m, d) \in Seq(Entry) /\ k \in 1..Len(Children(m, d))
  BY <1>1, <1>2, <1>5, SoundImage DEF Lists, Listing
<1>7. \A l, j : ~Lists(Listing(W), i, l, j)
  BY DEF Lists, Listing
<1>8. i # d
  <2>1. TreeOn(Live(W), Listing(W))
    BY <1>1 DEF Sound
  <2> QED BY <2>1, ListsOther
<1>9. OnlyFirst(W, i)
  <2>1. i \in Inodes \ (Live(W) \ Dirs(W))
    BY <1>2, <1>3
  <2> QED BY <1>1, <2>1 DEF BlocksSound
<1>10. Removed(m, new, d, i, RemoveAt(Children(m, d), k))
  <2> DEFINE y    == [m EXCEPT !.inode_bitmap[i] = FALSE, !.data_bitmap[m.inode[i].direct[0]] = FALSE]
             bits == [m.data_bitmap EXCEPT ![m.inode[i].direct[0]] = FALSE]
  <2>1. m.data_bitmap \in [Blocks -> BOOLEAN]
    BY <1>1, <1>3, ImageTyped
  <2>2. bits \in [Blocks -> BOOLEAN] /\ \A b \in Blocks : bits[b] <=> m.data_bitmap[b] /\ b # m.inode[i].direct[0]
    BY <1>4, <2>1
  <2>3. y = [inode_bitmap |-> [m.inode_bitmap EXCEPT ![i] = FALSE], data_bitmap |-> bits,
             inode |-> m.inode, sector |-> m.sector]
    BY <1>1, InodeFreed
  <2>4. new = RemoveEntry(y, d, k)
    BY DEF DirectoryGone
  <2> HIDE DEF y, bits
  <2>5. Removed(m, RemoveEntry(y, d, k), d, i, RemoveAt(Children(m, d), k))
    BY ONLY <1>1, <1>3, <1>4, <1>6, <2>2, <2>3, EntryRemoved
  <2> QED BY <2>4, <2>5
<1>11. /\ new \in Image /\ \A b \in Blocks : new.data_bitmap[b] <=> m.data_bitmap[b] /\ b # m.inode[i].direct[0]
  BY <1>10 DEF Removed
<1>12. new.data_bitmap \in [Blocks -> BOOLEAN]
  BY <1>3, <1>11, ImageTyped
<1> DEFINE ch == RemoveAt(Children(m, d), k)
           M  == Left(N, new)
<1>13. Removed(m, new, d, i, ch) /\ M \subseteq N /\ \A b \in M : new.data_bitmap[b]
  BY <1>10 DEF Left
<1>14. U \subseteq U /\ \A b \in U \ U : b \in {m.inode[d].direct[0], m.inode[i].direct[0]}
  OBVIOUS
<1>15. Lists(Listing(W), d, k, i)
  OBVIOUS
<1> HIDE DEF M
<1>16. Tracks(new, z, U, D, F, M, U, d)
  BY <1>1, <1>7, <1>8, <1>9, <1>13, <1>14, <1>15, RemovalCarried
<1>17. Tracks(new, z, U, D, F, Left(N, new), U, d)
  BY <1>16 DEF M
<1> QED BY <1>11, <1>12, <1>17

\* Where the deletion of directory i may have got to after n steps.
Emptying(m, z, U, D, F, N, d, k, i, x, n) ==
    /\ Tracks(x, z, U \cup Switched(m, x), D, F, Left(N, x), U \cup Switched(m, x), d)
    /\ OnlyClears(m, x) /\ InDirectory(m, x, z, d, k, i) /\ Cardinality(Live(x)) + n <= INODE_NUM

\* new is x without the first file of i.
EmptyingOn(m, z, U, D, F, N, d, k, i, x, new, n) ==
    /\ Emptying(m, z, U, D, F, N, d, k, i, new, n + 1)
    /\ x.inode[Children(x, i)[NextEntry(Children(x, i))].loc].type = File

(* The next file goes. *)
LEMMA EmptyingFile ==
    ASSUME NEW m, NEW z, NEW U, NEW D, NEW F, NEW N, N \subseteq Blocks, NEW d, NEW k, NEW i, NEW x, NEW n \in Nat,
           Emptying(m, z, U, D, F, N, d, k, i, x, n), m.inode[i].direct[0] \in U,
           NextEntry(Children(x, i)) # 0,
           NEW new, new = file_delete(x, i, NextEntry(Children(x, i)))
    PROVE  EmptyingOn(m, z, U, D, F, N, d, k, i, x, new, n)
<1> DEFINE W == Complete(x, z)
           V == Complete(new, z)
           j == NextEntry(Children(x, i))
           Y == U \cup Switched(m, x)
           f == Children(x, i)[j].loc
           db == m.inode[i].direct[0]
<1>1. /\ Tracks(x, z, Y, D, F, Left(N, x), Y, d) /\ OnlyClears(m, x) /\ InDirectory(m, x, z, d, k, i)
      /\ Cardinality(Live(x)) + n <= INODE_NUM
  BY DEF Emptying
<1>2. x \in Image /\ OnDisk(z) /\ Sound(W) /\ BlocksSound(W) /\ d \in Dirs(x) /\ i \in Dirs(x)
  BY <1>1 DEF Tracks, Sound, InDirectory
<1>3. Live(W) = Live(x) /\ Dirs(W) = Dirs(x) /\ W.inode = x.inode
  BY <1>2, CompleteMembers
<1>4. i \in Inodes /\ x.inode[i] = m.inode[i] /\ db \in Blocks /\ InMemory(x, db)
  BY <1>1, <1>2, <1>3, SoundImage DEF Dirs, Live, InDirectory
<1>5. Children(x, i) = Children(W, i)
  BY <1>2, <1>4, CompleteChildren
<1>6. Children(x, i) \in Seq(Entry)
  BY <1>2, <1>3, <1>5, SoundImage
<1>7. j \in 1..Len(Children(x, i)) /\ Children(x, i)[j].name \notin {".", ".."}
  BY <1>6, NextEntryFound
<1>8. f \in Files(x) /\ IndexHeld(x, f)
  <2>1. \A l \in 1..Len(Children(W, i)) : Children(W, i)[l].name \in {".", ".."}
                                            \/ (Children(W, i)[l].loc \in Files(x) /\ IndexHeld(x, Children(W, i)[l].loc))
    BY <1>1 DEF InDirectory
  <2> QED BY <1>5, <1>7, <2>1
<1>9. Lists(Listing(W), i, j, f)
  BY <1>2, <1>3, <1>5, <1>7 DEF Lists, Listing
<1>10. x.inode[f].type = File
  <2>1. f \in Inodes /\ f \in Live(x) /\ f \notin Dirs(x)
    BY <1>8 DEF Files, Live
  <2>2. x.inode[f].type \in {File, Directory}
    BY <1>2, <2>1, ImageTyped
  <2> QED BY <2>1, <2>2 DEF Dirs
<1> DEFINE Z == Y \cup ({x.inode[i].direct[0]} \cup Switched(x, new))
<1>11. new = file_delete(x, i, j) /\ InMemory(x, x.inode[i].direct[0]) /\ Y \subseteq Y
  BY <1>4
<1> HIDE DEF j, f, Y
<1> DEFINE P == Left(N, x)
<1>p. Tracks(x, z, Y, D, F, P, Y, d)
  BY <1>1
<1> HIDE DEF P
<1>o. FileOff(x, z, Y, D, F, P, d, new, i, j, f)
  BY <1>p, <1>8, <1>9, <1>11, FileGone
<1> USE DEF P
<1>12. Tracks(new, z, Z, D, F, Left(Left(N, x), new), Z, d)
  BY <1>o DEF FileOff, Z
<1>13. Deleted(x, z, new, i, j, f)
  BY <1>o DEF FileOff
<1>14. /\ Live(new) = Live(x) \ {f} /\ Dirs(new) = Dirs(x) \ {f} /\ i # f
       /\ Children(V, i) = RemoveAt(Children(W, i), j)
       /\ \A e \in Dirs(x) \ {i, f} : Children(V, e) = Children(W, e)
       /\ \A e \in Inodes \ {f} : new.inode[e] = x.inode[e]
       /\ \A b \in Blocks : InMemory(x, b) => InMemory(new, b)
       /\ \A b \in Blocks : new.data_bitmap[b] => x.data_bitmap[b]
       /\ \A b \in Blocks : x.data_bitmap[b] \in BOOLEAN /\ new.data_bitmap[b] \in BOOLEAN
  BY <1>13 DEF Deleted
<1>15. OnlyClears(m, new)
  BY <1>1, <1>14 DEF OnlyClears
<1>16. Switched(m, x) \cup Switched(x, new) = Switched(m, new) /\ Left(Left(N, x), new) = Left(N, new)
  <2>1. OnlyClears(x, new)
    BY <1>14 DEF OnlyClears
  <2>2. Switched(m, x) \cup Switched(x, new) = Switched(m, new)
    BY ONLY <1>1, <2>1, ClearedOn
  <2>3. Left(Left(N, x), new) = Left(N, new)
    BY <2>1, LeftOn
  <2> QED BY <2>2, <2>3
<1>17. Z = U \cup Switched(m, new)
  BY <1>4, <1>16 DEF Y
<1> HIDE DEF Z
<1>18. Tracks(new, z, U \cup Switched(m, new), D, F, Left(N, new), U \cup Switched(m, new), d)
  BY <1>12, <1>16, <1>17
<1>19. new \in Image /\ Sound(V) /\ BlocksSound(V)
  BY <1>18 DEF Tracks, Sound
<1>20. Live(V) = Live(new) /\ Dirs(V) = Dirs(new) /\ V.inode = new.inode
  BY <1>2, <1>19, CompleteMembers
<1>21. f \in Live(x) /\ f \notin Dirs(x) /\ d # i /\ d # f /\ d \in Inodes /\ i \in Dirs(new) /\ d \in Dirs(new)
  BY <1>1, <1>2, <1>8, <1>14 DEF Files, InDirectory, Dirs, Live
<1>22. Lists(Listing(V), d, k, i)
  <2>1. Lists(Listing(W), d, k, i)
    BY <1>1 DEF InDirectory
  <2>2. Children(V, d) = Children(W, d)
    BY <1>2, <1>14, <1>21
  <2>3. Listing(V)[d] = Children(V, d) /\ Listing(W)[d] = Children(W, d) /\ d \in DOMAIN Listing(V)
    BY <1>2, <1>3, <1>20, <1>21 DEF Listing
  <2> QED BY <2>1, <2>2, <2>3 DEF Lists
<1>23. new.inode[d] = m.inode[d] /\ new.inode[i] = m.inode[i]
  BY <1>1, <1>4, <1>14, <1>21 DEF InDirectory
<1>24. InMemory(new, m.inode[d].direct[0]) /\ InMemory(new, db)
  <2>1. m.inode[d].direct[0] \in Blocks /\ InMemory(x, m.inode[d].direct[0])
    BY <1>1, <1>2, <1>3, SoundImage DEF InDirectory
  <2> QED BY <1>4, <1>14, <2>1
<1>25. ASSUME NEW l \in 1..Len(Children(V, i)), Children(V, i)[l].name \notin {".", ".."}
       PROVE  Children(V, i)[l].loc \in Files(new) /\ IndexHeld(new, Children(V, i)[l].loc)
  <2> DEFINE ch == Children(W, i)
             g  == Children(V, i)[l].loc
  <2>1. ch \in Seq(Entry) /\ j \in 1..Len(ch)
    BY <1>5, <1>6, <1>7 DEF j
  <2>2. Children(V, i) = RemoveAt(ch, j)
    BY <1>14
  <2> HIDE DEF ch
  <2>3. /\ Len(RemoveAt(ch, j)) = Len(ch) - 1 /\ Len(ch) \in Nat
        /\ \A a \in 1..Len(ch) - 1 : RemoveAt(ch, j)[a] = IF a < j THEN ch[a] ELSE ch[a + 1]
    BY <2>1, WithoutElement
  <2>4. l \in 1..Len(ch) - 1
    BY <2>2, <2>3
  <2>5. \E a \in 1..Len(ch) : Children(V, i)[l] = ch[a]
    BY <2>1, <2>2, <2>3, <2>4
  <2>6. PICK a \in 1..Len(ch) : Children(V, i)[l] = ch[a]
    BY <2>5
  <2>7. g \in Files(x) /\ IndexHeld(x, g)
    BY <1>1, <1>25, <2>6 DEF InDirectory, ch
  <2>8. g \in Live(new)
    <3>1. Lists(Listing(V), i, l, g)
      BY <1>20, <1>21, <1>25 DEF Lists, Listing
    <3>2. TreeOn(Live(V), Listing(V))
      BY <1>19 DEF Sound
    <3> QED BY <1>20, <3>1, <3>2, ListsOther
  <2>9. g \in Inodes /\ g # f /\ g \notin Dirs(x) /\ new.inode[g] = x.inode[g]
    BY <1>14, <2>7, <2>8 DEF Files, Live
  <2>10. g \in Files(new)
    BY <1>14, <2>8, <2>9 DEF Files
  <2>11. x.inode[g].indirect \in Slot
    BY <1>2, <2>9, ImageTyped
  <2>12. IndexHeld(new, g)
    BY <1>14, <2>7, <2>9, <2>11 DEF IndexHeld, Slot
  <2> QED BY <2>10, <2>12
<1>26. InDirectory(m, new, z, d, k, i)
  BY <1>21, <1>22, <1>23, <1>24, <1>25 DEF InDirectory
<1>27. Cardinality(Live(new)) + (n + 1) <= INODE_NUM
  <2>1. IsFiniteSet(Live(x))
    BY ConstantsTyped, FS_Subset DEF Live
  <2>2. Cardinality(Live(x) \ {f}) = Cardinality(Live(x)) - 1 /\ Cardinality(Live(x)) \in Nat
    BY <1>21, <2>1, FS_RemoveElement, FS_CardinalityType
  <2> QED BY <1>1, <1>14, <2>2, ConstantsTyped
<1> QED BY <1>10, <1>15, <1>18, <1>26, <1>27 DEF Emptying, EmptyingOn, f, j

\* The directory is deleted.
DirEmptied(m, z, U, D, F, N, d, i, x) ==
    /\ Tracks(x, z, U \cup Switched(m, x), D, F, Left(N, x), U \cup Switched(m, x), d)
    /\ OnlyClears(m, x) /\ ~x.data_bitmap[m.inode[i].direct[0]]

(* Nothing but the directory is left. *)
LEMMA EmptyingEnds ==
    ASSUME NEW m, NEW z, NEW U, NEW D, NEW F, NEW N, N \subseteq Blocks, NEW d, NEW k, NEW i, NEW x, NEW n,
           Emptying(m, z, U, D, F, N, d, k, i, x, n), m.inode[d].direct[0] \in U, m.inode[i].direct[0] \in U,
           NextEntry(Children(x, i)) = 0,
           NEW new, new = DirectoryGone(x, d, k, i)
    PROVE  DirEmptied(m, z, U, D, F, N, d, i, new)
<1> DEFINE W == Complete(x, z)
           Y == U \cup Switched(m, x)
           P == Left(N, x)
<1>1. /\ Tracks(x, z, Y, D, F, P, Y, d) /\ OnlyClears(m, x) /\ InDirectory(m, x, z, d, k, i)
  BY DEF Emptying
<1>2. x \in Image /\ OnDisk(z) /\ BlocksSound(W) /\ d \in Dirs(x) /\ i \in Dirs(x) /\ i \in Inodes
  BY <1>1 DEF Tracks, Sound, InDirectory, Dirs, Live
<1>3. Dirs(W) = Dirs(x) /\ W.inode = x.inode
  BY <1>2, CompleteMembers
<1>4. x.inode[i] = m.inode[i] /\ x.inode[d] = m.inode[d] /\ InMemory(x, m.inode[i].direct[0]) /\ InMemory(x, x.inode[d].direct[0])
      /\ Lists(Listing(W), d, k, i)
  BY <1>1 DEF InDirectory
<1>5. m.inode[i].direct[0] \in Blocks
  BY <1>2, <1>3, <1>4, SoundImage
<1>6. Children(x, i) = Children(W, i)
  BY <1>2, <1>4, <1>5, CompleteChildren
<1>7. Children(W, i) \in Seq(Entry)
  BY <1>2, <1>3, SoundImage
<1>8. \A l \in 1..Len(Children(W, i)) : Children(W, i)[l].name \in {".", ".."}
  BY <1>6, <1>7, NextEntryFound
<1>9. x.inode[d].direct[0] \in Y /\ x.inode[i].direct[0] \in Y /\ Y \subseteq Y
  BY <1>4
<1> HIDE DEF P, Y, W
<1>10. /\ Tracks(new, z, Y, D, F, Left(P, new), Y, d)
       /\ \A b \in Blocks : new.data_bitmap[b] <=> x.data_bitmap[b] /\ b # x.inode[i].direct[0]
       /\ \A b \in Blocks : new.data_bitmap[b] \in BOOLEAN
  BY <1>1, <1>2, <1>4, <1>8, <1>9, DirectoryCarried DEF W
<1>11. OnlyClears(x, new) /\ Switched(x, new) \subseteq U
  <2>1. \A b \in Blocks : x.data_bitmap[b] \in BOOLEAN
    BY <1>1 DEF OnlyClears
  <2>2. OnlyClears(x, new)
    BY <1>10, <2>1 DEF OnlyClears
  <2>3. ASSUME NEW b \in Blocks, new.data_bitmap[b] # x.data_bitmap[b] PROVE b = x.inode[i].direct[0]
    BY <1>10, <2>1, <2>3
  <2> QED BY <1>4, <2>2, <2>3 DEF Switched
<1>12. Switched(m, x) \cup Switched(x, new) = Switched(m, new) /\ OnlyClears(m, new)
  BY <1>1, <1>11, ClearedOn
<1>13. Left(P, new) = Left(N, new)
  BY <1>11, LeftOn DEF P
<1>14. Y = U \cup Switched(m, new)
  BY <1>11, <1>12 DEF Y
<1>15. ~new.data_bitmap[m.inode[i].direct[0]]
  BY <1>4, <1>5, <1>10
<1> QED BY <1>10, <1>12, <1>13, <1>14, <1>15 DEF DirEmptied

\* After n steps the call goes on or has returned.
Empties(m, z, U, D, F, N, d, k, i, c, n) ==
    /\ c = [mem |-> c.mem, calls |-> c.calls]
    /\ \/ c.calls = <<[dir |-> d, pos |-> k]>> /\ Emptying(m, z, U, D, F, N, d, k, i, c.mem, n)
       \/ c.calls = << >> /\ DirEmptied(m, z, U, D, F, N, d, i, c.mem)

(* The next step. *)
LEMMA EmptiesOn ==
    ASSUME NEW m, NEW z, NEW U, NEW D, NEW F, NEW N, N \subseteq Blocks, NEW d, NEW k, NEW i, NEW c, NEW n \in Nat,
           Empties(m, z, U, D, F, N, d, k, i, c, n), m.inode[d].direct[0] \in U, m.inode[i].direct[0] \in U,
           c.calls # << >>, NEW stale
    PROVE  Empties(m, z, U, D, F, N, d, k, i, DeleteStep(c, stale), n + 1)
<1> DEFINE x == c.mem
           j == NextEntry(Children(x, i))
<1>1. /\ c = [mem |-> x, calls |-> <<[dir |-> d, pos |-> k]>>] /\ Emptying(m, z, U, D, F, N, d, k, i, x, n)
  BY DEF Empties
<1>2. Children(x, d)[k].loc = i
  <2>1. /\ InDirectory(m, x, z, d, k, i) /\ d \in Dirs(x) /\ x \in Image /\ OnDisk(z) /\ BlocksSound(Complete(x, z)) /\ d \in Inodes
    BY <1>1 DEF Emptying, Tracks, Sound, Dirs, Live
  <2>2. Dirs(Complete(x, z)) = Dirs(x) /\ Complete(x, z).inode = x.inode
    BY <2>1, CompleteMembers
  <2>3. x.inode[d].direct[0] \in Blocks /\ InMemory(x, x.inode[d].direct[0])
    BY <2>1, <2>2, SoundImage DEF InDirectory
  <2>4. Children(Complete(x, z), d) = Children(x, d)
    BY <2>1, <2>3, CompleteChildren
  <2>5. Lists(Listing(Complete(x, z)), d, k, i)
    BY <2>1 DEF InDirectory
  <2> QED BY <2>1, <2>2, <2>4, <2>5 DEF Lists, Listing
<1>3. CASE j # 0
  <2> DEFINE new == file_delete(x, i, j)
  <2>1. new = file_delete(x, i, j) /\ m.inode[i].direct[0] \in U
    OBVIOUS
  <2>0. EmptyingOn(m, z, U, D, F, N, d, k, i, x, new, n)
    BY <1>1, <1>3, <2>1, EmptyingFile
  <2>2. Emptying(m, z, U, D, F, N, d, k, i, new, n + 1) /\ x.inode[Children(x, i)[j].loc].type = File
    BY <2>0 DEF EmptyingOn
  <2>4. DeleteStep(c, stale) = [mem |-> new, calls |-> <<[dir |-> d, pos |-> k]>>]
    BY <1>1, <1>2, <1>3, <2>2, DeletionStepIs
  <2> HIDE DEF new
  <2> QED BY <2>2, <2>4 DEF Empties
<1>4. CASE j = 0
  <2> DEFINE new == DirectoryGone(x, d, k, i)
  <2>1. DeleteStep(c, stale) = [mem |-> new, calls |-> << >>]
    BY <1>1, <1>2, <1>4, DeletionStepIs
  <2>2. new = DirectoryGone(x, d, k, i)
    OBVIOUS
  <2> HIDE DEF new
  <2>3. DirEmptied(m, z, U, D, F, N, d, i, new)
    BY <1>1, <1>4, <2>2, EmptyingEnds
  <2> QED BY <2>1, <2>3 DEF Empties
<1> QED BY <1>3, <1>4

(* rmdir of a directory that holds files only takes it off the tree, and ends. *)
LEMMA DirectoryEmptied ==
    ASSUME NEW m, NEW z, NEW U, NEW D, NEW F, NEW N, NEW E, NEW d, Tracks(m, z, U, D, F, N, E, d), E \subseteq U,
           NEW k, NEW i, InDirectory(m, m, z, d, k, i), m.inode[d].direct[0] \in U, m.inode[i].direct[0] \in U, NEW stale
    PROVE  DirEmptied(m, z, U, D, F, N, d, i, dir_delete(m, d, k, stale))
<1> DEFINE new == dir_delete(m, d, k, stale)
<1>1. PICK g : Deletion(g, DeleteSteps, m, d, k, stale) /\ new = g[DeleteSteps].mem
  BY DeletionUnfolds
<1>2. DeleteSteps \in Nat /\ DeleteSteps = 2 * INODE_NUM /\ INODE_NUM \in Nat /\ INODE_NUM > 0
  BY FileSystemAssumption DEF DeleteSteps
<1>n. N \subseteq Blocks /\ U \subseteq Sectors /\ m \in Image /\ i \in Dirs(m) /\ \A b \in N : m.data_bitmap[b]
  BY DEF Tracks, InDirectory
<1> HIDE DEF new
<1> DEFINE call  == <<[dir |-> d, pos |-> k]>>
           first == [mem |-> m, calls |-> call]
           T     == {x \in Nat : x \in 0..DeleteSteps => Empties(m, z, U, D, F, N, d, k, i, g[x], x)}
<1>3. g[0] = first
  BY <1>1, <1>2 DEF Deletion
<1>4. ASSUME NEW x \in Nat, x + 1 \in 0..DeleteSteps
      PROVE  g[x + 1] = IF g[x].calls = << >> THEN g[x] ELSE DeleteStep(g[x], stale)
  <2> DEFINE y == x + 1
  <2>1. y \in 0..DeleteSteps /\ y # 0 /\ y - 1 = x
    BY <1>4
  <2> HIDE DEF y
  <2>2. g[y] = IF g[y - 1].calls = << >> THEN g[y - 1] ELSE DeleteStep(g[y - 1], stale)
    BY <1>1, <2>1 DEF Deletion
  <2>3. QED
    BY <2>1, <2>2 DEF y
<1>m. Switched(m, m) = {} /\ Left(N, m) = N /\ U \cup {} = U
  BY <1>n DEF Switched, Left
<1>5. Emptying(m, z, U, D, F, N, d, k, i, m, 0)
  <2>2. Tracks(m, z, U, D, F, N, U, d)
    <3>1. Resident(m, z, F) /\ U \subseteq U /\ F \subseteq F /\ \A b \in U \ U : Owned(Complete(m, z), b) => InMemory(m, b)
      BY DEF Tracks
    <3> QED BY <1>n, <3>1, TracksMore
  <2>3. OnlyClears(m, m)
    <3>1. i \in Inodes
      BY <1>n DEF Dirs, Live
    <3>2. m.data_bitmap \in [Blocks -> BOOLEAN]
      BY <1>n, <3>1, ImageTyped
    <3> QED BY <3>2 DEF OnlyClears
  <2>4. Cardinality(Live(m)) + 0 <= INODE_NUM
    <3>1. IsFiniteSet(Inodes) /\ Live(m) \subseteq Inodes
      BY ConstantsTyped DEF Live
    <3>2. Cardinality(Live(m)) <= Cardinality(Inodes) /\ Cardinality(Live(m)) \in Nat
      BY <3>1, FS_Subset, FS_CardinalityType
    <3>3. Cardinality(Inodes) = INODE_NUM
      BY <1>2, FS_Interval DEF Inodes
    <3> QED BY <1>2, <3>2, <3>3
  <2>5. InDirectory(m, m, z, d, k, i)
    OBVIOUS
  <2> QED BY <1>m, <2>2, <2>3, <2>4, <2>5 DEF Emptying
<1>6. 0 \in T
  <2>1. first.mem = m /\ first.calls = call /\ first = [mem |-> first.mem, calls |-> first.calls]
    OBVIOUS
  <2> HIDE DEF first
  <2>2. Empties(m, z, U, D, F, N, d, k, i, first, 0)
    BY <1>5, <2>1 DEF Empties
  <2> QED BY <1>3, <2>2
<1>7. ASSUME NEW x \in Nat, x \in T PROVE x + 1 \in T
  <2> SUFFICES ASSUME x + 1 \in 0..DeleteSteps PROVE Empties(m, z, U, D, F, N, d, k, i, g[x + 1], x + 1)
    OBVIOUS
  <2>1. Empties(m, z, U, D, F, N, d, k, i, g[x], x)
    BY <1>2, <1>7
  <2>2. CASE g[x].calls = << >>
    <3>1. g[x + 1] = g[x]
      BY <1>4, <2>2
    <3> QED BY <2>1, <2>2, <3>1 DEF Empties
  <2>3. CASE g[x].calls # << >>
    <3> DEFINE c == g[x]
    <3>1. g[x + 1] = DeleteStep(c, stale) /\ Empties(m, z, U, D, F, N, d, k, i, c, x) /\ c.calls # << >>
      BY <1>4, <2>1, <2>3
    <3> HIDE DEF c
    <3>2. Empties(m, z, U, D, F, N, d, k, i, DeleteStep(c, stale), x + 1)
      BY <1>n, <3>1, EmptiesOn
    <3> QED BY <3>1, <3>2
  <2> QED BY <2>2, <2>3
<1>8. Nat \subseteq T
  <2> HIDE DEF T
  <2> QED BY <1>6, <1>7, SetInduction
<1>9. Empties(m, z, U, D, F, N, d, k, i, g[DeleteSteps], DeleteSteps)
  BY <1>2, <1>8
<1>10. ASSUME NEW x, Emptying(m, z, U, D, F, N, d, k, i, x, DeleteSteps) PROVE FALSE
  <2>1. IsFiniteSet(Live(x))
    BY ConstantsTyped, FS_Subset DEF Live
  <2>2. Cardinality(Live(x)) \in Nat
    BY <2>1, FS_CardinalityType
  <2>3. Cardinality(Live(x)) + DeleteSteps <= INODE_NUM
    BY <1>10 DEF Emptying
  <2> QED BY <1>2, <2>2, <2>3
<1>11. DirEmptied(m, z, U, D, F, N, d, i, g[DeleteSteps].mem)
  BY <1>9, <1>10 DEF Empties
<1> QED BY <1>1, <1>11 DEF new

----------------------------------------------------------------------------
(* What a command works on *)

\* Memory and disk go together, with the flags of F, when a command is to be executed.
Ready(z, F) == Tracks(file_storage, z, update_sector, data_block_in_memory, F, newer, {}, cur_dir)

\* An orderly client resizes no directory.
ResizesFiles == job.op = "r" => \A e \in ToSet(Children(file_storage, cur_dir)) :
                                    e.name = job.name => file_storage.inode[e.loc].type = File

(* What goes with the disk. *)
LEMMA ReadyIs ==
    ASSUME NEW z, NEW F, Ready(z, F)
    PROVE  /\ file_storage \in Image /\ OnDisk(z) /\ Sound(Complete(file_storage, z))
           /\ BlocksSound(Complete(file_storage, z)) /\ Shallow(Complete(file_storage, z))
           /\ cur_dir \in Dirs(file_storage) /\ cur_dir \in Inodes /\ cur_dir \in F /\ 0 \in F
           /\ update_sector \subseteq Sectors /\ newer \subseteq Blocks
           /\ \A b \in newer : file_storage.data_bitmap[b]
           /\ Resident(file_storage, z, F)
           /\ Live(Complete(file_storage, z)) = Live(file_storage) /\ Dirs(Complete(file_storage, z)) = Dirs(file_storage)
           /\ Complete(file_storage, z).inode = file_storage.inode
           /\ file_storage.inode[cur_dir].direct[0] \in Blocks
<1>1. /\ file_storage \in Image /\ OnDisk(z) /\ Sound(Complete(file_storage, z))
      /\ Shallow(Complete(file_storage, z))
      /\ cur_dir \in Dirs(file_storage) /\ cur_dir \in F /\ 0 \in F
      /\ update_sector \subseteq Sectors /\ newer \subseteq Blocks
      /\ \A b \in newer : file_storage.data_bitmap[b]
      /\ Resident(file_storage, z, F)
  BY DEF Ready, Tracks
<1>2. BlocksSound(Complete(file_storage, z)) /\ cur_dir \in Inodes
  BY <1>1 DEF Sound, Dirs, Live
<1>3. /\ Live(Complete(file_storage, z)) = Live(file_storage) /\ Dirs(Complete(file_storage, z)) = Dirs(file_storage)
      /\ Complete(file_storage, z).inode = file_storage.inode
  BY <1>1, CompleteMembers
<1>4. file_storage.inode[cur_dir].direct[0] \in Blocks
  BY <1>1, <1>2, <1>3, SoundImage
<1> QED BY <1>1, <1>2, <1>3, <1>4

(* What a command names it finds in an entry of the current directory, and in no other one. *)
LEMMA SubjectIs ==
    ASSUME NEW z, NEW F, Ready(z, F), job.op \notin {"start", "ls"}, NEW i \in Subjects
    PROVE  /\ i \in Live(file_storage) /\ Subjects = {i} /\ Found(file_storage, cur_dir, job) # 0
           /\ Matches(file_storage, cur_dir, job, Found(file_storage, cur_dir, job))
           /\ i = Children(file_storage, cur_dir)[Found(file_storage, cur_dir, job)].loc
           /\ \A e \in ToSet(Children(file_storage, cur_dir)) : e.name = job.name => e.loc = i
<1> DEFINE m == file_storage
           d == cur_dir
           k == Found(m, d, job)
           q == Named(m, d, job)
<1>1. m \in Image /\ OnDisk(z) /\ Sound(Complete(m, z)) /\ d \in Dirs(m)
  BY ReadyIs
<1>2. q \in Seq(Live(m)) /\ i \in ToSet(q)
  BY <1>1, TransferredLive DEF Subjects
<1>3. q # << >>
  <2>1. ToSet(<< >>) = {}
    BY DEF ToSet
  <2> QED BY <1>2, <2>1
<1>4. Matches(m, d, job, k) /\ q = <<Children(m, d)[k].loc>>
  BY <1>1, <1>3, TransferredLive
<1>5. k # 0
  BY <1>3 DEF Named
<1>6. \A x : ToSet(<<x>>) = {x}
  BY DEF ToSet
<1>7. i = Children(m, d)[k].loc /\ Subjects = {i}
  BY <1>2, <1>4, <1>6 DEF Subjects
<1>8. i \in Live(m)
  BY <1>2, <1>4, <1>7, SeqElements
<1>9. k \in 1..Len(Children(m, d)) /\ Children(m, d)[k].name = job.name
  BY <1>4 DEF Matches
<1>10. ASSUME NEW e \in ToSet(Children(m, d)), e.name = job.name PROVE e.loc = i
  <2> HIDE DEF k
  <2>1. e.loc = Children(m, d)[k].loc
    BY <1>1, <1>9, <1>10, OneName
  <2> QED BY <1>7, <2>1
<1> QED BY <1>4, <1>5, <1>7, <1>8, <1>10

(* Commands on files name files, and those alone. *)
LEMMA SubjectFile ==
    ASSUME NEW z, NEW F, Ready(z, F), job.op \in {"r", "w", "i", "d", "cat", "rm"}, ResizesFiles, NEW i \in Subjects
    PROVE  i \in Files(file_storage) /\ Target(job.name) \subseteq {i}
<1> DEFINE m == file_storage
           k == Found(m, cur_dir, job)
<1>1. /\ i \in Live(m) /\ Matches(m, cur_dir, job, k) /\ i = Children(m, cur_dir)[k].loc
      /\ \A e \in ToSet(Children(m, cur_dir)) : e.name = job.name => e.loc = i
  BY SubjectIs
<1>2. Children(m, cur_dir) \in Seq(Entry)
  <2>1. ListsSame(m, Complete(m, z), cur_dir)
    BY ReadyIs, MemoryChildren
  <2> QED BY <2>1 DEF ListsSame
<1>3. k \in 1..Len(Children(m, cur_dir)) /\ Children(m, cur_dir)[k].name = job.name
  BY <1>1 DEF Matches
<1>4. Children(m, cur_dir)[k] \in ToSet(Children(m, cur_dir))
  <2> HIDE DEF k
  <2> QED BY <1>2, <1>3, SeqElements
<1>5. m.inode[i].type = File
  <2>1. CASE job.op = "r"
    BY <1>1, <1>3, <1>4, <2>1 DEF ResizesFiles
  <2>2. CASE job.op # "r"
    BY <1>1, <2>2 DEF Matches
  <2> QED BY <2>1, <2>2
<1>6. i \in Files(m)
  BY <1>1, <1>5 DEF Files, Dirs, File, Directory
<1>7. Target(job.name) \subseteq {i}
  BY <1>1 DEF Target
<1> QED BY <1>6, <1>7

(* What a command looks at is in memory, if it is not misled. *)
LEMMA LookedHeld ==
    ASSUME ~Misled
    PROVE  /\ job.op \notin {"start", "f", "new", "cd /"} => InMemory(file_storage, DirBlock(cur_dir))
           /\ job.op \in {"i", "d", "cat"} =>
                 \A i \in Subjects : \A b \in BlocksOf(file_storage, i) : InMemory(file_storage, b)
           /\ job.op \in {"r", "w", "rm"} => \A i \in Subjects : IndexHeld(file_storage, i)
           /\ job.op = "rmdir" =>
                 \A i \in Subjects : /\ InMemory(file_storage, DirBlock(i))
                                     /\ \A j \in ToSet(Locations(file_storage, i)) : IndexHeld(file_storage, j)
<1>1. \A b \in Looked : InMemory(file_storage, b)
  BY DEF Misled, InMemory
<1>2. job.op \notin {"start", "f", "new", "cd /"} => DirBlock(cur_dir) \in Looked
  BY DEF Looked
<1>3. ASSUME job.op \in {"i", "d", "cat"}, NEW i \in Subjects, NEW b \in BlocksOf(file_storage, i) PROVE b \in Looked
  BY <1>3 DEF Looked
<1>4. ASSUME job.op \in {"r", "w", "rm"}, NEW i \in Subjects, NEW b \in Indirect(file_storage, i) PROVE b \in Looked
  BY <1>4 DEF Looked
<1>5. ASSUME job.op = "rmdir", NEW i \in Subjects PROVE DirBlock(i) \in Looked
  BY <1>5 DEF Looked
<1>6. ASSUME job.op = "rmdir", NEW i \in Subjects, NEW j \in ToSet(Locations(file_storage, i)), NEW b \in Indirect(file_storage, j)
      PROVE  b \in Looked
  BY <1>6 DEF Looked
<1>7. ASSUME NEW i, \A b \in Indirect(file_storage, i) : b \in Looked PROVE IndexHeld(file_storage, i)
  BY <1>1, <1>7 DEF IndexHeld, Indirect
<1> QED BY <1>1, <1>2, <1>3, <1>4, <1>5, <1>6, <1>7

(* So is what it needs of a file. *)
LEMMA SubjectReads ==
    ASSUME NEW z, NEW F, Ready(z, F), job.op \in {"r", "w", "i", "d", "cat", "rm"}, ~Misled, NEW i \in Subjects,
           i \in Files(file_storage)
    PROVE  /\ IndexHeld(file_storage, i)
           /\ job.op \in {"i", "d", "cat"} => AllHeld(file_storage, i)
           /\ InMemory(file_storage, DirBlock(cur_dir))
<1>1. file_storage \in Image /\ i \in Inodes
  BY ReadyIs DEF Files, Live
<1>2. ASSUME job.op \in {"i", "d", "cat"} PROVE AllHeld(file_storage, i)
  <2>1. \A b \in BlocksOf(file_storage, i) : InMemory(file_storage, b)
    BY <1>2, LookedHeld
  <2> QED BY <1>1, <2>1, BlocksAtPlaces DEF AllHeld
<1>3. ASSUME job.op \in {"i", "d", "cat"} PROVE IndexHeld(file_storage, i)
  BY <1>2, <1>3, AtIndirect DEF AllHeld, IndexHeld
<1>4. job.op \in {"r", "w", "rm"} => IndexHeld(file_storage, i)
  BY LookedHeld
<1>5. InMemory(file_storage, DirBlock(cur_dir))
  BY LookedHeld
<1> QED BY <1>2, <1>3, <1>4, <1>5

----------------------------------------------------------------------------
(* The commands one by one *)

\* After the command memory and disk go together, once the sectors of E have been sent.
Served(z, F, E) == Tracks(file_storage', z, update_sector', data_block_in_memory, F, newer', E, cur_dir')

(* The list, and the sectors whose text is new. *)
LEMMA ListIs ==
    ASSUME NEW listed, NEW text, List(listed, text)
    PROVE  update_sector' = update_sector \cup listed /\ newer' = Left(newer \cup text, file_storage')
BY DEF List, Left

(* r *)
LEMMA ResizeServes ==
    ASSUME NEW z, NEW F, Ready(z, F), ResizesFiles, ~Misled, NEW i \in Subjects, Resize(i), server' # "spinning"
    PROVE  Served(z, F, update_sector') /\ server' = "save"
<1>1. PICK size \in 0..Capacity + 1 : /\ cmd_r(job.name, size)
                                      /\ List(file_resize_lists(file_storage, i, size), Flipped)
                                      /\ server' = "save"
  BY DEF Resize, SaveUnreplied
<1>2. job.op = "r" /\ job.op \in {"r", "w", "i", "d", "cat", "rm"} /\ job.op \notin {"start", "ls"}
  BY DEF Resize
<1>3. \A e \in ToSet(Children(file_storage, cur_dir)) : e.name = job.name => e.loc = i
  BY <1>2, SubjectIs
<1>4. i \in Files(file_storage)
  BY <1>2, SubjectFile
<1>5. IndexHeld(file_storage, i)
  BY <1>2, <1>4, SubjectReads
<1>6. file_storage' = file_resize(file_storage, i, size).mem /\ cur_dir' = cur_dir
  BY <1>1, <1>3 DEF cmd_r
<1> DEFINE L == file_resize_lists(file_storage, i, size)
           T == Flipped
           X == {}
           N2 == Left(newer \cup T, file_storage')
           U == update_sector
<1>7. i \in Inodes /\ size \in Nat
  BY <1>4, ConstantsTyped DEF Files, Live, Capacity
<1>8. T \subseteq L /\ L \subseteq Blocks /\ T \subseteq Blocks
  <2>1. Switched(file_storage, file_storage') = T
    BY DEF Flipped, Switched
  <2> QED BY <1>6, <1>7, <2>1, ReadyIs, ListsInRange
<1>9. update_sector' = U \cup L /\ newer' = N2
  BY <1>1, ListIs
<1> DEFINE none == {}
<1>10. Tracks(file_storage, z, U, data_block_in_memory, F, newer, none, cur_dir)
  BY DEF Ready
<1>11. /\ X \subseteq Blocks /\ \A b \in X : InMemory(file_storage, b)
       /\ none \subseteq U \cup (L \cup X) /\ T \subseteq U \cup (L \cup X) /\ T \subseteq Blocks
  BY <1>8
<1>13. U \cup (L \cup X) = U \cup L
  OBVIOUS
<1> HIDE DEF X, T, none
<1>12. Tracks(file_storage', z, U \cup (L \cup X), data_block_in_memory, F, N2, U \cup (L \cup X), cur_dir)
  BY <1>4, <1>5, <1>6, <1>7, <1>10, <1>11, ResizeTracks
<1> QED BY <1>1, <1>6, <1>9, <1>12, <1>13 DEF Served

(* w *)
LEMMA OverwriteServes ==
    ASSUME NEW z, NEW F, Ready(z, F), ResizesFiles, ~Misled, NEW i \in Subjects, OverwriteFile(i)
    PROVE  Served(z, F, update_sector') /\ server' = "save"
<1> DEFINE m == file_storage
           a == file_resize(m, i, 0).mem
<1>1. PICK size \in 0..INODE_DIRECT_NUM :
          /\ WritesOwnSectors(job.name, size)
          /\ cmd_w(job.name, size)
          /\ \E first \in MaybeFirst(file_storage', i) :
                List(file_resize_lists(m, i, 0) \cup file_resize_lists(a, i, size) \cup first,
                     ToSet(Prefix(file_storage'.inode[i].direct)))
  BY DEF OverwriteFile
<1>2. job.op = "w" /\ job.op \in {"r", "w", "i", "d", "cat", "rm"} /\ job.op \notin {"start", "ls"} /\ server' = "save"
  BY DEF OverwriteFile, ReplyAndSave
<1>4. i \in Files(m) /\ Target(job.name) \subseteq {i}
  BY <1>2, SubjectFile
<1>5. IndexHeld(m, i)
  BY <1>2, <1>4, SubjectReads
<1>6. file_storage' = Overwrite(m, i, size) /\ cur_dir' = cur_dir /\ i \in Target(job.name)
  BY <1>1, <1>4 DEF cmd_w
<1>7. PICK first \in MaybeFirst(file_storage', i) :
          List(file_resize_lists(m, i, 0) \cup file_resize_lists(a, i, size) \cup first,
               ToSet(Prefix(file_storage'.inode[i].direct)))
  BY <1>1
<1> DEFINE b == file_resize(a, i, size).mem
           U2 == update_sector \cup file_resize_lists(m, i, 0) \cup file_resize_lists(a, i, size) \cup first
           N2 == {x \in newer \cup ToSet(Prefix(file_storage'.inode[i].direct)) : file_storage'.data_bitmap[x]}
<1>8. \A j \in Used(b.inode[i].direct) : b.inode[i].direct[j] = b.inode[i].direct[0] + j
  BY <1>1, <1>6 DEF WritesOwnSectors
<1>9. update_sector' = U2 /\ newer' = N2
  BY <1>7 DEF List
<1>10. Tracks(m, z, update_sector, data_block_in_memory, F, newer, {}, cur_dir)
  BY DEF Ready
<1>11. size \in TextSizes
  BY DEF TextSizes
<1>12. a = file_resize(m, i, 0).mem /\ b = file_resize(a, i, size).mem
  OBVIOUS
<1> HIDE DEF a, b
<1>13. Tracks(file_storage', z, U2, data_block_in_memory, F, N2, U2, cur_dir)
  BY <1>4, <1>5, <1>6, <1>7, <1>8, <1>10, <1>11, <1>12, TextTracks
<1> QED BY <1>2, <1>6, <1>9, <1>13 DEF Served

(* Sectors that are in memory are listed, and nothing else is changed. *)
LEMMA ListedServes ==
    ASSUME NEW z, NEW F, Ready(z, F), NEW L, L \subseteq Sectors, \A b \in L : b \in Blocks => InMemory(file_storage, b),
           List(L, {}), file_storage' = file_storage, cur_dir' \in Dirs(file_storage), cur_dir' \in F
    PROVE  Served(z, F, {}) /\ Served(z, F, update_sector')
<1> DEFINE m  == file_storage
           U2 == update_sector \cup L
<1>1. /\ update_sector \subseteq Sectors /\ newer \subseteq Blocks /\ \A b \in newer : m.data_bitmap[b]
      /\ Resident(m, z, F) /\ BlocksSound(Complete(m, z))
  BY ReadyIs
<1>2. newer' = newer /\ update_sector' = U2
  BY <1>1 DEF List
<1>3. Tracks(m, z, update_sector, data_block_in_memory, F, newer, {}, cur_dir')
  BY DEF Ready, Tracks
<1>4. update_sector \subseteq U2 /\ U2 \subseteq Sectors /\ {} \subseteq U2 /\ {} \subseteq {} /\ F \subseteq F
  BY <1>1
<1>5. ASSUME NEW b \in U2 \ update_sector, Owned(Complete(m, z), b) PROVE InMemory(m, b)
  <2>1. b \in Blocks
    <3>1. PICK j \in Live(Complete(m, z)), p \in Places : At(Complete(m, z), j, p) = b
      BY <1>5 DEF Owned
    <3>2. b # None
      BY <1>5, <1>4, NoneIsNoBlock, BlockNumbers DEF None, Sectors, BasicSectors, InodeBitmap, DataBitmap, InodeTable, RootBlock
    <3> QED BY <1>1, <3>1, <3>2, OwnedBlocks
  <2> QED BY <1>5, <2>1
<1> DEFINE none == {}
<1>6. Tracks(m, z, update_sector, data_block_in_memory, F, newer, none, cur_dir') /\ none \subseteq U2 /\ none \subseteq none
  BY <1>3
<1> HIDE DEF none, U2
<1>7. Tracks(m, z, U2, data_block_in_memory, F, newer, none, cur_dir')
  BY <1>1, <1>4, <1>5, <1>6, TracksMore
<1>8. Tracks(m, z, U2, data_block_in_memory, F, newer, U2, cur_dir')
  BY <1>1, <1>4, <1>5, <1>6, TracksMore
<1> QED BY <1>2, <1>7, <1>8 DEF Served, none

(* The positions that are walked over are those of sectors of the file. *)
LEMMA WalkedHeld ==
    ASSUME NEW m \in Image, NEW i \in Inodes, DenseFile(m, i), AllHeld(m, i), NEW q \in Nat, q < get_file_size(m, i)
    PROVE  /\ Walked(m, i, q) \subseteq Blocks /\ \A b \in Walked(m, i, q) : InMemory(m, b)
           /\ Position(m, i, 0) = m.inode[i].direct[0]
           /\ Position(m, i, 0) \in Blocks /\ InMemory(m, Position(m, i, 0))
           /\ \A k \in 0..q : Position(m, i, k) \in Walked(m, i, q) \cup {Position(m, i, 0)}
<1>0. get_file_size(m, i) \in Nat
  BY SizeTyped
<1>1. ASSUME NEW k \in 0..q PROVE Position(m, i, k) \in Blocks /\ InMemory(m, Position(m, i, k))
  <2>1. k \in Nat /\ k < get_file_size(m, i)
    BY <1>0
  <2>2. Position(m, i, k) \in Blocks /\ \E p \in Places : At(m, i, p) = Position(m, i, k)
    BY <2>1, SizePositions
  <2> QED BY <2>2, NoneIsNoBlock DEF AllHeld
<1>2. 0 \in 0..q /\ 0 \in Nat /\ 0 < get_file_size(m, i)
  BY <1>0
<1>3. Position(m, i, 0) = m.inode[i].direct[0]
  BY <1>2, SizePositions
<1>4. \A b \in Indirect(m, i) : b \in Blocks /\ InMemory(m, b)
  <2>1. m.inode[i].indirect \in Slot
    BY ImageTyped
  <2> QED BY <2>1, AtIndirect DEF Indirect, AllHeld, Slot
<1>5. \A b \in Walked(m, i, q) : b \in Indirect(m, i) \/ \E k \in 0..q : b = Position(m, i, k)
  BY DEF Walked
<1>6. \A k \in 0..q : Position(m, i, k) \in Walked(m, i, q) \cup {Position(m, i, 0)}
  BY DEF Walked
<1> HIDE DEF Walked
<1> QED BY <1>1, <1>2, <1>3, <1>4, <1>5, <1>6

(* So is the one that make_file_ptr may list. *)
LEMMA FirstHeld ==
    ASSUME NEW m \in Image, NEW i \in Inodes, AllHeld(m, i), NEW first \in MaybeFirst(m, i)
    PROVE  first \subseteq Blocks /\ \A b \in first : InMemory(m, b)
<1>1. 0 \in 0..INODE_DIRECT_NUM - 1
  BY ConstantsTyped
<1>2. m.inode[i].direct[0] \in Slot
  <2> DEFINE f == m.inode[i].direct
  <2>1. f \in [0..INODE_DIRECT_NUM - 1 -> Slot]
    BY ImageTyped
  <2> HIDE DEF f
  <2>2. f[0] \in Slot
    BY <1>1, <2>1
  <2> QED BY <2>2 DEF f
<1>3. <<"direct", 0>> \in Places /\ At(m, i, <<"direct", 0>>) = m.inode[i].direct[0]
  BY <1>1, AtDirect
<1> QED BY <1>2, <1>3 DEF MaybeFirst, AllHeld, Slot

(* cat, and d of text that is not there *)
LEMMA ShowServes ==
    ASSUME NEW z, NEW F, Ready(z, F), ResizesFiles, ~Misled, NEW i \in Subjects, job.op \in {"i", "d", "cat"},
           NEW first \in MaybeFirst(file_storage, i), List(first, {}), file_storage' = file_storage, cur_dir' = cur_dir
    PROVE  Served(z, F, update_sector')
<1>1. i \in Files(file_storage) /\ i \in Inodes
  BY SubjectFile DEF Files, Live
<1>2. AllHeld(file_storage, i)
  BY <1>1, SubjectReads
<1>3. first \subseteq Blocks /\ \A b \in first : InMemory(file_storage, b)
  BY <1>1, <1>2, ReadyIs, FirstHeld
<1>4. cur_dir' \in Dirs(file_storage) /\ cur_dir' \in F
  BY ReadyIs
<1> QED BY <1>3, <1>4, ListedServes DEF Sectors

(* d *)
LEMMA DeleteServes ==
    ASSUME NEW z, NEW F, Ready(z, F), ResizesFiles, ~Misled, NEW i \in Subjects, Delete(i)
    PROVE  Served(z, F, update_sector') /\ server' = "save"
<1> DEFINE m == file_storage
<1>1. /\ job.op = "d" /\ job.op \in {"i", "d", "cat"} /\ job.op \in {"r", "w", "i", "d", "cat", "rm"} /\ cur_dir' = cur_dir
      /\ server' = "save"
  BY DEF Delete, Same, SaveUnreplied, ReplyAndSave
<1>2. i \in Files(m) /\ i \in Inodes /\ Target(job.name) \subseteq {i}
  BY <1>1, SubjectFile DEF Files, Live
<1>3. AllHeld(m, i) /\ IndexHeld(m, i)
  BY <1>1, <1>2, SubjectReads
<1>4. HoldsOnce(m, i) /\ DenseFile(m, i) /\ m \in Image
  BY <1>2, <1>3, TrackedFile DEF Ready
<1>5. CASE /\ file_storage' = file_storage
           /\ \E first \in MaybeFirst(file_storage, i) : List(first, {})
  BY <1>1, <1>5, ShowServes
<1>6. ASSUME NEW q \in 0..Size(i) - 1, NEW size \in 0..q + 1, cmd_d(job.name, size),
             List(file_resize_lists(m, i, size) \cup Walked(m, i, q) \cup {Position(m, i, 0)},
                  {Position(m, i, k) : k \in 0..q})
      PROVE  Served(z, F, update_sector')
  <2> DEFINE L == file_resize_lists(m, i, size)
             X == Walked(m, i, q) \cup {Position(m, i, 0)}
             T == {Position(m, i, k) : k \in 0..q}
             N2 == Left(newer \cup T, file_storage')
             U == update_sector
             none == {}
  <2>1. file_storage' = file_resize(m, i, size).mem
    BY <1>2, <1>6 DEF cmd_d
  <2>2. q \in Nat /\ q < get_file_size(m, i) /\ size \in Nat
    <3>1. get_file_size(m, i) \in Nat
      BY <1>2, <1>4, SizeTyped
    <3> QED BY <3>1 DEF Size
  <2>3. /\ Walked(m, i, q) \subseteq Blocks /\ \A b \in Walked(m, i, q) : InMemory(m, b)
        /\ Position(m, i, 0) \in Blocks /\ InMemory(m, Position(m, i, 0))
        /\ \A k \in 0..q : Position(m, i, k) \in Walked(m, i, q) \cup {Position(m, i, 0)}
    BY <1>2, <1>3, <1>4, <2>2, WalkedHeld
  <2>4. /\ X \subseteq Blocks /\ \A b \in X : InMemory(m, b)
        /\ T \subseteq X /\ T \subseteq Blocks /\ T \subseteq U \cup (L \cup X)
        /\ none \subseteq U \cup (L \cup X)
    BY <2>3
  <2>5. update_sector' = U \cup (L \cup X) /\ newer' = N2
    BY <1>6 DEF List, Left
  <2>6. Tracks(m, z, U, data_block_in_memory, F, newer, none, cur_dir)
    BY DEF Ready
  <2> HIDE DEF X, T, none
  <2>7. Tracks(file_storage', z, U \cup (L \cup X), data_block_in_memory, F, N2, U \cup (L \cup X), cur_dir)
    BY <1>2, <1>3, <2>1, <2>2, <2>4, <2>6, ResizeTracks
  <2> QED BY <1>1, <2>5, <2>7 DEF Served
<1> QED BY <1>1, <1>5, <1>6 DEF Delete

\* What i leaves after the first step and after the second.
Inserted(m, i, grown, full, size) ==
    /\ Resized(m, full.mem, i) /\ Stays(m, full.mem, i, Switched(m, full.mem))
    /\ full.mem \in Image /\ i \in Inodes /\ DenseFile(full.mem, i) /\ AllHeld(full.mem, i)
    /\ full.ok => get_file_size(full.mem, i) = size
    /\ \A first \in MaybeFirst(grown.mem, i) :
          first \subseteq Blocks /\ \A x \in first : InMemory(full.mem, x)

(* An empty file got a sector, if there was one, and then the file the sectors it needs. *)
LEMMA InsertTracks ==
    ASSUME NEW m, NEW z, NEW U, NEW D, NEW F, NEW N, NEW E, NEW d, Tracks(m, z, U, D, F, N, E, d),
           NEW i \in Files(m), AllHeld(m, i), NEW grown, grown = file_resize(m, i, Max({get_file_size(m, i), 1})), grown.ok,
           NEW size \in Nat, size >= Max({get_file_size(m, i), 1}), size <= Capacity,
           NEW full, full = file_resize(grown.mem, i, size)
    PROVE  Inserted(m, i, grown, full, size)
<1> DEFINE s1 == Max({get_file_size(m, i), 1})
           a  == grown.mem
           b  == full.mem
<1>1. i \in Inodes /\ m \in Image /\ OnDisk(z)
  BY DEF Tracks, Files, Live
<1>2. IndexHeld(m, i)
  BY AtIndirect DEF AllHeld, IndexHeld
<1>3. HoldsOnce(m, i) /\ DenseFile(m, i)
  BY <1>2, TrackedFile
<1>4. s1 \in Nat /\ s1 >= get_file_size(m, i) /\ get_file_size(a, i) = s1
  BY <1>1, <1>3, GrownByOne
<1> HIDE DEF s1
<1>5. a = file_resize(m, i, s1).mem /\ b = file_resize(a, i, size).mem /\ size >= get_file_size(a, i)
  BY <1>4 DEF s1
<1> HIDE DEF a, b
<1>6. Resized(m, b, i) /\ Stays(m, b, i, Switched(m, b)) /\ Stays(m, a, i, Switched(m, a)) /\ a \in Image /\ HoldsOnce(a, i) /\ DenseFile(a, i)
  BY <1>1, <1>3, <1>4, <1>5, GrowsTwice
<1>7. b \in Image /\ DenseFile(b, i)
  BY <1>6 DEF Resized
<1>8. AllHeld(a, i) /\ AllHeld(b, i)
  BY <1>6, HeldStays
<1>9. full.ok => get_file_size(b, i) = size
  <2>1. full = file_resize(a, i, size)
    BY DEF a
  <2>2. get_file_size(a, i) <= size
    BY <1>4, <1>5
  <2>3. b = full.mem
    BY DEF b
  <2> QED BY <1>1, <1>6, <2>1, <2>2, <2>3, SizeAfter
<1>10. ASSUME NEW first \in MaybeFirst(a, i) PROVE first \subseteq Blocks /\ \A x \in first : InMemory(b, x)
  <2>1. first \subseteq Blocks /\ \A x \in first : InMemory(a, x)
    BY <1>1, <1>6, <1>8, FirstHeld
  <2> QED BY <1>1, <1>5, <1>6, <2>1, FileResizeMemory
<1> QED BY <1>1, <1>6, <1>7, <1>8, <1>9, <1>10 DEF a, b, Inserted

(* i *)
LEMMA InsertServes ==
    ASSUME NEW z, NEW F, Ready(z, F), ResizesFiles, ~Misled, NEW i \in Subjects, Insert(i)
    PROVE  Served(z, F, update_sector') /\ server' = "save"
<1> DEFINE m == file_storage
           s1 == Max({Size(i), 1})
           grown == file_resize(m, i, s1)
           none == {}
           U == update_sector
<1>1. /\ job.op = "i" /\ job.op \in {"i", "d", "cat"} /\ job.op \in {"r", "w", "i", "d", "cat", "rm"} /\ cur_dir' = cur_dir
  BY DEF Insert, Same
<1>2. i \in Files(m) /\ i \in Inodes /\ Target(job.name) \subseteq {i}
  BY <1>1, SubjectFile DEF Files, Live
<1>3. AllHeld(m, i) /\ IndexHeld(m, i)
  BY <1>1, <1>2, SubjectReads
<1>4. HoldsOnce(m, i) /\ DenseFile(m, i) /\ m \in Image
  BY <1>2, <1>3, TrackedFile DEF Ready
<1>5. PICK size \in 1..Capacity :
          LET full  == file_resize(grown.mem, i, size)
          IN /\ cmd_i(job.name, size)
             /\ CASE ~grown.ok -> List({}, {}) /\ ReplyAndSave
                  [] grown.ok /\ ~full.ok ->
                        /\ \E first \in MaybeFirst(grown.mem, i) : List(Flipped \cup first, Flipped)
                        /\ SaveUnreplied
                  [] OTHER ->
                        /\ \E q \in 0..size - 1 : \E p \in 0..q :
                              /\ size > Max({Size(i), 1}) => q = size - 1
                              /\ \E first \in MaybeFirst(full.mem, i) :
                                    List(Flipped \cup Walked(full.mem, i, q) \cup first,
                                         Flipped \cup {Position(full.mem, i, k) : k \in p..q})
                        /\ ReplyAndSave
  BY DEF Insert
<1> DEFINE full == file_resize(grown.mem, i, size)
<1>6. /\ size >= s1 /\ size <= Capacity /\ size \in Nat
      /\ file_storage' = IF grown.ok THEN full.mem ELSE grown.mem
  <2>1. PICK f \in Target(job.name) :
          LET now == get_file_size(file_storage, f)
              one == file_resize(file_storage, f, Max({now, 1}))
          IN /\ size \in Max({now, 1})..(now + INODE_DIRECT_NUM) /\ size <= Capacity
             /\ file_storage' = IF one.ok THEN file_resize(one.mem, f, size).mem ELSE one.mem
    BY <1>5 DEF cmd_i
  <2>2. f = i /\ Size(i) = get_file_size(file_storage, i)
    BY <1>2 DEF Size
  <2>3. /\ size \in s1..(Size(i) + INODE_DIRECT_NUM)
        /\ file_storage' = IF grown.ok THEN full.mem ELSE grown.mem
    BY <2>1, <2>2
  <2>4. s1 \in Nat
    BY <1>2, <1>4, <2>2, GrownByOne
  <2>5. size >= s1
    BY <2>3, <2>4
  <2> QED BY <2>1, <2>3, <2>5
<1>7. server' = "save"
  BY <1>5 DEF ReplyAndSave, SaveUnreplied
<1>8. CASE ~grown.ok
  <2>1. grown.mem = m
    BY <1>2, <1>4, <1>8, GrownByOne DEF Size
  <2>2. List(none, {}) /\ none \subseteq Sectors /\ (\A b \in none : b \in Blocks => InMemory(m, b)) /\ file_storage' = file_storage
    BY <1>5, <1>6, <1>8, <2>1
  <2>3. cur_dir' \in Dirs(file_storage) /\ cur_dir' \in F
    BY <1>1, ReadyIs
  <2> HIDE DEF none
  <2>4. Served(z, F, update_sector')
    BY <2>2, <2>3, ListedServes
  <2> QED BY <1>7, <2>4
<1>9. CASE grown.ok
  <2>0. grown = file_resize(m, i, Max({get_file_size(m, i), 1})) /\ size >= Max({get_file_size(m, i), 1})
    BY <1>6 DEF Size
  <2> DEFINE b == full.mem
  <2>1. full = file_resize(grown.mem, i, size)
    OBVIOUS
  <2>2. Tracks(m, z, U, data_block_in_memory, F, newer, none, cur_dir)
    BY DEF Ready
  <2>3. b = file_storage'
    BY <1>6, <1>9
  <2>q. /\ \/ \E first \in MaybeFirst(grown.mem, i) : List(Flipped \cup first, Flipped)
           \/ /\ full.ok
              /\ \E q \in 0..size - 1 : \E p \in 0..q : \E first \in MaybeFirst(full.mem, i) :
                    List(Flipped \cup Walked(full.mem, i, q) \cup first,
                         Flipped \cup {Position(full.mem, i, k) : k \in p..q})
    BY <1>5, <1>9
  <2> HIDE DEF grown, full, none
  <2>i. Inserted(m, i, grown, full, size)
    BY <1>2, <1>3, <1>6, <1>9, <2>0, <2>1, <2>2, InsertTracks
  <2>4. /\ Resized(m, full.mem, i) /\ Stays(m, full.mem, i, Switched(m, full.mem))
        /\ full.mem \in Image /\ i \in Inodes /\ DenseFile(full.mem, i) /\ AllHeld(full.mem, i)
        /\ full.ok => get_file_size(full.mem, i) = size
        /\ \A first \in MaybeFirst(grown.mem, i) :
              first \subseteq Blocks /\ \A x \in first : InMemory(full.mem, x)
    BY <2>i DEF Inserted
  <2>5. Switched(m, b) = Flipped /\ Flipped \subseteq Blocks
    BY <2>3 DEF Switched, Flipped
  <2>6. ASSUME NEW X, X \subseteq Blocks, \A x \in X : InMemory(b, x), NEW T, T \subseteq Blocks,
               \A x \in T : x \in Flipped \cup X \/ x = b.inode[i].direct[0],
               List(Flipped \cup X, T)
        PROVE  Served(z, F, update_sector')
    <3> DEFINE V  == U \cup (Switched(m, b) \cup X)
    <3>1. update_sector' = V /\ newer' = Left(newer \cup T, b) /\ cur_dir' = cur_dir
      BY <1>1, <2>3, <2>5, <2>6, ListIs
    <3>2. none \subseteq V /\ \A x \in T : x \in V \/ x = b.inode[i].direct[0]
      BY <2>5, <2>6 DEF none
    <3>3. Resized(m, b, i) /\ Stays(m, b, i, Switched(m, b))
      BY <2>4
    <3> HIDE DEF b
    <3>4. Tracks(b, z, V, data_block_in_memory, F, Left(newer \cup T, b), V, cur_dir)
      BY <1>2, <1>3, <2>2, <2>6, <3>2, <3>3, GrowTracks
    <3> QED BY <2>3, <3>1, <3>4 DEF Served, b
  <2>7. ASSUME NEW first \in MaybeFirst(grown.mem, i), List(Flipped \cup first, Flipped)
        PROVE  Served(z, F, update_sector')
    <3> DEFINE X == first
               T == Flipped
    <3>1. X \subseteq Blocks /\ \A x \in X : InMemory(b, x)
      BY <2>4, <2>7
    <3>2. T \subseteq Blocks /\ \A x \in T : x \in Flipped \cup X \/ x = b.inode[i].direct[0]
      BY <2>5
    <3>3. List(Flipped \cup X, T)
      BY <2>7
    <3> HIDE DEF b, T
    <3> QED BY <2>6, <3>1, <3>2, <3>3
  <2>8. ASSUME full.ok, NEW q \in 0..size - 1, NEW p \in 0..q, NEW first \in MaybeFirst(full.mem, i),
               List(Flipped \cup Walked(full.mem, i, q) \cup first,
                         Flipped \cup {Position(full.mem, i, k) : k \in p..q})
        PROVE  Served(z, F, update_sector')
    <3> DEFINE X == Walked(b, i, q) \cup first
               T == Flipped \cup {Position(b, i, k) : k \in p..q}
    <3>1. q \in Nat /\ q < get_file_size(b, i) /\ p \in 0..q /\ p..q \subseteq 0..q
      BY <1>6, <2>4, <2>8
    <3>2. b \in Image /\ i \in Inodes /\ DenseFile(b, i) /\ AllHeld(b, i)
      BY <2>4
    <3>3. first \subseteq Blocks /\ \A x \in first : InMemory(b, x)
      BY <3>2, FirstHeld
    <3> HIDE DEF b
    <3>4. /\ Walked(b, i, q) \subseteq Blocks /\ \A x \in Walked(b, i, q) : InMemory(b, x)
          /\ Position(b, i, 0) = b.inode[i].direct[0]
          /\ Position(b, i, 0) \in Blocks
          /\ \A k \in 0..q : Position(b, i, k) \in Walked(b, i, q) \cup {Position(b, i, 0)}
      BY <3>1, <3>2, WalkedHeld
    <3>5. X \subseteq Blocks /\ \A x \in X : InMemory(b, x)
      BY <3>3, <3>4
    <3>6. T \subseteq Blocks /\ \A x \in T : x \in Flipped \cup X \/ x = b.inode[i].direct[0]
      BY <2>5, <3>1, <3>4
    <3>7. List(Flipped \cup X, T)
      <4>1. Flipped \cup Walked(b, i, q) \cup first = Flipped \cup X
        OBVIOUS
      <4> QED BY <2>8, <4>1 DEF b
    <3> HIDE DEF X, T
    <3> QED BY <2>6, <3>5, <3>6, <3>7
  <2> QED BY <1>7, <2>q, <2>7, <2>8
<1> QED BY <1>8, <1>9

----------------------------------------------------------------------------
(* mk and mkdir *)

(* An inode is added with its sector. *)
LEMMA AdditionCarried ==
    ASSUME NEW m, NEW z, NEW U, NEW D, NEW F, NEW N, NEW E, NEW d, Tracks(m, z, U, D, F, N, E, d), E \subseteq U,
           NEW i, NEW b, NEW name, NEW m2, AddedTo(m, m2, d, i, b, name)
    PROVE  Tracks(m2, z, AddedList(m, m2, d, U), D, F \cup {InodeSector}, Left(N \cup Switched(m, m2), m2),
                  AddedList(m, m2, d, U), d)
<1> DEFINE W == Complete(m, z)
           V == Complete(m2, z)
           x == m.inode[d].direct[0]
           ch == Append(Children(m, d), [name |-> name, loc |-> i])
           U2 == AddedList(m, m2, d, U)
           F2 == F \cup {InodeSector}
           N2 == Left(N \cup Switched(m, m2), m2)
<1>1. /\ i \in Inodes \ Live(m) /\ b \in Blocks /\ ~m.data_bitmap[b] /\ name \in Names
      /\ \A k \in 1..Len(Children(m, d)) : Children(m, d)[k].name # name
      /\ InMemory(m, x) /\ Added(m, m2, d, i, b, ch)
      /\ \/ m2.inode[i].type = File /\ m2.sector[b] = Data
         \/ /\ m2.inode[i].type = Directory /\ d = 0
            /\ m2.sector[b] = Dir(<<[name |-> ".", loc |-> i], [name |-> "..", loc |-> d]>>)
  BY DEF AddedTo
<1>2. /\ m \in Image /\ OnDisk(z) /\ Sound(W) /\ Shallow(W) /\ d \in Dirs(m)
      /\ U \subseteq Sectors /\ N \subseteq Blocks
  BY DEF Tracks
<1>3. Live(W) = Live(m) /\ Dirs(W) = Dirs(m) /\ W.inode = m.inode /\ W.data_bitmap = m.data_bitmap
  BY <1>2, CompleteMembers
<1>4. BlocksSound(W)
  BY <1>2 DEF Sound
<1>5. d \in Inodes /\ d \in Live(m) /\ x \in Blocks /\ Children(m, d) = Children(W, d)
  <2>1. d \in Inodes /\ d \in Live(m)
    BY <1>2 DEF Dirs, Live
  <2>2. x \in Blocks
    BY <1>2, <1>4, MemoryChildren
  <2>3. Children(m, d) = Children(W, d)
    BY <1>1, <1>2, <2>1, <2>2, CompleteChildren
  <2> QED BY <2>1, <2>2, <2>3
<1>6. InMemory(m2, b)
  BY <1>1, Kinds DEF InMemory
<1>7. /\ Added(W, V, d, i, b, ch) /\ V.sector[b] = m2.sector[b] /\ InMemory(m2, x)
      /\ V.inode = m2.inode /\ m2 \in Image
      /\ \A y \in Blocks \ {x, b} : m2.sector[y] = m.sector[y]
  BY <1>1, <1>2, <1>5, <1>6, CompleteAdded
<1>8. Live(V) = Live(m2) /\ Dirs(V) = Dirs(m2)
  BY <1>2, <1>7, CompleteMembers
<1>9. \/ V.inode[i].type = File
      \/ /\ V.inode[i].type = Directory /\ d = 0
         /\ V.sector[b] = Dir(<<[name |-> ".", loc |-> i], [name |-> "..", loc |-> d]>>)
  BY <1>1, <1>7
<1>10. /\ i \in Inodes \ Live(W) /\ ~W.data_bitmap[b] /\ d \in Dirs(W)
       /\ Added(W, V, d, i, b, Append(Children(W, d), [name |-> name, loc |-> i]))
       /\ \A k \in 1..Len(Children(W, d)) : Children(W, d)[k].name # name
  BY <1>1, <1>2, <1>3, <1>5, <1>7
<1> HIDE DEF W, V
<1>11. Sound(V) /\ d \in Dirs(V)
  BY <1>1, <1>2, <1>9, <1>10, AdditionKeepsSound
<1>12. Shallow(V)
  BY <1>1, <1>2, <1>9, <1>10, AddedShallow
<1>13. /\ Live(V) = Live(W) \cup {i} /\ i # 0
       /\ \A j \in Live(W), p \in Places : At(V, j, p) = At(W, j, p)
       /\ \A p \in Places : At(V, i, p) # None => At(V, i, p) = b
       /\ \A j \in Live(W), p \in Places : At(W, j, p) # b
  BY <1>1, <1>2, <1>10, AddedPlaces
<1>14. m2.data_bitmap[b] /\ \A y \in Blocks : m2.data_bitmap[y] <=> m.data_bitmap[y] \/ y = b
  BY <1>1 DEF Added
<1>15. b \in Switched(m, m2) /\ Switched(m, m2) \subseteq Blocks
  BY <1>1, <1>14 DEF Switched
<1>16. Switched(m, m2) = {b}
  <2>1. m.data_bitmap \in [Blocks -> BOOLEAN] /\ m2.data_bitmap \in [Blocks -> BOOLEAN]
    BY <1>2, <1>7 DEF Image
  <2>2. ASSUME NEW y \in Switched(m, m2) PROVE y = b
    <3>1. y \in Blocks /\ m2.data_bitmap[y] # m.data_bitmap[y]
      BY DEF Switched
    <3>2. m2.data_bitmap[y] \in BOOLEAN /\ m.data_bitmap[y] \in BOOLEAN
      BY <2>1, <3>1
    <3>3. y # b => (m2.data_bitmap[y] <=> m.data_bitmap[y])
      BY <1>14, <3>1, Zenon
    <3> QED BY <3>1, <3>2, <3>3, Zenon
  <2> QED BY <1>15, <2>2
<1>17. x \in U2 /\ b \in U2 /\ U \subseteq U2 /\ U2 \subseteq Sectors /\ \A y \in U2 \ U : y \in {x, b}
  <2>1. U2 = U \cup ({x} \cup {b})
    BY <1>16 DEF AddedList
  <2>2. Blocks \subseteq Sectors
    BY DEF Sectors
  <2> QED BY <1>1, <1>2, <1>5, <2>1, <2>2
<1>18. N2 \subseteq Blocks /\ \A y \in N2 : m2.data_bitmap[y]
  BY <1>2, <1>15 DEF Left
<1>19. \A y \in N2 \ N : y \in U2
  BY <1>16, <1>17 DEF Left
<1>20. ASSUME NEW j \in Live(m2), NEW p \in Places, At(V, j, p) # None
       PROVE  Carries(m, m2, z, U2, j, p)
  <2> DEFINE y == At(V, j, p)
  <2>1. y \in {x, b} => y \in U2 /\ InMemory(m2, y)
    BY <1>6, <1>7, <1>17
  <2>2. CASE y \in {x, b}
    BY <2>1, <2>2 DEF Carries, V
  <2>3. CASE y \notin {x, b}
    <3>1. j # i
      BY <1>13, <1>20, <2>3
    <3>2. j \in Live(m)
      BY <1>3, <1>8, <1>13, <3>1
    <3>3. y = At(W, j, p)
      BY <1>3, <1>13, <3>2
    <3>4. y \in Blocks
      BY <1>3, <1>4, <1>20, <3>2, <3>3, OwnedBlocks
    <3>5. m2.sector[y] = m.sector[y]
      BY <1>7, <2>3, <3>4
    <3>6. m2.inode[j] = m.inode[j]
      <4>1. \A l \in Inodes \ {i} : m2.inode[l] = m.inode[l]
        BY <1>1 DEF Added
      <4> QED BY <3>1, <3>2, <4>1 DEF Live
    <3> QED BY <3>2, <3>3, <3>5, <3>6 DEF Carries, V, W
  <2> QED BY <2>2, <2>3
<1>21. \A y \in U2 \ U : InMemory(m2, y)
  BY <1>6, <1>7, <1>17
<1>22. F \subseteq F2 /\ F2 \subseteq F \cup {InodeSector} /\ E \subseteq U2
  BY <1>17
<1>23. d \in Dirs(m2)
  BY <1>8, <1>11
<1> HIDE DEF U2, F2, N2
<1>24. Tracks(m2, z, U2, D, F2, N2, U2, d)
  BY <1>7, <1>11, <1>12, <1>17, <1>18, <1>19, <1>20, <1>21, <1>22, <1>23, Carried DEF V
<1> QED BY <1>24 DEF U2, F2, N2

(* What mk and mkdir make of memory. *)
LEMMA CreateAdded ==
    ASSUME NEW z, NEW F, Ready(z, F), InMemory(file_storage, DirBlock(cur_dir)),
           NEW name \in Names, MayCreate(file_storage, name),
           NEW i, i = FirstFit(FreeInodes(file_storage), 1)[1], NEW type, NEW content,
           \/ type = File /\ content = Data
           \/ /\ type = Directory /\ cur_dir = 0
              /\ content = Dir(<<[name |-> ".", loc |-> i], [name |-> "..", loc |-> cur_dir]>>),
           NEW new, new = Create(file_storage, name, type, i, content)
    PROVE  \E b : AddedTo(file_storage, new, cur_dir, i, b, name)
<1> DEFINE m == file_storage
           d == cur_dir
           x == m.inode[d].direct[0]
           b == FirstFit(FreeBlocks(m), 1)[1]
<1>1. /\ m \in Image /\ OnDisk(z) /\ Sound(Complete(m, z)) /\ BlocksSound(Complete(m, z))
      /\ d \in Dirs(m) /\ d \in Inodes /\ x \in Blocks
  BY ReadyIs
<1>2. /\ Live(Complete(m, z)) = Live(m) /\ Dirs(Complete(m, z)) = Dirs(m)
      /\ Complete(m, z).inode = m.inode /\ Complete(m, z).data_bitmap = m.data_bitmap
  BY <1>1, CompleteMembers
<1>3. InMemory(m, x)
  BY DEF DirBlock
<1>4. Children(m, d) = Children(Complete(m, z), d)
  BY <1>1, <1>3, CompleteChildren
<1>5. Children(m, d) \in Seq(Entry) /\ m.data_bitmap[x]
  BY <1>1, <1>2, <1>4, SoundImage
<1>6. FreeInodes(m) # {} /\ FreeBlocks(m) # {} /\ ~HasName(m, d, name)
  BY DEF MayCreate
<1>7. i \in FreeInodes(m)
  BY <1>6, FreeInodesFinite, FirstOfFree
<1>8. i \in Inodes /\ i \notin Live(m)
  BY <1>7 DEF FreeInodes, Live
<1>9. \A k \in 1..Len(Children(m, d)) : Children(m, d)[k].name # name
  <2>1. \A k \in 1..Len(Children(m, d)) : Children(m, d)[k] \in ToSet(Children(m, d))
    BY <1>5, SeqElements
  <2> QED BY <1>6, <2>1 DEF HasName
<1> DEFINE e == [name |-> name, loc |-> i]
<1>10. e \in Entry
  BY <1>8 DEF Entry
<1>11. type \in {File, Directory}
  OBVIOUS
<1>12. content \in Sector
  <2>1. CASE content = Data
    BY <2>1 DEF Sector
  <2>2. CASE content = Dir(<<[name |-> ".", loc |-> i], [name |-> "..", loc |-> cur_dir]>>)
    <3> DEFINE e1 == [name |-> ".", loc |-> i]
               e2 == [name |-> "..", loc |-> cur_dir]
    <3>1. e1 \in Entry /\ e2 \in Entry
      BY <1>1, <1>8 DEF Entry
    <3> HIDE DEF e1, e2
    <3>2. <<e1, e2>> \in Seq(Entry)
      BY <3>1
    <3>3. content = Dir(<<e1, e2>>)
      BY <2>2 DEF e1, e2
    <3> QED BY <3>2, <3>3 DEF Sector
  <2> QED BY <2>1, <2>2
<1>13. /\ b \in Blocks /\ ~m.data_bitmap[b]
       /\ Added(m, new, d, i, b, Append(Children(m, d), e))
       /\ new.inode[i].type = type /\ new.sector[b] = content
  BY <1>1, <1>5, <1>6, <1>8, <1>10, <1>11, <1>12, CreateAdds
<1> HIDE DEF b
<1>14. AddedTo(m, new, d, i, b, name)
  BY <1>3, <1>8, <1>9, <1>13 DEF AddedTo
<1> QED BY <1>14

(* mk and mkdir *)
LEMMA MakeServes ==
    ASSUME NEW z, NEW F, Ready(z, F), job.name \in Names, job.op = "mkdir" => cur_dir = 0, ~Misled, Make
    PROVE  Served(z, F \cup {InodeSector}, update_sector') /\ server' = "save"
<1> DEFINE m == file_storage
           new == file_storage'
           x == m.inode[cur_dir].direct[0]
<1>1. /\ job.op \in {"mk", "mkdir"} /\ List(CreateLists, Flipped) /\ server' = "save" /\ cur_dir' = cur_dir
      /\ job.op = "mk" => cmd_mk(job.name)
      /\ job.op = "mkdir" => cmd_mkdir(job.name)
  BY DEF Make, Executing, ReplyAndSave, Same, cmd_mk, cmd_mkdir
<1>2. InMemory(m, DirBlock(cur_dir))
  BY <1>1, LookedHeld
<1>3. PICK i : \E b : AddedTo(m, new, cur_dir, i, b, job.name)
  <2> DEFINE i == FirstFit(FreeInodes(file_storage), 1)[1]
  <2>1. CASE job.op = "mk"
    <3>1. MayCreate(m, job.name) /\ new = Create(m, job.name, File, i, Data)
      BY <1>1, <2>1 DEF cmd_mk
    <3> HIDE DEF new
    <3>2. \E b : AddedTo(m, new, cur_dir, i, b, job.name)
      BY <1>2, <3>1, CreateAdded
    <3> QED BY <3>2
  <2>2. CASE job.op = "mkdir"
    <3> DEFINE c == Dir(<<[name |-> ".", loc |-> i], [name |-> "..", loc |-> cur_dir]>>)
    <3>1. MayCreate(m, job.name) /\ new = Create(m, job.name, Directory, i, c)
      BY <1>1, <2>2 DEF cmd_mkdir
    <3>2. cur_dir = 0
      BY <2>2
    <3>3. Directory = Directory /\ cur_dir = 0 /\ c = Dir(<<[name |-> ".", loc |-> i], [name |-> "..", loc |-> cur_dir]>>)
      BY <3>2
    <3> HIDE DEF c, new
    <3>4. \E b : AddedTo(m, new, cur_dir, i, b, job.name)
      BY <1>2, <3>1, <3>3, CreateAdded
    <3> QED BY <3>4
  <2> QED BY <1>1, <2>1, <2>2
<1>4. PICK b : AddedTo(m, new, cur_dir, i, b, job.name)
  BY <1>3
<1>5. update_sector' = update_sector \cup CreateLists /\ newer' = Left(newer \cup Flipped, new)
  BY <1>1, ListIs
<1>6. Flipped = Switched(m, new)
  BY DEF Flipped, Switched
<1>7. update_sector' = AddedList(m, new, cur_dir, update_sector)
  BY <1>5, <1>6 DEF CreateLists, AddedList, DirBlock
<1>8. Tracks(m, z, update_sector, data_block_in_memory, F, newer, {}, cur_dir)
  BY DEF Ready
<1> DEFINE none == {}
<1>9. none \subseteq update_sector /\ Tracks(m, z, update_sector, data_block_in_memory, F, newer, none, cur_dir)
  BY <1>8
<1> HIDE DEF none, new
<1>10. Tracks(new, z, AddedList(m, new, cur_dir, update_sector), data_block_in_memory, F \cup {InodeSector},
              Left(newer \cup Switched(m, new), new), AddedList(m, new, cur_dir, update_sector), cur_dir)
  BY <1>4, <1>9, AdditionCarried
<1>11. Tracks(new, z, update_sector', data_block_in_memory, F \cup {InodeSector}, newer', update_sector', cur_dir')
  BY <1>1, <1>5, <1>6, <1>7, <1>10
<1> QED BY <1>1, <1>11 DEF Served, new

(* What is found is what the command works on. *)
LEMMA FoundSubject ==
    ASSUME NEW z, NEW F, Ready(z, F), job.op \notin {"start", "ls"}, Found(file_storage, cur_dir, job) # 0
    PROVE  Children(file_storage, cur_dir)[Found(file_storage, cur_dir, job)].loc \in Subjects
<1> DEFINE m == file_storage
           k == Found(m, cur_dir, job)
<1>1. /\ m \in Image /\ OnDisk(z) /\ Sound(Complete(m, z)) /\ BlocksSound(Complete(m, z)) /\ cur_dir \in Dirs(m)
  BY ReadyIs
<1>2. Children(m, cur_dir) \in Seq(Entry)
  BY <1>1, MemoryChildren DEF ListsSame
<1>3. Matches(m, cur_dir, job, k)
  BY <1>2, FoundMatches
<1>4. k \in 1..Len(Children(m, cur_dir))
  BY <1>3 DEF Matches
<1>5. Locations(m, cur_dir)[k] = Children(m, cur_dir)[k].loc
  BY <1>1, <1>4, LocationsLive
<1>6. Named(m, cur_dir, job) = <<Locations(m, cur_dir)[k]>>
  BY DEF Named
<1>7. ToSet(<<Locations(m, cur_dir)[k]>>) = {Locations(m, cur_dir)[k]}
  BY DEF ToSet
<1> QED BY <1>5, <1>6, <1>7 DEF Subjects

(* The entry that rm or rmdir takes off the tree. *)
LEMMA SubjectListed ==
    ASSUME NEW z, NEW F, Ready(z, F), job.op \in {"rm", "rmdir"}, job.name \in Names, ~Misled,
           NEW k, k = Found(file_storage, cur_dir, job), k # 0
    PROVE  \E i \in Subjects : /\ Lists(Listing(Complete(file_storage, z)), cur_dir, k, i) /\ i \in Live(file_storage)
                               /\ i = Children(file_storage, cur_dir)[k].loc
                               /\ Matches(file_storage, cur_dir, job, k)
<1> DEFINE m == file_storage
           W == Complete(m, z)
           d == cur_dir
           i == Children(m, d)[k].loc
<1>1. /\ m \in Image /\ OnDisk(z) /\ Sound(W) /\ BlocksSound(W) /\ d \in Dirs(m) /\ d \in Inodes
      /\ Live(W) = Live(m) /\ Dirs(W) = Dirs(m) /\ m.inode[d].direct[0] \in Blocks
  BY ReadyIs
<1>2. i \in Subjects
  BY FoundSubject
<1>3. i \in Live(m) /\ Matches(m, d, job, k)
  BY <1>2, SubjectIs
<1>4. InMemory(m, m.inode[d].direct[0])
  BY LookedHeld DEF DirBlock
<1>5. Children(m, d) = Children(W, d)
  BY <1>1, <1>4, CompleteChildren
<1>6. k \in 1..Len(Children(m, d)) /\ Children(m, d)[k].name = job.name
  BY <1>3 DEF Matches
<1>7. Children(m, d)[k].name \notin {".", ".."}
  BY <1>6, FileSystemAssumption
<1> HIDE DEF W
<1>8. k \in 1..Len(Children(W, d)) /\ Children(W, d)[k].name \notin {".", ".."} /\ i = Children(W, d)[k].loc /\ d \in Dirs(W)
  BY <1>1, <1>5, <1>6, <1>7
<1>9. Lists(Listing(W), d, k, i)
  BY <1>1, <1>8, NamedEntry
<1> QED BY <1>2, <1>3, <1>9 DEF W

(* rm *)
LEMMA RemoveServes ==
    ASSUME NEW z, NEW F, Ready(z, F), job.op = "rm", job.name \in Names, ~Misled, cmd_rm(job.name),
           List({DirBlock(cur_dir)} \cup Flipped, {})
    PROVE  Served(z, F, update_sector')
<1> DEFINE m == file_storage
           W == Complete(m, z)
           d == cur_dir
           k == Found(m, d, job)
           new == file_storage'
           U2 == update_sector \cup ({m.inode[d].direct[0]} \cup Switched(m, new))
<1>1. k = EntryOf(m, d, File, job.name)
  BY DEF Found
<1>2. k # 0 /\ new = file_delete(m, d, k) /\ cur_dir' = d
  BY <1>1 DEF cmd_rm
<1>3. PICK i \in Subjects : /\ Lists(Listing(W), d, k, i) /\ i \in Live(m) /\ i = Children(m, d)[k].loc
  BY <1>2, SubjectListed
<1>4. i \in Files(m)
  BY SubjectFile DEF ResizesFiles
<1>5. IndexHeld(m, i) /\ InMemory(m, m.inode[d].direct[0])
  BY <1>4, SubjectReads DEF DirBlock
<1>6. update_sector' = update_sector \cup ({DirBlock(cur_dir)} \cup Flipped) /\ newer' = Left(newer \cup {}, new)
  BY ListIs
<1>7. update_sector' = U2 /\ newer' = Left(newer, new)
  BY <1>6 DEF Flipped, Switched, DirBlock
<1> DEFINE none == {}
<1>8. none \subseteq update_sector /\ Tracks(m, z, update_sector, data_block_in_memory, F, newer, none, d)
  BY DEF Ready
<1> HIDE DEF none, new, W, k
<1>9. FileOff(m, z, update_sector, data_block_in_memory, F, newer, d, new, d, k, i)
  BY <1>2, <1>3, <1>4, <1>5, <1>8, FileGone DEF W
<1>10. Tracks(new, z, U2, data_block_in_memory, F, Left(newer, new), U2, d)
  BY <1>9 DEF FileOff
<1>11. Tracks(new, z, update_sector', data_block_in_memory, F, newer', update_sector', cur_dir')
  BY <1>2, <1>7, <1>10
<1> QED BY <1>11 DEF Served, new

(* What rmdir finds is a directory of files. *)
LEMMA SubjectDirectory ==
    ASSUME NEW z, NEW F, Ready(z, F), job.op = "rmdir", job.name \in Names, ~Misled,
           NEW k, k = Found(file_storage, cur_dir, job), k # 0
    PROVE  \E i \in Subjects : InDirectory(file_storage, file_storage, z, cur_dir, k, i)
<1> DEFINE m == file_storage
           W == Complete(m, z)
           d == cur_dir
<1>1. /\ m \in Image /\ OnDisk(z) /\ Sound(W) /\ BlocksSound(W) /\ d \in Dirs(m) /\ d \in Inodes /\ Shallow(W)
      /\ Live(W) = Live(m) /\ Dirs(W) = Dirs(m)
  BY ReadyIs
<1>2. PICK i \in Subjects : /\ Lists(Listing(W), d, k, i) /\ i \in Live(m) /\ i = Children(m, d)[k].loc
                            /\ Matches(m, d, job, k)
  BY SubjectListed
<1>3. i \in Dirs(m)
  BY <1>2 DEF Matches, Dirs
<1>4. TreeOn(Live(W), Listing(W))
  BY <1>1 DEF Sound
<1>5. i # d /\ i # 0
  BY <1>2, <1>4, ListsOther
<1>6. InMemory(m, m.inode[d].direct[0]) /\ InMemory(m, m.inode[i].direct[0])
  BY LookedHeld DEF DirBlock
<1>7. \A j \in ToSet(Locations(m, i)) : IndexHeld(m, j)
  BY LookedHeld
<1>8. m.inode[i].direct[0] \in Blocks /\ i \in Inodes
  BY <1>1, <1>3, MemoryChildren
<1>9. Children(m, i) = Children(W, i)
  BY <1>1, <1>6, <1>8, CompleteChildren
<1>10. /\ Locations(m, i) \in Seq(Live(m)) /\ Len(Locations(m, i)) = Len(Children(m, i))
       /\ \A l \in 1..Len(Children(m, i)) : Locations(m, i)[l] = Children(m, i)[l].loc
  BY <1>1, <1>3, LocationsLive
<1>11. Flat(W, i)
  BY <1>1, <1>3, <1>5 DEF Shallow
<1> HIDE DEF W
<1>12. ASSUME NEW l \in 1..Len(Children(W, i)), Children(W, i)[l].name \notin {".", ".."}
       PROVE  Children(W, i)[l].loc \in Files(m) /\ IndexHeld(m, Children(W, i)[l].loc)
  <2>1. Children(W, i)[l].loc \notin Dirs(m)
    BY <1>1, <1>11, <1>12 DEF Flat
  <2>2. Children(W, i)[l].loc \in Live(m)
    BY <1>1, <1>3, EntryLive
  <2>3. Locations(m, i)[l] \in ToSet(Locations(m, i))
    BY <1>9, <1>10, SeqElements
  <2> QED BY <1>7, <1>9, <1>10, <2>1, <2>2, <2>3 DEF Files
<1>13. InDirectory(m, m, z, d, k, i)
  BY <1>2, <1>3, <1>5, <1>6, <1>12 DEF InDirectory, W
<1> QED BY <1>13

(* rmdir *)
LEMMA RemoveDirectoryServes ==
    ASSUME NEW z, NEW F, Ready(z, F), job.op = "rmdir", job.name \in Names, ~Misled, cmd_rmdir(job.name),
           List({DirBlock(cur_dir)} \cup Flipped, {})
    PROVE  Served(z, F, update_sector')
<1> DEFINE m == file_storage
           W == Complete(m, z)
           d == cur_dir
           k == Found(m, d, job)
           new == file_storage'
<1>1. k = EntryOf(m, d, Directory, job.name)
  BY DEF Found
<1>2. k # 0 /\ (\E stale \in Inodes : new = dir_delete(m, d, k, stale)) /\ cur_dir' = d
  BY <1>1 DEF cmd_rmdir
<1>3. PICK i \in Subjects : InDirectory(m, m, z, d, k, i)
  BY <1>2, SubjectDirectory
<1>4. PICK stale : new = dir_delete(m, d, k, stale)
  BY <1>2
<1> DEFINE xd == m.inode[d].direct[0]
           xi == m.inode[i].direct[0]
           U == update_sector \cup {xd, xi}
<1>5. InMemory(m, xd) /\ InMemory(m, xi) /\ i \in Dirs(m)
  BY <1>3 DEF InDirectory
<1>6. /\ m \in Image /\ OnDisk(z) /\ Sound(W) /\ BlocksSound(W) /\ d \in Dirs(m)
      /\ Resident(m, z, F) /\ update_sector \subseteq Sectors
  BY ReadyIs
<1>7. xd \in Blocks /\ xi \in Blocks
  BY <1>5, <1>6, MemoryChildren
<1>8. m.data_bitmap[xi]
  <2>1. i \in Dirs(W) /\ W.inode = m.inode /\ W.data_bitmap = m.data_bitmap
    BY <1>5, <1>6, CompleteMembers
  <2> QED BY <1>6, <2>1, SoundImage
<1> DEFINE none == {}
<1>9. none \subseteq none /\ Tracks(m, z, update_sector, data_block_in_memory, F, newer, none, d)
  BY DEF Ready
<1>10. /\ update_sector \subseteq U /\ U \subseteq Sectors /\ \A b \in U \ update_sector : InMemory(m, b)
       /\ F \subseteq F /\ none \subseteq U /\ xd \in U /\ xi \in U
  BY <1>5, <1>6, <1>7 DEF Sectors
<1> HIDE DEF none, U, W, k, new
<1>11. Tracks(m, z, U, data_block_in_memory, F, newer, none, d)
  BY <1>6, <1>9, <1>10, TracksMore
<1>12. DirEmptied(m, z, U, data_block_in_memory, F, newer, d, i, new)
  BY <1>3, <1>4, <1>10, <1>11, DirectoryEmptied
<1>13. /\ Tracks(new, z, U \cup Switched(m, new), data_block_in_memory, F, Left(newer, new), U \cup Switched(m, new), d)
       /\ ~new.data_bitmap[xi]
  BY <1>12 DEF DirEmptied
<1>14. xi \in Switched(m, new)
  BY <1>7, <1>8, <1>13 DEF Switched
<1>15. U \cup Switched(m, new) = update_sector \cup ({xd} \cup Switched(m, new))
  BY <1>14 DEF U
<1>16. update_sector' = update_sector \cup ({DirBlock(cur_dir)} \cup Flipped) /\ newer' = Left(newer \cup {}, file_storage')
  BY ListIs
<1>17. update_sector' = U \cup Switched(m, new) /\ newer' = Left(newer, new)
  BY <1>15, <1>16 DEF Flipped, Switched, DirBlock, new
<1>18. Tracks(new, z, update_sector', data_block_in_memory, F, newer', update_sector', cur_dir')
  BY <1>2, <1>13, <1>17
<1> QED BY <1>18 DEF Served, new

(* Both *)
LEMMA UnlinkServes ==
    ASSUME NEW z, NEW F, Ready(z, F), job.name \in Names, ~Misled, Unlink
    PROVE  Served(z, F, update_sector') /\ server' = "save"
<1>1. /\ job.op \in {"rm", "rmdir"} /\ List({DirBlock(cur_dir)} \cup Flipped, {}) /\ server' = "save"
      /\ job.op = "rm" => cmd_rm(job.name)
      /\ job.op = "rmdir" => cmd_rmdir(job.name)
  BY DEF Unlink, Executing, ReplyAndSave
<1>2. CASE job.op = "rm"
  BY <1>1, <1>2, RemoveServes
<1>3. CASE job.op = "rmdir"
  BY <1>1, <1>3, RemoveDirectoryServes
<1> QED BY <1>1, <1>2, <1>3

(* A refused mk or mkdir, and a name that is not there *)
LEMMA RefusedServes ==
    ASSUME NEW z, NEW F, Ready(z, F), ~Misled, job.op \notin {"start", "f", "new", "cd /"},
           NEW L, L \subseteq {DirBlock(cur_dir)}, List(L, {}), file_storage' = file_storage, cur_dir' = cur_dir
    PROVE  Served(z, F, {}) /\ Served(z, F, update_sector')
<1>1. InMemory(file_storage, DirBlock(cur_dir))
  BY LookedHeld
<1>2. DirBlock(cur_dir) \in Blocks /\ cur_dir \in Dirs(file_storage) /\ cur_dir \in F
  BY ReadyIs DEF DirBlock
<1>3. L \subseteq Sectors /\ \A b \in L : b \in Blocks => InMemory(file_storage, b)
  BY <1>1, <1>2 DEF Sectors
<1>4. cur_dir' \in Dirs(file_storage) /\ cur_dir' \in F
  BY <1>2
<1> QED BY <1>3, <1>4, ListedServes

(* What ls puts on the list is in memory. *)
LEMMA ListedHeld ==
    ASSUME NEW z, NEW F, Ready(z, F), ~Misled, job.op = "ls", NEW i \in Listed, get_file_size(file_storage, i) > 0
    PROVE  DirBlock(i) \in Blocks /\ InMemory(file_storage, DirBlock(i))
<1> DEFINE m == file_storage
<1>1. /\ m \in Image /\ OnDisk(z) /\ Sound(Complete(m, z)) /\ cur_dir \in Dirs(m)
  BY ReadyIs
<1>2. i \in Subjects /\ m.inode[i].type = File
  BY DEF Listed
<1>3. i \in Live(m)
  <2>1. Named(m, cur_dir, job) \in Seq(Live(m))
    BY <1>1, TransferredLive
  <2> QED BY <1>2, <2>1, SeqElements DEF Subjects
<1>4. i \in Files(m) /\ i \in Inodes
  BY <1>2, <1>3 DEF Files, Dirs, Live, File, Directory
<1>5. BlocksOf(m, i) \subseteq Looked
  BY <1>2 DEF Looked
<1>6. \A b \in BlocksOf(m, i) : InMemory(m, b)
  BY <1>5 DEF Misled, InMemory
<1>7. AllHeld(m, i)
  BY <1>1, <1>4, <1>6, BlocksAtPlaces DEF AllHeld
<1>8. IndexHeld(m, i)
  BY <1>7, AtIndirect DEF AllHeld, IndexHeld
<1>9. Tracks(m, z, update_sector, data_block_in_memory, F, newer, {}, cur_dir)
  BY DEF Ready
<1> DEFINE none == {}
<1>10. Tracks(m, z, update_sector, data_block_in_memory, F, newer, none, cur_dir)
  BY <1>9
<1> HIDE DEF none
<1>11. DenseFile(m, i)
  BY <1>4, <1>8, <1>10, TrackedFile
<1> DEFINE n == 0
<1>12. n \in Nat /\ n < get_file_size(m, i) /\ n = 0
  BY <1>1, <1>4, SizeTyped
<1> HIDE DEF n
<1>13. Position(m, i, n) \in Blocks /\ (\E p \in Places : At(m, i, p) = Position(m, i, n))
       /\ Position(m, i, n) = m.inode[i].direct[0]
  BY <1>1, <1>4, <1>11, <1>12, SizePositions
<1> QED BY <1>7, <1>13, NoneIsNoBlock DEF AllHeld, DirBlock

(* ls *)
LEMMA ListServes ==
    ASSUME NEW z, NEW F, Ready(z, F), ListDirectory
    PROVE  Served(z, F, {}) /\ server' = "idle"
<1>1. /\ job.op = "ls" /\ ~Misled /\ file_storage' = file_storage /\ cur_dir' = cur_dir /\ server' = "idle"
      /\ \A i \in Listed : get_file_size(file_storage, i) > 0
      /\ List({}, {}) \/ List({DirBlock(i) : i \in Listed}, {})
  BY DEF ListDirectory, Executing, ReplyOnly, Same
<1> DEFINE L == {DirBlock(i) : i \in Listed}
           none == {}
<1>2. cur_dir' \in Dirs(file_storage) /\ cur_dir' \in F
  BY <1>1, ReadyIs
<1>3. L \subseteq Blocks /\ \A b \in L : InMemory(file_storage, b)
  BY <1>1, ListedHeld
<1>4. L \subseteq Sectors /\ \A b \in L : b \in Blocks => InMemory(file_storage, b)
  BY <1>3 DEF Sectors
<1>5. none \subseteq Sectors /\ \A b \in none : b \in Blocks => InMemory(file_storage, b)
  OBVIOUS
<1>6. List(none, {}) \/ List(L, {})
  BY <1>1
<1> HIDE DEF L, none
<1>7. CASE List(L, {})
  BY <1>1, <1>2, <1>4, <1>7, ListedServes
<1>8. CASE List(none, {})
  BY <1>1, <1>2, <1>5, <1>8, ListedServes
<1> QED BY <1>1, <1>6, <1>7, <1>8

\* cd leads up to the root, or one step on.
Moves == \/ job.op = "cd /" /\ cur_dir' = 0
         \/ /\ job.op = "cd" /\ job.name \in Names \cup {".."}
            /\ cur_dir' = Enter(cur_dir, job.name)

(* Where cd leads *)
LEMMA MovesIs ==
    ASSUME \/ job.op = "cd" /\ job.name \in Names \cup {".."} /\ cmd_cd(FALSE, <<job.name>>)
           \/ job.op = "cd /" /\ cmd_cd(TRUE, <<>>)
    PROVE  Moves
<1>1. CASE job.op = "cd" /\ job.name \in Names \cup {".."} /\ cmd_cd(FALSE, <<job.name>>)
  <2>1. <<job.name>> \in Seq(Names \cup {".", ".."})
    BY <1>1, PathOne
  <2>2. \E g : Walk(g, <<job.name>>, IF FALSE THEN 0 ELSE cur_dir) /\ cur_dir' = g[Len(<<job.name>>)]
    BY <1>1, <2>1, WalkUnfolds
  <2>3. \E g : Walk(g, <<job.name>>, cur_dir) /\ cur_dir' = g[Len(<<job.name>>)]
    BY <2>2, Zenon
  <2>4. cur_dir' = Enter(cur_dir, job.name)
    BY <2>3, WalkOne, Zenon
  <2> QED BY <1>1, <2>4 DEF Moves
<1>2. CASE job.op = "cd /" /\ cmd_cd(TRUE, <<>>)
  <2>1. <<>> \in Seq(Names \cup {".", ".."})
    BY PathOne
  <2>2. \E g : Walk(g, <<>>, IF TRUE THEN 0 ELSE cur_dir) /\ cur_dir' = g[Len(<<>>)]
    BY <1>2, <2>1, WalkUnfolds
  <2>3. \E g : Walk(g, <<>>, 0) /\ cur_dir' = g[Len(<<>>)]
    BY <2>2, Zenon
  <2>4. cur_dir' = 0
    BY <2>3, WalkOne, Zenon
  <2> QED BY <1>2, <2>4 DEF Moves
<1> QED BY <1>1, <1>2

(* It is a directory, whose flag is set. *)
LEMMA Entered ==
    ASSUME NEW z, NEW F, Ready(z, F), ToSet(Transferred(file_storage, cur_dir, job)) \subseteq F, Moves
    PROVE  cur_dir' \in Dirs(file_storage) /\ cur_dir' \in F
<1> DEFINE m == file_storage
           k == Found(m, cur_dir, job)
<1>1. /\ m \in Image /\ OnDisk(z) /\ Sound(Complete(m, z)) /\ cur_dir \in Dirs(m) /\ cur_dir \in F /\ 0 \in F
      /\ Dirs(Complete(m, z)) = Dirs(m)
  BY ReadyIs
<1>2. CASE cur_dir' = 0
  <2>1. 0 \in Dirs(m)
    BY <1>1 DEF Sound, TreeOn, DirectoriesOf, Listing
  <2> QED BY <1>1, <1>2, <2>1
<1>3. CASE /\ job.op = "cd" /\ job.name \in Names \cup {".."}
           /\ cur_dir' = Enter(cur_dir, job.name)
  <2>1. k = EntryOf(m, cur_dir, Directory, job.name)
    BY <1>3 DEF Found
  <2>2. CASE k = 0
    BY <1>1, <1>3, <2>1, <2>2 DEF Enter
  <2>3. CASE k # 0
    <3> DEFINE i == Children(m, cur_dir)[k].loc
    <3>1. cur_dir' = i
      BY <1>3, <2>1, <2>3 DEF Enter
    <3>2. i \in Subjects
      BY <1>3, <2>3, FoundSubject
    <3>3. i \in Live(m) /\ Matches(m, cur_dir, job, k)
      BY <1>3, <3>2, SubjectIs
    <3>4. i \in Dirs(m)
      BY <1>3, <3>3 DEF Matches, Dirs
    <3>5. Named(m, cur_dir, job) = <<i>>
      <4>1. Named(m, cur_dir, job) # <<>>
        BY <1>3, <2>3 DEF Named
      <4> QED BY <1>1, <1>3, <4>1, TransferredLive
    <3>6. Transferred(m, cur_dir, job) = <<cur_dir>> \o <<i>>
      BY <1>3, <3>5 DEF Transferred
    <3> HIDE DEF i
    <3>7. i \in ToSet(<<cur_dir>> \o <<i>>)
      <4> DEFINE q == <<cur_dir>> \o <<i>>
      <4>1. q \in Seq({cur_dir, i}) /\ Len(q) = 2 /\ q[2] = i
        OBVIOUS
      <4> HIDE DEF q
      <4>2. i \in ToSet(q)
        BY <4>1, SeqElements
      <4> QED BY <4>2 DEF q
    <3> QED BY <3>1, <3>4, <3>6, <3>7
  <2> QED BY <2>2, <2>3
<1> QED BY <1>2, <1>3 DEF Moves

(* cd *)
LEMMA EnterServes ==
    ASSUME NEW z, NEW F, Ready(z, F), ToSet(Transferred(file_storage, cur_dir, job)) \subseteq F,
           job.op = "cd" => job.name \in Names \cup {".."}, EnterDirectory
    PROVE  /\ Served(z, F, {}) /\ Served(z, F, update_sector') /\ server' \in {"save", "idle"}
<1>1. /\ List({}, {}) /\ server' \in {"save", "idle"} /\ file_storage' = file_storage
      /\ \/ job.op = "cd" /\ cmd_cd(FALSE, <<job.name>>)
         \/ job.op = "cd /" /\ cmd_cd(TRUE, <<>>)
  BY DEF EnterDirectory, Executing, ReplyAndSave, ReplyOnly, cmd_cd
<1>5. Moves
  BY <1>1, MovesIs
<1>2. cur_dir' \in Dirs(file_storage) /\ cur_dir' \in F
  BY <1>5, Entered
<1> DEFINE none == {}
<1>3. none \subseteq Sectors /\ (\A b \in none : b \in Blocks => InMemory(file_storage, b)) /\ List(none, {})
  BY <1>1
<1> HIDE DEF none
<1>4. Served(z, F, {}) /\ Served(z, F, update_sector')
  BY <1>1, <1>2, <1>3, ListedServes
<1> QED BY <1>1, <1>4

(* Memory that was never written, and what f makes of it, are images. *)
LEMMA BlankIs ==
    /\ Blank \in Image /\ AfterFormat \in Image
    /\ Blank.inode_bitmap = Formatted.inode_bitmap /\ Blank.data_bitmap = Formatted.data_bitmap
    /\ Blank.inode = Formatted.inode /\ \A b \in Blocks : Blank.sector[b] = Unread
    /\ AfterFormat.inode_bitmap = Formatted.inode_bitmap /\ AfterFormat.data_bitmap = Formatted.data_bitmap
    /\ AfterFormat.inode = Formatted.inode /\ AfterFormat.sector[RootBlock] = Formatted.sector[RootBlock]
    /\ \A b \in Blocks \ {RootBlock} : AfterFormat.sector[b] = Unread
<1> DEFINE fi == Formatted.inode_bitmap
           fd == Formatted.data_bitmap
           fn == Formatted.inode
           fs == Formatted.sector
           none == [b \in Blocks |-> Unread]
           root == [none EXCEPT ![RootBlock] = fs[RootBlock]]
<1>1. Formatted \in Image
  BY FormattedTyped
<1>2. fi \in [Inodes -> BOOLEAN] /\ fd \in [Blocks -> BOOLEAN] /\ fn \in [Inodes -> Inode] /\ fs \in [Blocks -> Sector]
      /\ Formatted = [inode_bitmap |-> fi, data_bitmap |-> fd, inode |-> fn, sector |-> fs]
  BY <1>1 DEF Image
<1>3. Unread \in Sector /\ RootBlock \in Blocks
  BY ConstantsTyped DEF Sector, Unread
<1>4. Blank = [inode_bitmap |-> fi, data_bitmap |-> fd, inode |-> fn, sector |-> none]
  <2> HIDE DEF fi, fd, fn, fs, none
  <2>1. [Formatted EXCEPT !.sector = none] = [inode_bitmap |-> fi, data_bitmap |-> fd, inode |-> fn, sector |-> none]
    BY <1>2
  <2> QED BY <2>1 DEF Blank, none
<1>5. none \in [Blocks -> Sector] /\ \A b \in Blocks : none[b] = Unread
  BY <1>3
<1>6. AfterFormat = [inode_bitmap |-> fi, data_bitmap |-> fd, inode |-> fn, sector |-> root]
  <2> DEFINE x == fs[RootBlock]
  <2> HIDE DEF fi, fd, fn, fs, none, x
  <2>1. [Blank EXCEPT !.sector[RootBlock] = x] = [inode_bitmap |-> fi, data_bitmap |-> fd, inode |-> fn, sector |-> [none EXCEPT ![RootBlock] = x]]
    BY <1>4
  <2> QED BY <2>1 DEF AfterFormat, x, fs
<1> HIDE DEF fi, fd, fn, fs, none
<1>7. root \in [Blocks -> Sector] /\ root[RootBlock] = fs[RootBlock] /\ \A b \in Blocks \ {RootBlock} : root[b] = Unread
  BY <1>2, <1>3, <1>5
<1> HIDE DEF root
<1>8. Blank \in Image /\ AfterFormat \in Image
  BY <1>2, <1>4, <1>5, <1>6, <1>7 DEF Image
<1>9. Blank.inode_bitmap = fi /\ Blank.data_bitmap = fd /\ Blank.inode = fn /\ Blank.sector = none
  BY <1>4
<1>10. AfterFormat.inode_bitmap = fi /\ AfterFormat.data_bitmap = fd /\ AfterFormat.inode = fn /\ AfterFormat.sector = root
  BY <1>6
<1> QED BY <1>5, <1>7, <1>8, <1>9, <1>10 DEF fi, fd, fn, fs

(* f *)
LEMMA FormatTracks ==
    ASSUME NEW z, OnDisk(z)
    PROVE  Tracks(AfterFormat, z, Sectors, Sectors, {0}, {}, Sectors, 0)
<1> DEFINE m == AfterFormat
           W == Complete(m, z)
<1>1. m \in Image
  BY BlankIs
<1>2. RootBlock \in Blocks /\ InMemory(m, RootBlock)
  <2>1. m.sector[RootBlock] = Dir(<<[name |-> ".", loc |-> 0]>>)
    BY BlankIs, FormattedTyped
  <2> DEFINE one == <<[name |-> ".", loc |-> 0]>>
  <2>2. m.sector[RootBlock] = Dir(one)
    BY <2>1
  <2> HIDE DEF one
  <2> QED BY <2>2, Kinds, ConstantsTyped DEF InMemory
<1>3. Formatlike(W)
  <2>1. /\ W \in Image /\ W.inode_bitmap = m.inode_bitmap /\ W.data_bitmap = m.data_bitmap /\ W.inode = m.inode
        /\ W.sector[RootBlock] = m.sector[RootBlock]
    BY <1>1, <1>2, CompleteMembers
  <2> QED BY <2>1, BlankIs DEF Formatlike
<1>4. Sound(W) /\ Live(W) = {0} /\ Dirs(W) = {0} /\ W.inode[0].direct[0] = RootBlock
  BY <1>3, FormatSound
<1>5. Live(m) = {0} /\ Dirs(m) = {0}
  BY <1>1, <1>4, CompleteMembers
<1>6. Shallow(W)
  BY <1>4 DEF Shallow
<1>7. \A p \in Places : At(W, 0, p) # None => At(W, 0, p) = RootBlock
  <2>1. OnlyFirst(W, 0)
    BY <1>4, ConstantsTyped DEF Sound, BlocksSound
  <2>2. At(W, 0, <<"direct", 0>>) = RootBlock
    <3>1. BlocksSound(W) /\ 0 \in Dirs(W)
      BY <1>4 DEF Sound
    <3> QED BY <1>4, <3>1, SoundImage
  <2> QED BY <2>1, <2>2 DEF OnlyFirst
<1> HIDE DEF m, W
<1>8. Resident(m, z, {0})
  BY <1>2, <1>7 DEF Resident, W
<1>9. \A b \in Blocks : Owned(W, b) => b = RootBlock
  BY <1>4, <1>7, NoneIsNoBlock DEF Owned
<1>10. Blocks \subseteq Sectors
  BY DEF Sectors
<1>11. \A b \in Blocks : Owned(W, b) => BlockTracks(m, z, Sectors \cup Sectors, {}, Sectors, b)
  BY <1>2, <1>9, <1>10 DEF BlockTracks
<1>12. Files(m) = {}
  BY <1>5 DEF Files
<1>13. Tracks(m, z, Sectors, Sectors, {0}, {}, Sectors, 0)
  BY <1>1, <1>4, <1>5, <1>6, <1>8, <1>11, <1>12 DEF Tracks, W
<1> QED BY <1>13 DEF m

\* After the step memory and disk go together.
ServedAll(z) == Tracks(file_storage', z, update_sector', data_block_in_memory', file_in_memory', newer',
                       IF server' = "save" THEN update_sector' ELSE {}, cur_dir')

(* f *)
LEMMA FormatServes ==
    ASSUME NEW z, OnDisk(z), Format, update_sector \subseteq Sectors, file_in_memory = {}, newer = {}
    PROVE  ServedAll(z) /\ server' = "save" /\ inited' = TRUE
<1>1. /\ job.op = "f" /\ file_storage' = AfterFormat /\ cur_dir' = 0 /\ inited' = TRUE /\ data_block_in_memory' = Sectors
      /\ Flag({0}) /\ List(Sectors, {}) /\ server' = "save"
  BY DEF Format, Executing, ReplyAndSave
<1>2. update_sector' = Sectors /\ newer' = {}
  BY <1>1 DEF List
<1>3. Transferred(file_storage, cur_dir, job) = <<>>
  BY <1>1 DEF Transferred
<1>4. file_in_memory' = {0}
  BY <1>1, <1>3 DEF Flag, ToSet
<1>5. Tracks(AfterFormat, z, Sectors, Sectors, {0}, {}, Sectors, 0)
  BY FormatTracks
<1> QED BY <1>1, <1>2, <1>4, <1>5 DEF ServedAll

----------------------------------------------------------------------------
(* All commands *)

\* The server has a command to serve that an orderly client sent.
Due == /\ job.op \in Commands \cup {"ls", "cd /"}
       /\ job.op \in Commands \ {"cd"} => job.name \in Names
       /\ job.op = "cd" => job.name \in Names \cup {".."}
       /\ Orderly(job.op, job.name)

(* A command on one file *)
LEMMA FileServes ==
    ASSUME NEW z, NEW F, Ready(z, F), ResizesFiles, ~Misled, NEW i \in Subjects,
           Resize(i) \/ OverwriteFile(i) \/ Insert(i) \/ Delete(i) \/ Show(i), server' # "spinning"
    PROVE  Served(z, F, update_sector') /\ server' = "save"
<1>1. CASE Resize(i)
  BY <1>1, ResizeServes
<1>2. CASE OverwriteFile(i)
  BY <1>2, OverwriteServes
<1>3. CASE Insert(i)
  BY <1>3, InsertServes
<1>4. CASE Delete(i)
  BY <1>4, DeleteServes
<1>5. CASE Show(i)
  <2>1. PICK first \in MaybeFirst(file_storage', i) : List(first, {})
    BY <1>5 DEF Show
  <2>2. job.op = "cat" /\ file_storage' = file_storage /\ cur_dir' = cur_dir /\ server' = "save"
    BY <1>5 DEF Show, ReplyAndSave, Same
  <2>3. first \in MaybeFirst(file_storage, i)
    BY <2>1, <2>2
  <2> QED BY <2>1, <2>2, <2>3, ShowServes
<1> QED BY <1>1, <1>2, <1>3, <1>4, <1>5

(* Flags are set, and memory and disk go together as the flags say. *)
LEMMA DueReady ==
    ASSUME NEW z, Tracks(file_storage, z, update_sector, data_block_in_memory, file_in_memory, newer, {}, cur_dir),
           sector_idx = 0, Awaits(file_storage, data_block_in_memory, file_in_memory, cur_dir, job, sector_idx)
    PROVE  Ready(z, file_in_memory \cup ToSet(Transferred(file_storage, cur_dir, job)))
<1> DEFINE S == ToSet(Transferred(file_storage, cur_dir, job))
           none == {}
<1>1. \A i \in S : Lacking(file_storage, data_block_in_memory, file_in_memory, job, i) = {}
  BY BlockNumbers DEF Awaits
<1>2. Tracks(file_storage, z, update_sector, data_block_in_memory, file_in_memory, newer, none, cur_dir)
  OBVIOUS
<1> HIDE DEF S, none
<1>3. Tracks(file_storage, z, update_sector, data_block_in_memory, file_in_memory \cup S, newer, none, cur_dir)
  BY <1>1, <1>2, FlagTracks
<1> QED BY <1>3 DEF none, S, Ready

\* The command is done; the flags are those of F.
Done(z, F) == /\ server' \in {"save", "idle"} /\ inited' = inited /\ data_block_in_memory' = data_block_in_memory
              /\ file_in_memory' = F
              /\ \/ Served(z, F, {})
                 \/ server' = "save" /\ Served(z, F, update_sector')
              /\ server' = "save" => Served(z, F, update_sector')

(* What is done goes with the disk. *)
LEMMA DoneAll ==
    ASSUME NEW z, NEW F, Done(z, F)
    PROVE  ServedAll(z)
<1>1. CASE server' = "save"
  BY <1>1 DEF Done, Served, ServedAll
<1>2. CASE server' # "save"
  <2>1. Served(z, F, {})
    BY <1>2 DEF Done
  <2> QED BY <1>2, <2>1 DEF Done, Served, ServedAll
<1> QED BY <1>1, <1>2

(* A command that adds nothing to the flags *)
LEMMA FlagsAre ==
    ASSUME NEW F, F = file_in_memory \cup ToSet(Transferred(file_storage, cur_dir, job)), NEW more, Flag(more)
    PROVE  file_in_memory' = F \cup more
BY DEF Flag

(* Every command that is due *)
LEMMA CommandServes ==
    ASSUME NEW z, Tracks(file_storage, z, update_sector, data_block_in_memory, file_in_memory, newer, {}, cur_dir),
           sector_idx = 0, Awaits(file_storage, data_block_in_memory, file_in_memory, cur_dir, job, sector_idx),
           Due, Command, server' \notin {"dead", "undefined", "spinning"}
    PROVE  ServedAll(z) /\ server' \in {"save", "idle"} /\ inited' = inited
<1> DEFINE F == file_in_memory \cup ToSet(Transferred(file_storage, cur_dir, job))
           none == {}
<1>1. Ready(z, F)
  BY DueReady
<1>2. /\ job.op \notin {"start", "new", "f"}
      /\ job.op = "mkdir" => cur_dir = 0
      /\ job.op \in {"mk", "mkdir", "rm", "rmdir"} => job.name \in Names
      /\ job.op = "cd" => job.name \in Names \cup {".."}
      /\ ResizesFiles
  BY DEF Due, Orderly, ResizesFiles, Commands
<1>3. F = file_in_memory \cup ToSet(Transferred(file_storage, cur_dir, job)) /\ ToSet(Transferred(file_storage, cur_dir, job)) \subseteq F
  OBVIOUS
<1> HIDE DEF F
<1>4. \A more : Flag(more) => file_in_memory' = F \cup more
  BY <1>3, FlagsAre
<1>5. Flag({}) => file_in_memory' = F
  BY <1>4
<1>6. ASSUME NEW G, Done(z, G)
      PROVE  ServedAll(z) /\ server' \in {"save", "idle"} /\ inited' = inited
  BY <1>6, DoneAll DEF Done
<1>7. ~Started /\ ~Format /\ ~NullPointer /\ ~Mistaken
  BY <1>2 DEF Started, Format, Executing, NullPointer, Mistaken
<1>8. CASE Make
  <2>1. ~Misled
    BY <1>8 DEF Make, Executing
  <2>2. job.name \in Names
    BY <1>2, <1>8 DEF Make, Executing
  <2>3. Served(z, F \cup {InodeSector}, update_sector') /\ server' = "save"
    BY <1>1, <1>2, <1>8, <2>1, <2>2, MakeServes
  <2>4. file_in_memory' = F \cup {InodeSector} /\ inited' = inited /\ data_block_in_memory' = data_block_in_memory
    BY <1>4, <1>8 DEF Make, Same
  <2>5. Done(z, F \cup {InodeSector})
    BY <2>3, <2>4 DEF Done
  <2> QED BY <1>6, <2>5
<1>9. ASSUME NEW L, L \subseteq {DirBlock(cur_dir)}, List(L, {}), file_storage' = file_storage, Flag({}), Same, ~Misled,
             job.op \notin {"start", "f", "new", "cd /"}, server' \in {"save", "idle"}
      PROVE  Done(z, F)
  <2>1. cur_dir' = cur_dir /\ inited' = inited /\ data_block_in_memory' = data_block_in_memory
    BY <1>9 DEF Same
  <2>2. Served(z, F, {}) /\ Served(z, F, update_sector')
    BY <1>1, <1>9, <2>1, RefusedServes
  <2> QED BY <1>5, <1>9, <2>1, <2>2 DEF Done
<1>10. CASE MakeFails
  <2> DEFINE L == {DirBlock(cur_dir)}
  <2>1. /\ L \subseteq {DirBlock(cur_dir)} /\ List(L, {}) /\ file_storage' = file_storage /\ Flag({}) /\ Same /\ ~Misled
        /\ job.op \notin {"start", "f", "new", "cd /"} /\ server' \in {"save", "idle"}
    BY <1>10 DEF MakeFails, Executing, ReplyOnly
  <2> HIDE DEF L
  <2>2. Done(z, F)
    BY <1>9, <2>1
  <2> QED BY <1>6, <2>2
<1>11. CASE NotFound
  <2> DEFINE L == IF job.op \in {"rm", "rmdir"} THEN {DirBlock(cur_dir)} ELSE {}
  <2>1. /\ L \subseteq {DirBlock(cur_dir)} /\ List(L, {}) /\ file_storage' = file_storage /\ Flag({}) /\ Same /\ ~Misled
        /\ job.op \notin {"start", "f", "new", "cd /"} /\ server' \in {"save", "idle"}
    BY <1>11 DEF NotFound, Executing, ReplyOnly, ReplyAndSave
  <2> HIDE DEF L
  <2>2. Done(z, F)
    BY <1>9, <2>1
  <2> QED BY <1>6, <2>2
<1>12. CASE Unlink
  <2>1. ~Misled /\ Flag({}) /\ inited' = inited /\ data_block_in_memory' = data_block_in_memory
    BY <1>12 DEF Unlink, Executing, Same
  <2>2. job.name \in Names
    BY <1>2, <1>12 DEF Unlink, Executing
  <2>3. Served(z, F, update_sector') /\ server' = "save"
    BY <1>1, <1>12, <2>1, <2>2, UnlinkServes
  <2>4. Done(z, F)
    BY <1>5, <2>1, <2>3 DEF Done
  <2> QED BY <1>6, <2>4
<1>13. CASE EnterDirectory
  <2>1. Flag({}) /\ inited' = inited /\ data_block_in_memory' = data_block_in_memory
    BY <1>13 DEF EnterDirectory
  <2>2. Served(z, F, {}) /\ Served(z, F, update_sector') /\ server' \in {"save", "idle"}
    BY <1>1, <1>2, <1>3, <1>13, EnterServes
  <2>3. Done(z, F)
    BY <1>5, <2>1, <2>2 DEF Done
  <2> QED BY <1>6, <2>3
<1>14. CASE ListDirectory
  <2>1. Flag({}) /\ inited' = inited /\ data_block_in_memory' = data_block_in_memory
    BY <1>14 DEF ListDirectory, Same
  <2>2. Served(z, F, {}) /\ server' = "idle"
    BY <1>1, <1>14, ListServes
  <2>3. Done(z, F)
    BY <1>5, <2>1, <2>2 DEF Done
  <2> QED BY <1>6, <2>3
<1>15. ASSUME Executing(job.op),
              NEW i \in Subjects, Resize(i) \/ OverwriteFile(i) \/ Insert(i) \/ Delete(i) \/ Show(i)
       PROVE  ServedAll(z) /\ server' \in {"save", "idle"} /\ inited' = inited
  <2>1. ~Misled
    BY <1>15 DEF Executing
  <2>2. Served(z, F, update_sector') /\ server' = "save"
    BY <1>1, <1>2, <1>15, <2>1, FileServes
  <2>3. Flag({}) /\ inited' = inited /\ data_block_in_memory' = data_block_in_memory
    <3>1. CASE Resize(i)
      BY <3>1 DEF Resize, Same
    <3>2. CASE OverwriteFile(i)
      BY <3>2 DEF OverwriteFile, Same
    <3>3. CASE Insert(i)
      BY <3>3 DEF Insert, Same
    <3>4. CASE Delete(i)
      BY <3>4 DEF Delete, Same
    <3>5. CASE Show(i)
      BY <3>5 DEF Show, Same
    <3> QED BY <1>15, <3>1, <3>2, <3>3, <3>4, <3>5
  <2>4. Done(z, F)
    BY <1>5, <2>2, <2>3 DEF Done
  <2> QED BY <1>6, <2>4
<1> QED BY <1>7, <1>8, <1>10, <1>11, <1>12, <1>13, <1>14, <1>15 DEF Command

----------------------------------------------------------------------------
(* What goes over the socket, when sectors hold the values of C *)

Requests(C) == [op : {"W"}, sector : Sectors, data : C]
               \cup [op : {"R"}, sector : Sectors]
               \cup [op : {"E"}]

\* get_sector_from_disk waits in recv for what it asked for.
Quiet == Link!Asked = {} /\ reply = <<>>

Sends(C) == \/ \E s \in Sectors : \/ \E c \in C : Link!SendWrite(s, c)
                                  \/ Link!SendRead(s)
                                  \/ Link!CutWrite(s)
            \/ Link!SendExit

LinkNext(C) == \/ Quiet /\ Sends(C)
               \/ Link!GetReply \/ Link!Connect \/ Link!DiskStep \/ Link!DiskSpins

LinkSpec(C) == /\ Link!LinkInit /\ store \in [Sectors -> C]
               /\ [][LinkNext(C)]_linkVars

----------------------------------------------------------------------------
(* The last write of a sector in a sequence of requests *)

WritesIn(w, s) == {k \in 1..Len(w) : w[k].op = "W" /\ w[k].sector = s}

IsLast(w, s, m) == m \in WritesIn(w, s) /\ \A j \in WritesIn(w, s) : j <= m

HasLast(w, s) == WritesIn(w, s) = {} \/ \E m \in WritesIn(w, s) : IsLast(w, s, m)

\* What the sector holds at the end, if it holds c at the beginning.
After(w, s, c) == IF WritesIn(w, s) = {} THEN c ELSE w[Max(WritesIn(w, s))].data

\* The greatest element, once it is known, is Max.
LEMMA MaxIs ==
    ASSUME NEW S \in SUBSET Nat, NEW m \in S, \A j \in S : j <= m
    PROVE  Max(S) = m
<1>1. \A x \in S : (\A y \in S : x >= y) => x = m
  OBVIOUS
<1>2. \A y \in S : m >= y
  OBVIOUS
<1> DEFINE P(x) == x \in S /\ \A y \in S : x >= y
<1>3. P(CHOOSE x : P(x))
  BY <1>2
<1>4. Max(S) = CHOOSE x : P(x)
  BY DEF Max
<1> QED BY <1>1, <1>3, <1>4

\* The sector ends as its last write says.
LEMMA AfterLast ==
    ASSUME NEW C, NEW w \in Seq(Requests(C)), NEW s, NEW c, NEW m, IsLast(w, s, m)
    PROVE  After(w, s, c) = w[m].data
<1>1. WritesIn(w, s) \in SUBSET Nat
  BY DEF WritesIn
<1>2. Max(WritesIn(w, s)) = m
  BY <1>1, MaxIs DEF IsLast
<1> QED BY <1>2 DEF After, IsLast

\* A write that is appended is the last one of its sector; of another sector nothing changes.
LEMMA AppendWrite ==
    ASSUME NEW C, NEW w \in Seq(Requests(C)), NEW r \in Requests(C), NEW s, NEW c, HasLast(w, s)
    PROVE  /\ HasLast(Append(w, r), s)
           /\ (r.op = "W" /\ r.sector = s) => After(Append(w, r), s, c) = r.data
           /\ ~(r.op = "W" /\ r.sector = s) => After(Append(w, r), s, c) = After(w, s, c)
<1> DEFINE v == Append(w, r)
<1>1. /\ v \in Seq(Requests(C)) /\ Len(v) = Len(w) + 1 /\ v[Len(w) + 1] = r
      /\ \A k \in 1..Len(w) : v[k] = w[k]
      /\ Len(w) \in Nat
  OBVIOUS
<1> HIDE DEF v
<1>2. CASE r.op = "W" /\ r.sector = s
  <2>1. IsLast(v, s, Len(w) + 1)
    BY <1>1, <1>2 DEF IsLast, WritesIn
  <2>2. HasLast(v, s)
    BY <2>1 DEF HasLast, IsLast
  <2>3. After(v, s, c) = r.data
    BY <1>1, <2>1, AfterLast
  <2> QED BY <1>2, <2>2, <2>3 DEF v
<1>3. CASE ~(r.op = "W" /\ r.sector = s)
  <2>1. WritesIn(v, s) = WritesIn(w, s)
    BY <1>1, <1>3 DEF WritesIn
  <2>2. HasLast(v, s)
    BY <2>1 DEF HasLast, IsLast
  <2>3. CASE WritesIn(w, s) = {}
    BY <2>1, <2>2, <2>3, <1>3 DEF After, v
  <2>4. CASE WritesIn(w, s) # {}
    <3>1. PICK m \in WritesIn(w, s) : IsLast(w, s, m)
      BY <2>4 DEF HasLast
    <3>2. IsLast(v, s, m)
      BY <2>1, <3>1 DEF IsLast
    <3>3. v[m] = w[m]
      BY <1>1, <3>1 DEF WritesIn
    <3>4. After(v, s, c) = After(w, s, c)
      BY <1>1, <3>1, <3>2, <3>3, AfterLast
    <3> QED BY <1>3, <2>2, <3>4 DEF v
  <2> QED BY <2>3, <2>4
<1> QED BY <1>2, <1>3

\* Serving the first request changes nothing, if a write among them reaches the sector.
LEMMA TailWrite ==
    ASSUME NEW C, NEW w \in Seq(Requests(C)), w # <<>>, NEW s, NEW c, HasLast(w, s)
    PROVE  /\ HasLast(Tail(w), s)
           /\ (Head(w).op = "W" /\ Head(w).sector = s)
                 => After(Tail(w), s, Head(w).data) = After(w, s, c)
           /\ ~(Head(w).op = "W" /\ Head(w).sector = s)
                 => After(Tail(w), s, c) = After(w, s, c)
<1> DEFINE v == Tail(w)
<1> DEFINE d == IF Head(w).op = "W" /\ Head(w).sector = s THEN Head(w).data ELSE c
<1>1. /\ v \in Seq(Requests(C)) /\ Len(v) = Len(w) - 1 /\ Head(w) = w[1]
      /\ \A k \in 1..Len(v) : v[k] = w[k + 1]
      /\ Len(w) \in Nat /\ Len(w) > 0
  OBVIOUS
<1> HIDE DEF v
<1>2. \A k \in Nat : k \in WritesIn(v, s) <=> k > 0 /\ k + 1 \in WritesIn(w, s)
  BY <1>1 DEF WritesIn
<1>3. WritesIn(w, s) \subseteq Nat /\ WritesIn(v, s) \subseteq Nat
  BY DEF WritesIn
<1>4. SUFFICES HasLast(v, s) /\ After(v, s, d) = After(w, s, c)
  BY DEF v
<1>5. CASE WritesIn(v, s) = {}
  <2>1. HasLast(v, s)
    BY <1>5 DEF HasLast
  <2>2. After(v, s, d) = d
    BY <1>5 DEF After
  <2>3. \A k \in WritesIn(w, s) : k = 1
    <3> TAKE k \in WritesIn(w, s)
    <3>1. k \in 1..Len(w)
      BY DEF WritesIn
    <3>2. k # 1 => k - 1 \in WritesIn(v, s)
      BY <1>1, <1>2, <3>1
    <3> QED BY <1>5, <3>2
  <2>4. CASE 1 \in WritesIn(w, s)
    <3>1. IsLast(w, s, 1)
      BY <2>3, <2>4 DEF IsLast
    <3>2. Head(w).op = "W" /\ Head(w).sector = s
      BY <1>1, <2>4 DEF WritesIn
    <3> QED BY <1>1, <2>1, <2>2, <3>1, <3>2, AfterLast
  <2>5. CASE 1 \notin WritesIn(w, s)
    <3>1. WritesIn(w, s) = {}
      BY <2>3, <2>5
    <3>2. ~(Head(w).op = "W" /\ Head(w).sector = s)
      BY <1>1, <2>5 DEF WritesIn
    <3> QED BY <2>1, <2>2, <3>1, <3>2 DEF After
  <2> QED BY <2>4, <2>5
<1>6. CASE WritesIn(v, s) # {}
  <2>1. PICK k : k \in WritesIn(v, s)
    BY <1>6
  <2>2. k \in Nat /\ k > 0 /\ k + 1 \in WritesIn(w, s)
    BY <1>2, <1>3, <2>1
  <2>3. PICK m \in WritesIn(w, s) : IsLast(w, s, m)
    BY <2>2 DEF HasLast
  <2>4. m \in Nat /\ k + 1 <= m
    BY <1>3, <2>2, <2>3 DEF IsLast
  <2>5. m - 1 \in WritesIn(v, s)
    BY <1>2, <2>2, <2>3, <2>4
  <2>6. IsLast(v, s, m - 1)
    <3>1. \A j \in WritesIn(v, s) : j <= m - 1
      <4> TAKE j \in WritesIn(v, s)
      <4>1. j \in Nat /\ j + 1 \in WritesIn(w, s)
        BY <1>2, <1>3
      <4>2. j + 1 <= m
        BY <2>3, <4>1 DEF IsLast
      <4> QED BY <2>4, <4>1, <4>2
    <3> QED BY <2>5, <3>1 DEF IsLast
  <2>7. v[m - 1] = w[m]
    <3>1. m - 1 \in 1..Len(v)
      BY <2>5 DEF WritesIn
    <3> QED BY <1>1, <2>4, <3>1
  <2>8. HasLast(v, s)
    BY <2>5, <2>6 DEF HasLast
  <2> QED BY <1>1, <2>3, <2>6, <2>7, <2>8, AfterLast
<1> QED BY <1>5, <1>6

----------------------------------------------------------------------------
(* The inductive invariant *)

\* A read is the last request, and nothing else is under way to answer.
ReadIsLast == \A k \in 1..Len(wire) : wire[k].op = "R" => k = Len(wire) /\ reply = <<>>

LinkInv(C) == /\ wire \in Seq(Requests(C))
              /\ store \in [Sectors -> C]
              /\ reply = <<>> \/ \E c \in C : reply = <<c>>
              /\ last \subseteq Sectors /\ \A x, y \in last : x = y
              /\ ReadIsLast
              /\ \A s \in Sectors : HasLast(wire, s)

\* DiskLink and this module use one Max.
LEMMA OneMax == \A S : Link!Max(S) = Max(S)
  BY DEF Link!Max, Max

\* Settled is what the requests under way leave in the sector.
LEMMA SettledIs == /\ \A s : Link!Settled(s) = After(wire, s, store[s])
                   /\ \A s : Link!Settled(s)' = After(wire', s, store'[s])
<1>1. \A w, s, c : After(w, s, c) = IF WritesIn(w, s) = {} THEN c
                                    ELSE w[Link!Max(WritesIn(w, s))].data
  BY OneMax DEF After
<1>2. \A s : Link!Settled(s) = After(wire, s, store[s])
  BY <1>1 DEF Link!Settled, Link!WritesOf, WritesIn
<1>3. \A s : Link!Settled(s)' = After(wire', s, store'[s])
  BY <1>1 DEF Link!Settled, Link!WritesOf, WritesIn
<1> QED BY <1>2, <1>3

\* What a request that is sent does to the wire and to the sectors at the end.
LEMMA Sending ==
    ASSUME NEW C, LinkInv(C), Quiet, NEW r \in Requests(C), wire' = Append(wire, r), UNCHANGED <<reply, store, last>>
    PROVE  /\ LinkInv(C)'
           /\ \A s \in Sectors : Link!Settled(s)' = IF r.op = "W" /\ r.sector = s THEN r.data ELSE Link!Settled(s)
           /\ Link!Asked' = IF r.op = "R" THEN {r.sector} ELSE {}
<1>1. /\ wire' \in Seq(Requests(C)) /\ Len(wire') = Len(wire) + 1 /\ wire'[Len(wire) + 1] = r
      /\ \A k \in 1..Len(wire) : wire'[k] = wire[k] /\ wire[k] \in Requests(C)
      /\ Len(wire) \in Nat
  BY DEF LinkInv
<1>2. \A k \in 1..Len(wire) : wire[k].op # "R"
  <2> SUFFICES ASSUME NEW k \in 1..Len(wire), wire[k].op = "R" PROVE FALSE
    OBVIOUS
  <2>1. wire[k] \in Requests(C)
    BY <1>1
  <2>2. wire[k].sector \in Sectors
    BY <2>1 DEF Requests
  <2> QED BY <2>2 DEF Quiet, Link!Asked
<1>3. \A s \in Sectors : /\ HasLast(wire', s)
                        /\ After(wire', s, store[s]) = IF r.op = "W" /\ r.sector = s THEN r.data
                                                       ELSE After(wire, s, store[s])
  <2> TAKE s \in Sectors
  <2> HasLast(wire, s) /\ wire \in Seq(Requests(C))
    BY DEF LinkInv
  <2> QED BY AppendWrite
<1>4. Link!Asked' = IF r.op = "R" THEN {r.sector} ELSE {}
  <2>1. Link!Asked' = {s \in Sectors : r.op = "R" /\ r.sector = s}
    BY <1>1, <1>2 DEF Link!Asked
  <2>2. r.op = "R" => r.sector \in Sectors
    BY DEF Requests
  <2> QED BY <2>1, <2>2
<1>5. ReadIsLast'
  BY <1>1, <1>2 DEF ReadIsLast, Quiet
<1>6. LinkInv(C)'
  BY <1>1, <1>3, <1>5 DEF LinkInv
<1> QED BY <1>3, <1>4, <1>6, SettledIs

\* A request that is served: the sectors at the end are what they were.
LEMMA ServedSectors ==
    ASSUME NEW C, LinkInv(C), wire # <<>>, wire' = Tail(wire),
           store' = IF Head(wire).op = "W" THEN [store EXCEPT ![Head(wire).sector] = Head(wire).data]
                    ELSE store
    PROVE  /\ wire' \in Seq(Requests(C))
           /\ store' \in [Sectors -> C]
           /\ \A s \in Sectors : HasLast(wire', s) /\ Link!Settled(s)' = Link!Settled(s)
           /\ \A k \in 1..Len(wire') : wire'[k] = wire[k + 1] /\ k + 1 \in 1..Len(wire)
           /\ Head(wire) = wire[1] /\ 1 \in 1..Len(wire) /\ wire[1] \in Requests(C)
           /\ Len(wire') = Len(wire) - 1 /\ Len(wire) \in Nat
<1>1. /\ wire \in Seq(Requests(C)) /\ wire' \in Seq(Requests(C))
      /\ \A k \in 1..Len(wire') : wire'[k] = wire[k + 1] /\ k + 1 \in 1..Len(wire)
      /\ Head(wire) = wire[1] /\ 1 \in 1..Len(wire) /\ wire[1] \in Requests(C)
      /\ Len(wire') = Len(wire) - 1 /\ Len(wire) \in Nat
  BY DEF LinkInv
<1>2. store \in [Sectors -> C]
  BY DEF LinkInv
<1>3. Head(wire).op = "W" => Head(wire).sector \in Sectors /\ Head(wire).data \in C
  BY <1>1 DEF Requests
<1>4. store' \in [Sectors -> C]
  BY <1>2, <1>3
<1>5. \A s \in Sectors : HasLast(wire', s) /\ After(wire', s, store'[s]) = After(wire, s, store[s])
  <2> TAKE s \in Sectors
  <2>1. HasLast(wire, s)
    BY DEF LinkInv
  <2>2. CASE Head(wire).op = "W" /\ Head(wire).sector = s
    <3>1. store'[s] = Head(wire).data
      BY <1>2, <2>2
    <3> QED BY <1>1, <2>1, <2>2, <3>1, TailWrite
  <2>3. CASE ~(Head(wire).op = "W" /\ Head(wire).sector = s)
    <3>1. store'[s] = store[s]
      BY <1>2, <2>3
    <3> QED BY <1>1, <2>1, <2>3, <3>1, TailWrite
  <2> QED BY <2>2, <2>3
<1> QED BY <1>1, <1>4, <1>5, SettledIs

\* The next request is no read: none is gone from the wire.
LEMMA ServedReads ==
    ASSUME NEW C, LinkInv(C), wire # <<>>, wire' = Tail(wire), Head(wire).op # "R", reply' = reply
    PROVE  ReadIsLast' /\ Link!Asked' = Link!Asked
<1>1. /\ \A k \in 1..Len(wire') : wire'[k] = wire[k + 1] /\ k + 1 \in 1..Len(wire)
      /\ \A k \in 1..Len(wire) : k # 1 => k - 1 \in 1..Len(wire') /\ wire'[k - 1] = wire[k]
      /\ Head(wire) = wire[1] /\ Len(wire') = Len(wire) - 1 /\ Len(wire) \in Nat
  BY DEF LinkInv
<1>2. ASSUME NEW k \in 1..Len(wire'), wire'[k].op = "R"
      PROVE  k = Len(wire') /\ reply' = <<>>
  <2>1. k + 1 \in 1..Len(wire) /\ wire'[k] = wire[k + 1] /\ k \in Int
    BY <1>1
  <2>2. k + 1 = Len(wire) /\ reply = <<>>
    BY <1>2, <2>1 DEF LinkInv, ReadIsLast
  <2>3. Len(wire') = Len(wire) - 1 /\ Len(wire) \in Nat
    BY <1>1
  <2>4. k = Len(wire')
    BY <2>1, <2>2, <2>3
  <2> QED BY <2>2, <2>4
<1>3. \A s \in Sectors : (\E k \in 1..Len(wire') : wire'[k].op = "R" /\ wire'[k].sector = s)
                       <=> (\E k \in 1..Len(wire) : wire[k].op = "R" /\ wire[k].sector = s)
  <2> TAKE s \in Sectors
  <2>1. ASSUME NEW k \in 1..Len(wire'), wire'[k].op = "R" /\ wire'[k].sector = s
        PROVE  \E j \in 1..Len(wire) : wire[j].op = "R" /\ wire[j].sector = s
    <3>1. k + 1 \in 1..Len(wire) /\ wire[k + 1] = wire'[k]
      BY <1>1
    <3> QED BY <2>1, <3>1
  <2>2. ASSUME NEW k \in 1..Len(wire), wire[k].op = "R" /\ wire[k].sector = s
        PROVE  \E j \in 1..Len(wire') : wire'[j].op = "R" /\ wire'[j].sector = s
    <3>1. k # 1
      BY <1>1, <2>2
    <3>2. k - 1 \in 1..Len(wire') /\ wire'[k - 1] = wire[k]
      BY <1>1, <3>1
    <3> QED BY <2>2, <3>2
  <2> QED BY <2>1, <2>2
<1>4. Link!Asked' = Link!Asked
  BY <1>3 DEF Link!Asked
<1> QED BY <1>2, <1>4 DEF ReadIsLast

----------------------------------------------------------------------------
(* The refinement *)

\* At the beginning nothing is under way.
LEMMA InitRefines ==
    ASSUME NEW C
    PROVE  Link!LinkInit /\ store \in [Sectors -> C] => LinkInv(C) /\ Link!Array!Init
<1> SUFFICES ASSUME Link!LinkInit, store \in [Sectors -> C] PROVE LinkInv(C) /\ Link!Array!Init
  OBVIOUS
<1>1. wire = <<>> /\ Len(wire) = 0 /\ reply = <<>> /\ last = {}
  BY DEF Link!LinkInit
<1>2. \A s \in Sectors : HasLast(wire, s)
  BY <1>1 DEF HasLast, WritesIn
<1>3. LinkInv(C)
  BY <1>1, <1>2 DEF LinkInv, ReadIsLast
<1>4. Link!Asked = {}
  BY <1>1 DEF Link!Asked
<1>5. Link!Array!Init
  BY <1>1, <1>4 DEF Link!Array!Init, Link!Array!Quiet
<1> QED BY <1>3, <1>5

\* When no sector changes, the array does not.
LEMMA ArrayStays ==
    ASSUME \A s \in Sectors : Link!Settled(s)' = Link!Settled(s)
    PROVE  [s \in Sectors |-> Link!Settled(s)]' = [s \in Sectors |-> Link!Settled(s)]
  OBVIOUS

\* A read that is served is answered with what was written last.
LEMMA ReadAnswered ==
    ASSUME NEW C, LinkInv(C), Link!DiskReads
    PROVE  LinkInv(C)' /\ \E s \in Sectors : /\ Link!Asked = {s} /\ Link!Asked' = {}
                                           /\ reply = <<>> /\ reply' = <<Link!Settled(s)>>
                                           /\ \A x \in Sectors : Link!Settled(x)' = Link!Settled(x)
<1>1. /\ wire # <<>> /\ wire' = Tail(wire) /\ Head(wire).op = "R"
      /\ store' = store /\ last' = last /\ reply' = Append(reply, store[Head(wire).sector])
  BY DEF Link!DiskReads, Link!Serving
<1>2. /\ wire' \in Seq(Requests(C)) /\ store' \in [Sectors -> C]
      /\ \A x \in Sectors : HasLast(wire', x) /\ Link!Settled(x)' = Link!Settled(x)
      /\ Head(wire) = wire[1] /\ 1 \in 1..Len(wire) /\ wire[1] \in Requests(C)
      /\ Len(wire') = Len(wire) - 1 /\ Len(wire) \in Nat
  BY <1>1, ServedSectors
<1>3. Len(wire) = 1 /\ reply = <<>>
  BY <1>1, <1>2 DEF LinkInv, ReadIsLast
<1>4. Len(wire') = 0
  BY <1>2, <1>3
<1>5. Head(wire).sector \in Sectors
  BY <1>1, <1>2 DEF Requests
<1>s. PICK s \in Sectors : s = Head(wire).sector
  BY <1>5
<1>6. store[s] \in C /\ reply' = <<store[s]>>
  BY <1>1, <1>3, <1>s DEF LinkInv
<1>7. LinkInv(C)'
  <2>1. ReadIsLast'
    BY <1>4 DEF ReadIsLast
  <2>2. last' \subseteq Sectors /\ \A x, y \in last' : x = y
    BY <1>1 DEF LinkInv
  <2>3. \E c \in C : reply' = <<c>>
    BY <1>6
  <2> QED BY <1>2, <2>1, <2>2, <2>3 DEF LinkInv
<1>8. Link!Asked = {s}
  BY <1>1, <1>2, <1>3, <1>s DEF Link!Asked
<1>9. Link!Asked' = {}
  BY <1>4 DEF Link!Asked
<1>10. Link!Settled(s) = store[s]
  <2>1. WritesIn(wire', s) = {}
    BY <1>4 DEF WritesIn
  <2>2. Link!Settled(s)' = store[s]
    BY <1>1, <2>1, SettledIs DEF After
  <2> QED BY <1>2, <2>2
<1> QED BY <1>2, <1>3, <1>6, <1>7, <1>8, <1>9, <1>10, <1>s

\* Every step of the socket and the disk server is one of the array, or none.
LEMMA StepRefines ==
    ASSUME NEW C, Data \in C, LinkInv(C), [LinkNext(C)]_linkVars
    PROVE  LinkInv(C)' /\ [Link!Array!Next]_(Link!Array!vars)
<1> DEFINE arr == [s \in Sectors |-> Link!Settled(s)]
<1> DEFINE Still == arr' = arr /\ Link!Asked' = Link!Asked /\ reply' = reply
<1>a. Still => [Link!Array!Next]_(Link!Array!vars)
  BY DEF Link!Array!vars
<1>1. ASSUME NEW s \in Sectors, NEW c \in C, Quiet, Link!SendWrite(s, c)
      PROVE  LinkInv(C)' /\ [Link!Array!Next]_(Link!Array!vars)
  <2> DEFINE r == [op |-> "W", sector |-> s, data |-> c]
  <2>1. r \in Requests(C) /\ r.op = "W" /\ r.sector = s
    BY DEF Requests
  <2>2. wire' = Append(wire, r) /\ UNCHANGED <<reply, store, last>>
    BY <1>1 DEF Link!SendWrite
  <2> HIDE DEF r
  <2>3. /\ LinkInv(C)' /\ Link!Asked' = {}
        /\ \A x \in Sectors : x # s => Link!Settled(x)' = Link!Settled(x)
    BY <1>1, <2>1, <2>2, Sending
  <2>4. arr' = [arr EXCEPT ![s] = arr'[s]]
    BY <2>3
  <2>5. Link!Array!Write(s)
    BY <1>1, <2>2, <2>3, <2>4 DEF Link!Array!Write, Link!Array!Quiet, Quiet
  <2> QED BY <2>3, <2>5 DEF Link!Array!Next
<1>2. ASSUME NEW s \in Sectors, Quiet, Link!SendRead(s)
      PROVE  LinkInv(C)' /\ [Link!Array!Next]_(Link!Array!vars)
  <2> DEFINE r == [op |-> "R", sector |-> s]
  <2>1. r \in Requests(C) /\ r.op = "R" /\ r.sector = s
    BY DEF Requests
  <2>2. wire' = Append(wire, r) /\ UNCHANGED <<reply, store, last>>
    BY <1>2 DEF Link!SendRead
  <2> HIDE DEF r
  <2>3. LinkInv(C)' /\ Link!Asked' = {s} /\ \A x \in Sectors : Link!Settled(x)' = Link!Settled(x)
    BY <1>2, <2>1, <2>2, Sending
  <2>4. Link!Array!Read(s)
    BY <1>2, <2>2, <2>3, ArrayStays DEF Link!Array!Read, Link!Array!Quiet, Quiet
  <2> QED BY <2>3, <2>4 DEF Link!Array!Next
<1>3. ASSUME NEW s \in Sectors, Quiet, Link!CutWrite(s), Data \in C
      PROVE  LinkInv(C)' /\ [Link!Array!Next]_(Link!Array!vars)
  <2>1. PICK x \in {s} \cup last : wire' = Append(wire, [op |-> "W", sector |-> x, data |-> Data])
    BY <1>3 DEF Link!CutWrite
  <2> DEFINE r == [op |-> "W", sector |-> x, data |-> Data]
  <2>2. x \in Sectors
    BY DEF LinkInv
  <2>3. r \in Requests(C) /\ r.op = "W" /\ r.sector = x
    BY <1>3, <2>2 DEF Requests
  <2>4. wire' = Append(wire, r) /\ UNCHANGED <<reply, store, last>>
    BY <1>3, <2>1 DEF Link!CutWrite
  <2> HIDE DEF r
  <2>5. /\ LinkInv(C)' /\ Link!Asked' = {}
        /\ \A y \in Sectors : y # x => Link!Settled(y)' = Link!Settled(y)
    BY <1>3, <2>3, <2>4, Sending
  <2>6. arr' = [arr EXCEPT ![x] = arr'[x]]
    BY <2>2, <2>5
  <2>7. Link!Array!Write(x)
    BY <1>3, <2>4, <2>5, <2>6 DEF Link!Array!Write, Link!Array!Quiet, Quiet
  <2> QED BY <2>2, <2>5, <2>7 DEF Link!Array!Next
<1>4. ASSUME Quiet, Link!SendExit
      PROVE  LinkInv(C)' /\ [Link!Array!Next]_(Link!Array!vars)
  <2> DEFINE r == [op |-> "E"]
  <2>1. r \in Requests(C) /\ r.op = "E"
    BY DEF Requests
  <2>2. wire' = Append(wire, r) /\ UNCHANGED <<reply, store, last>>
    BY <1>4 DEF Link!SendExit
  <2> HIDE DEF r
  <2>3. LinkInv(C)' /\ Link!Asked' = {} /\ \A x \in Sectors : Link!Settled(x)' = Link!Settled(x)
    BY <1>4, <2>1, <2>2, Sending
  <2> QED BY <1>4, <1>a, <2>2, <2>3, ArrayStays DEF Quiet
<1>5. ASSUME reply # <<>>, reply' = <<>>, UNCHANGED <<wire, store>>, last' \in {last, {}}
      PROVE  LinkInv(C)' /\ [Link!Array!Next]_(Link!Array!vars)
  <2>1. LinkInv(C)'
    BY <1>5 DEF LinkInv, ReadIsLast
  <2>2. Link!Asked' = Link!Asked
    BY <1>5 DEF Link!Asked
  <2>3. \A x \in Sectors : Link!Settled(x)' = Link!Settled(x)
    BY <1>5, SettledIs
  <2>4. Link!Array!Take
    BY <1>5, <2>2, <2>3, ArrayStays DEF Link!Array!Take
  <2> QED BY <2>1, <2>4 DEF Link!Array!Next
<1>6. ASSUME UNCHANGED <<wire, store, reply>>, last' \in {last, {}}
      PROVE  LinkInv(C)' /\ [Link!Array!Next]_(Link!Array!vars)
  <2>1. LinkInv(C)'
    BY <1>6 DEF LinkInv, ReadIsLast
  <2>2. Link!Asked' = Link!Asked
    BY <1>6 DEF Link!Asked
  <2>3. \A x \in Sectors : Link!Settled(x)' = Link!Settled(x)
    BY <1>6, SettledIs
  <2> QED BY <1>6, <1>a, <2>1, <2>2, <2>3, ArrayStays
<1>7. ASSUME Link!GetReply
      PROVE  LinkInv(C)' /\ [Link!Array!Next]_(Link!Array!vars)
  <2>1. PICK c \in C : reply = <<c>>
    BY <1>7 DEF Link!GetReply, LinkInv
  <2>2. reply # <<>> /\ reply' = <<>>
    BY <1>7, <2>1 DEF Link!GetReply
  <2> QED BY <1>5, <1>7, <2>2 DEF Link!GetReply
<1>8. ASSUME Link!Connect
      PROVE  LinkInv(C)' /\ [Link!Array!Next]_(Link!Array!vars)
  BY <1>5, <1>6, <1>8 DEF Link!Connect
<1>9. ASSUME Link!DiskWrites
      PROVE  LinkInv(C)' /\ [Link!Array!Next]_(Link!Array!vars)
  <2>1. /\ wire # <<>> /\ wire' = Tail(wire) /\ Head(wire).op = "W"
        /\ store' = [store EXCEPT ![Head(wire).sector] = Head(wire).data]
        /\ last' = {Head(wire).sector} /\ reply' = reply
    BY <1>9 DEF Link!DiskWrites, Link!Serving
  <2>2. /\ wire' \in Seq(Requests(C)) /\ store' \in [Sectors -> C]
        /\ \A s \in Sectors : HasLast(wire', s) /\ Link!Settled(s)' = Link!Settled(s)
        /\ Head(wire) \in Requests(C)
    BY <2>1, ServedSectors
  <2>3. ReadIsLast' /\ Link!Asked' = Link!Asked
    BY <2>1, ServedReads
  <2>4. Head(wire).sector \in Sectors
    BY <2>1, <2>2 DEF Requests
  <2>5. LinkInv(C)'
    BY <2>1, <2>2, <2>3, <2>4 DEF LinkInv
  <2> QED BY <1>a, <2>1, <2>2, <2>3, <2>5, ArrayStays
<1>10. ASSUME Link!DiskStops
      PROVE  LinkInv(C)' /\ [Link!Array!Next]_(Link!Array!vars)
  <2>1. /\ wire # <<>> /\ wire' = Tail(wire) /\ Head(wire).op = "E"
        /\ store' = store /\ last' = last /\ reply' = reply
    BY <1>10 DEF Link!DiskStops, Link!Serving
  <2>2. /\ wire' \in Seq(Requests(C)) /\ store' \in [Sectors -> C]
        /\ \A s \in Sectors : HasLast(wire', s) /\ Link!Settled(s)' = Link!Settled(s)
    BY <2>1, ServedSectors
  <2>3. ReadIsLast' /\ Link!Asked' = Link!Asked
    BY <2>1, ServedReads
  <2>5. LinkInv(C)'
    BY <2>1, <2>2, <2>3 DEF LinkInv
  <2> QED BY <1>a, <2>1, <2>2, <2>3, <2>5, ArrayStays
<1>11. ASSUME Link!DiskReads
      PROVE  LinkInv(C)' /\ [Link!Array!Next]_(Link!Array!vars)
  <2>1. PICK s \in Sectors : /\ Link!Asked = {s} /\ Link!Asked' = {} /\ reply' = <<Link!Settled(s)>>
                             /\ \A x \in Sectors : Link!Settled(x)' = Link!Settled(x)
    BY <1>11, ReadAnswered
  <2>2. Link!Array!Answer(s)
    BY <2>1, ArrayStays DEF Link!Array!Answer
  <2> QED BY <1>11, <2>2, ReadAnswered DEF Link!Array!Next
<1>12. ASSUME Link!DiskSpins, Data \in C
      PROVE  LinkInv(C)' /\ [Link!Array!Next]_(Link!Array!vars)
  <2>1. /\ wire = <<>> /\ wire' = <<>> /\ reply' = reply /\ last' = last
        /\ store' = [s \in Sectors |-> IF s \in last THEN Data ELSE store[s]]
    BY <1>12 DEF Link!DiskSpins
  <2>2. LinkInv(C)'
    BY <1>12, <2>1 DEF LinkInv, ReadIsLast
  <2>3. Link!Asked' = Link!Asked
    BY <2>1 DEF Link!Asked
  <2>4. \A s : WritesIn(wire, s) = {} /\ WritesIn(wire', s) = {}
    BY <2>1 DEF WritesIn
  <2>5. \A s \in Sectors : Link!Settled(s) = store[s] /\ Link!Settled(s)' = store'[s]
    BY <2>4, SettledIs DEF After
  <2>6. CASE last = {}
    <3>1. \A s \in Sectors : Link!Settled(s)' = Link!Settled(s)
      BY <2>1, <2>5, <2>6
    <3> QED BY <1>a, <2>1, <2>2, <2>3, <3>1, ArrayStays
  <2>7. CASE last # {}
    <3>1. PICK s \in Sectors : last = {s}
      BY <2>7 DEF LinkInv
    <3>2. \A x \in Sectors : Link!Settled(x)' = IF x = s THEN Data ELSE Link!Settled(x)
      BY <2>1, <2>5, <3>1
    <3>3. arr' = [arr EXCEPT ![s] = Data]
      BY <3>2
    <3>4. Link!Array!Lose(s)
      BY <2>1, <2>3, <3>3 DEF Link!Array!Lose
    <3> QED BY <2>2, <3>4 DEF Link!Array!Next
  <2> QED BY <2>6, <2>7
<1>13. ASSUME UNCHANGED linkVars
      PROVE  LinkInv(C)' /\ [Link!Array!Next]_(Link!Array!vars)
  BY <1>6, <1>13 DEF linkVars
<1> QED
  BY <1>1, <1>2, <1>3, <1>4, <1>7, <1>8, <1>9, <1>10, <1>11, <1>12, <1>13
  DEF LinkNext, Sends, Link!DiskStep

\* DiskLink implements SectorArray: the file system writes at once and reads what it wrote
\* last, although the disk server lags behind by as many requests as the socket holds.
THEOREM LinkImplementsArray ==
    ASSUME NEW C, Data \in C
    PROVE  LinkSpec(C) => Link!Array!Spec
<1>1. Link!LinkInit /\ store \in [Sectors -> C] => LinkInv(C) /\ Link!Array!Init
  BY InitRefines
<1>2. LinkInv(C) /\ [LinkNext(C)]_linkVars => LinkInv(C)' /\ [Link!Array!Next]_(Link!Array!vars)
  BY StepRefines
<1> QED BY <1>1, <1>2, PTL DEF LinkSpec, Link!Array!Spec

----------------------------------------------------------------------------
(* The file system server keeps to it *)

\* Only between its send and its recv, or dead, the server leaves something under way.
ServerInv == /\ \E C : LinkInv(C)
             /\ server \notin {"await", "dead"} => Quiet

\* A wider set of values takes nothing away.
LEMMA Widen ==
    ASSUME NEW C, NEW D, C \subseteq D, LinkInv(C)
    PROVE  LinkInv(D)
<1>1. Requests(C) \subseteq Requests(D)
  BY DEF Requests
<1>2. wire \in Seq(Requests(D))
  BY <1>1 DEF LinkInv
<1> QED BY <1>2 DEF LinkInv

\* A step on the socket, sent in turn, is one of the array.
LEMMA LinkStepRefines ==
    ASSUME NEW C, LinkInv(C), NEW c, LinkNext({c})
    PROVE  (\E D : LinkInv(D))' /\ [Link!Array!Next]_(Link!Array!vars)
<1> DEFINE D == C \cup {c, Data}
<1>1. LinkInv(D) /\ Data \in D
  BY Widen
<1>2. LinkNext(D)
  BY DEF LinkNext, Sends
<1> HIDE DEF D
<1>3. LinkInv(D)' /\ [Link!Array!Next]_(Link!Array!vars)
  BY <1>1, <1>2, StepRefines
<1> QED BY <1>3

\* A step that leaves the socket alone is none of the array.
LEMMA SilentStep ==
    ASSUME ServerInv, UNCHANGED linkVars
    PROVE  /\ (\E C : LinkInv(C))' /\ [Link!Array!Next]_(Link!Array!vars)
           /\ Quiet => Quiet'
<1>1. PICK C : LinkInv(C)
  BY DEF ServerInv
<1> DEFINE D == C \cup {Data}
<1>2. LinkInv(D) /\ Data \in D
  BY <1>1, Widen
<1> HIDE DEF D
<1>3. LinkInv(D)' /\ [Link!Array!Next]_(Link!Array!vars)
  BY <1>2, StepRefines
<1>4. Quiet => Quiet'
  BY DEF Quiet, linkVars, Link!Asked
<1> QED BY <1>3, <1>4

\* Sectors are natural numbers: the list has a smallest one.
LEMMA NextSaved ==
    ASSUME RequestsInRange, update_sector # {}
    PROVE  Min(update_sector) \in Sectors
<1>1. Sectors \subseteq Nat
  BY DEF Sectors, BasicSectors, InodeBitmap, DataBitmap, InodeTable, Blocks, RootBlock,
         FileSystemAssumption
<1> QED BY <1>1, LeastElement DEF RequestsInRange

\* Serving a request leaves a quiet socket quiet: without a read there is no answer.
LEMMA ServedInQuiet ==
    ASSUME NEW C, LinkInv(C), Quiet, Link!DiskStep
    PROVE  Quiet'
<1>1. CASE Link!DiskWrites
  BY <1>1, ServedReads DEF Link!DiskWrites, Link!Serving, Quiet
<1>2. CASE Link!DiskStops
  BY <1>2, ServedReads DEF Link!DiskStops, Link!Serving, Quiet
<1>3. CASE Link!DiskReads
  <2>1. wire # <<>> /\ Head(wire).op = "R" /\ wire \in Seq(Requests(C))
    BY <1>3 DEF Link!DiskReads, Link!Serving, LinkInv
  <2>2. 1 \in 1..Len(wire) /\ wire[1] \in Requests(C) /\ wire[1].op = "R"
    BY <2>1
  <2>3. wire[1].sector \in Sectors
    BY <2>2 DEF Requests
  <2> QED BY <2>2, <2>3 DEF Quiet, Link!Asked
<1> QED BY <1>1, <1>2, <1>3 DEF Link!DiskStep

\* A write or an exit that is sent asks for nothing.
LEMMA SentInQuiet ==
    ASSUME NEW C, LinkInv(C), Quiet, NEW r, r.op \in {"W", "E"}, wire' = Append(wire, r), reply' = reply
    PROVE  Quiet'
<1>1. /\ Len(wire') = Len(wire) + 1 /\ wire'[Len(wire) + 1] = r /\ Len(wire) \in Nat
      /\ \A k \in 1..Len(wire) : wire'[k] = wire[k]
  BY DEF LinkInv
<1>2. \A k \in 1..Len(wire') : k = Len(wire) + 1 \/ k \in 1..Len(wire)
  BY <1>1
<1>3. Link!Asked' = {}
  BY <1>1, <1>2 DEF Quiet, Link!Asked
<1> QED BY <1>3 DEF Quiet

\* The server sends when the socket is quiet, and then either waits or has sent what is not
\* answered; no other step of the server uses the socket.
LEMMA ServerKeepsToLink ==
    ASSUME RequestsInRange, ServerInv, [ServerNext]_serverVars
    PROVE  ServerInv' /\ [Link!Array!Next]_(Link!Array!vars)
<1>c. PICK C : LinkInv(C)
  BY DEF ServerInv
<1> DEFINE Keeps == ServerInv' /\ [Link!Array!Next]_(Link!Array!vars)
<1>a. ASSUME UNCHANGED linkVars, server \notin {"await", "dead"} \/ server' \in {server, "dead"}
      PROVE  Keeps
  BY <1>a, SilentStep DEF ServerInv
<1>b. ASSUME NEW c, LinkNext({c}), server' \notin {"await", "dead"} => Quiet'
      PROVE  Keeps
  BY <1>b, <1>c, LinkStepRefines DEF ServerInv
<1> HIDE DEF Keeps
<1>1. ASSUME Start PROVE Keeps
  <2>1. Link!Connect
    BY <1>1 DEF Start
  <2>2. wire' = <<>> /\ reply' = <<>>
    BY <2>1 DEF Link!Connect
  <2>3. Quiet'
    BY <2>2 DEF Quiet, Link!Asked
  <2> QED BY <1>b, <2>1, <2>3 DEF LinkNext
<1>2. ASSUME ClientStep PROVE Keeps
  <2>1. server = "idle" /\ UNCHANGED linkVars
    BY <1>2 DEF ClientStep, Accept, Exit, Ask
  <2> QED BY <1>a, <2>1
<1>3. ASSUME Fetch PROVE Keeps
  <2>1. server = "load" /\ server' = "await" /\ sector_idx \in Sectors /\ Link!SendRead(sector_idx)
    BY <1>3 DEF Fetch, RequestsInRange
  <2>2. Quiet
    BY <2>1 DEF ServerInv
  <2>3. LinkNext({0})
    BY <2>1, <2>2 DEF LinkNext, Sends
  <2> QED BY <1>b, <2>1, <2>3
<1>4. ASSUME Fetched PROVE Keeps
  <2>1. Link!GetReply
    BY <1>4 DEF Fetched
  <2>2. reply # <<>> /\ reply' = Tail(reply) /\ wire' = wire
    BY <2>1 DEF Link!GetReply
  <2>3. reply' = <<>>
    <3>1. PICK c \in C : reply = <<c>>
      BY <1>c, <2>2 DEF LinkInv
    <3> QED BY <2>2, <3>1
  <2>4. Link!Asked' = {}
    BY <1>c, <2>2 DEF LinkInv, ReadIsLast, Link!Asked
  <2> QED BY <1>b, <2>1, <2>3, <2>4 DEF LinkNext, Quiet
<1>5. ASSUME Execute PROVE Keeps
  <2>1. server = "load" /\ Command
    BY <1>5 DEF Execute
  <2>2. UNCHANGED linkVars
    BY <2>1 DEF Command, Started, Format, Make, MakeFails, Unlink, NotFound, EnterDirectory,
       ListDirectory, NullPointer, Mistaken, Resize, OverwriteFile, Insert, Delete, Show, Rest
  <2> QED BY <1>a, <2>1, <2>2
<1>6. ASSUME Save PROVE Keeps
  <2> DEFINE s == Min(update_sector)
  <2>1. server = "save" /\ server' = server /\ Link!SendWrite(s, Held(s)) /\ update_sector # {}
    BY <1>6 DEF Save, procVars
  <2>2. s \in Sectors
    BY <2>1, NextSaved
  <2> HIDE DEF s
  <2>3. Quiet
    BY <2>1 DEF ServerInv
  <2>4. PICK c : c = Held(s)
    OBVIOUS
  <2>5. LinkNext({c})
    BY <2>1, <2>2, <2>3, <2>4 DEF LinkNext, Sends
  <2>6. Quiet'
    <3> DEFINE r == [op |-> "W", sector |-> s, data |-> c]
    <3>1. wire' = Append(wire, r) /\ r.op = "W" /\ reply' = reply
      BY <2>1, <2>4 DEF Link!SendWrite
    <3> QED BY <1>c, <2>3, <3>1, SentInQuiet
  <2> QED BY <1>b, <2>5, <2>6
<1>7. ASSUME Saved PROVE Keeps
  BY <1>7, <1>a DEF Saved
<1>8. ASSUME Stop PROVE Keeps
  <2>1. server = "save" /\ Link!SendExit
    BY <1>8 DEF Stop
  <2>2. Quiet
    BY <2>1 DEF ServerInv
  <2>3. LinkNext({0})
    BY <2>1, <2>2 DEF LinkNext, Sends
  <2>4. Quiet'
    <3> DEFINE r == [op |-> "E"]
    <3>1. wire' = Append(wire, r) /\ r.op = "E" /\ reply' = reply
      BY <2>1 DEF Link!SendExit
    <3> QED BY <1>c, <2>2, <3>1, SentInQuiet
  <2> QED BY <1>b, <2>3, <2>4
<1>9. ASSUME DiskServes PROVE Keeps
  <2>1. Link!DiskStep /\ server' = server
    BY <1>9 DEF DiskServes, procVars
  <2>2. Quiet => Quiet'
    BY <1>c, <2>1, ServedInQuiet
  <2>3. LinkNext({0})
    BY <2>1 DEF LinkNext
  <2> QED BY <1>b, <2>1, <2>2, <2>3 DEF ServerInv
<1>10. ASSUME DiskSpins PROVE Keeps
  <2>1. Link!DiskSpins /\ server' = "dead"
    BY <1>10 DEF DiskSpins, procVars
  <2>2. LinkNext({0})
    BY <2>1 DEF LinkNext
  <2> QED BY <1>b, <2>1, <2>2
<1>11. ASSUME Killed PROVE Keeps
  <2>1. server' = "dead"
    BY <1>11 DEF Killed
  <2>2. CASE UNCHANGED linkVars
    BY <1>a, <2>1, <2>2
  <2>3. CASE server = "save" /\ update_sector # {} /\ Link!CutWrite(Min(update_sector))
    <3>1. Min(update_sector) \in Sectors /\ Quiet
      BY <2>3, NextSaved DEF ServerInv
    <3>2. LinkNext({0})
      BY <2>3, <3>1 DEF LinkNext, Sends
    <3> QED BY <1>b, <2>1, <3>2
  <2> QED BY <1>11, <2>2, <2>3 DEF Killed
<1>12. ASSUME UNCHANGED serverVars PROVE Keeps
  BY <1>12, <1>a DEF serverVars, procVars
<1> QED
  BY <1>1, <1>2, <1>3, <1>4, <1>5, <1>6, <1>7, <1>8, <1>9, <1>10, <1>11, <1>12
  DEF Keeps, ServerNext, ServerStep

----------------------------------------------------------------------------
(* What the disk will hold *)

\* Every sector, once the disk server has served all requests.
Final == [s \in Sectors |-> Link!Settled(s)]

(* As long as nothing is sent the disk will hold what it would have. *)
LEMMA FinalStays ==
    ASSUME wire' = wire, store' = store
    PROVE  Final' = Final
<1>1. \A s \in Sectors : Link!Settled(s)' = Link!Settled(s)
  BY SettledIs
<1> QED BY <1>1 DEF Final

(* What is written it will hold. *)
LEMMA FinalWritten ==
    ASSUME NEW C, LinkInv(C), Quiet, NEW s \in Sectors, NEW c, Link!SendWrite(s, c)
    PROVE  Final' = [Final EXCEPT ![s] = c] /\ Quiet' /\ wire' = Append(wire, [op |-> "W", sector |-> s, data |-> c])
<1> DEFINE r == [op |-> "W", sector |-> s, data |-> c]
           D == C \cup {c}
<1>1. LinkInv(D)
  BY Widen
<1>2. r \in Requests(D) /\ r.op = "W" /\ r.sector = s /\ r.data = c
  BY DEF Requests
<1>3. wire' = Append(wire, r) /\ UNCHANGED <<reply, store, last>>
  BY DEF Link!SendWrite
<1> HIDE DEF r, D
<1>4. \A x \in Sectors : Link!Settled(x)' = IF r.op = "W" /\ r.sector = x THEN r.data ELSE Link!Settled(x)
  BY <1>1, <1>2, <1>3, Sending
<1>5. Quiet'
  BY <1>1, <1>2, <1>3, SentInQuiet
<1>6. Final' = [Final EXCEPT ![s] = c]
  BY <1>2, <1>4 DEF Final
<1>7. wire' = Append(wire, [op |-> "W", sector |-> s, data |-> c])
  BY DEF Link!SendWrite
<1> QED BY <1>5, <1>6, <1>7

(* Other requests change nothing. *)
LEMMA FinalAsked ==
    ASSUME NEW C, LinkInv(C), Quiet, NEW r \in Requests(C), r.op # "W", wire' = Append(wire, r), UNCHANGED <<reply, store, last>>
    PROVE  Final' = Final /\ Link!Asked' = IF r.op = "R" THEN {r.sector} ELSE {}
<1>1. \A x \in Sectors : Link!Settled(x)' = Link!Settled(x)
  BY Sending
<1>2. Link!Asked' = IF r.op = "R" THEN {r.sector} ELSE {}
  BY Sending
<1> QED BY <1>1, <1>2 DEF Final

(* What is read is the sector, or the end. *)
LEMMA FinalRequested ==
    ASSUME NEW C, LinkInv(C), Quiet
    PROVE  /\ \A s \in Sectors : Link!SendRead(s) => Final' = Final /\ Link!Asked' = {s} /\ reply' = <<>>
           /\ Link!SendExit => Final' = Final
<1>1. ASSUME NEW s \in Sectors, Link!SendRead(s) PROVE Final' = Final /\ Link!Asked' = {s} /\ reply' = <<>>
  <2> DEFINE r == [op |-> "R", sector |-> s]
  <2>1. r \in Requests(C) /\ r.op = "R" /\ r.sector = s
    BY DEF Requests
  <2>2. wire' = Append(wire, r) /\ UNCHANGED <<reply, store, last>>
    BY <1>1 DEF Link!SendRead
  <2>3. reply = <<>>
    BY DEF Quiet
  <2> HIDE DEF r
  <2> QED BY <2>1, <2>2, <2>3, FinalAsked
<1>2. ASSUME Link!SendExit PROVE Final' = Final
  <2> DEFINE r == [op |-> "E"]
  <2>1. r \in Requests(C) /\ r.op = "E"
    BY DEF Requests
  <2>2. wire' = Append(wire, r) /\ UNCHANGED <<reply, store, last>>
    BY <1>2 DEF Link!SendExit
  <2> HIDE DEF r
  <2> QED BY <2>1, <2>2, FinalAsked
<1> QED BY <1>1, <1>2

(* The disk server changes nothing, but answers. *)
LEMMA FinalServed ==
    ASSUME NEW C, LinkInv(C), Link!DiskStep
    PROVE  /\ Final' = Final
           /\ \/ Link!Asked' = Link!Asked /\ reply' = reply
              \/ \E s \in Sectors : Link!Asked = {s} /\ Link!Asked' = {} /\ reply = <<>> /\ reply' = <<Final[s]>>
<1>1. CASE Link!DiskWrites
  <2>1. /\ wire # <<>> /\ wire' = Tail(wire) /\ Head(wire).op = "W"
        /\ store' = [store EXCEPT ![Head(wire).sector] = Head(wire).data]
        /\ reply' = reply
    BY <1>1 DEF Link!DiskWrites, Link!Serving
  <2>2. \A s \in Sectors : Link!Settled(s)' = Link!Settled(s)
    BY <2>1, ServedSectors
  <2>3. Link!Asked' = Link!Asked
    BY <2>1, ServedReads
  <2> QED BY <2>1, <2>2, <2>3 DEF Final
<1>2. CASE Link!DiskStops
  <2>1. /\ wire # <<>> /\ wire' = Tail(wire) /\ Head(wire).op = "E" /\ store' = store /\ reply' = reply
    BY <1>2 DEF Link!DiskStops, Link!Serving
  <2>2. \A s \in Sectors : Link!Settled(s)' = Link!Settled(s)
    BY <2>1, ServedSectors
  <2>3. Link!Asked' = Link!Asked
    BY <2>1, ServedReads
  <2> QED BY <2>1, <2>2, <2>3 DEF Final
<1>3. CASE Link!DiskReads
  <2>1. PICK s \in Sectors : /\ Link!Asked = {s} /\ Link!Asked' = {} /\ reply = <<>> /\ reply' = <<Link!Settled(s)>>
                             /\ \A x \in Sectors : Link!Settled(x)' = Link!Settled(x)
    BY <1>3, ReadAnswered
  <2> QED BY <2>1 DEF Final
<1> QED BY <1>1, <1>2, <1>3 DEF Link!DiskStep

\* The exit is the last request, and when it is served the server has stopped.
ExitLast == /\ \A k \in 1..Len(wire) : wire[k].op = "E" => k = Len(wire) /\ server = "stopped"
            /\ disk = "stopped" => wire = <<>> /\ server = "stopped"

(* What is sent before comes before. *)
LEMMA SentLast ==
    ASSUME NEW C, LinkInv(C), ExitLast, NEW r, wire' = Append(wire, r), disk' = disk,
           server # "stopped", r.op = "E" => server' = "stopped"
    PROVE  ExitLast'
<1>1. /\ Len(wire') = Len(wire) + 1 /\ wire'[Len(wire) + 1] = r /\ Len(wire) \in Nat
      /\ \A k \in 1..Len(wire) : wire'[k] = wire[k]
  BY DEF LinkInv
<1>2. \A k \in 1..Len(wire') : k = Len(wire) + 1 \/ k \in 1..Len(wire)
  BY <1>1
<1> QED BY <1>1, <1>2 DEF ExitLast

(* What is served is the first. *)
LEMMA ServedLast ==
    ASSUME NEW C, LinkInv(C), ExitLast, Link!DiskStep, server' = server
    PROVE  ExitLast'
<1>1. wire # <<>> /\ wire' = Tail(wire) /\ disk = "serving"
  BY DEF Link!DiskStep, Link!DiskWrites, Link!DiskReads, Link!DiskStops, Link!Serving
<1>2. /\ \A k \in 1..Len(wire') : wire'[k] = wire[k + 1] /\ k + 1 \in 1..Len(wire)
      /\ Head(wire) = wire[1] /\ 1 \in 1..Len(wire)
      /\ Len(wire') = Len(wire) - 1 /\ Len(wire) \in Nat /\ (Len(wire') = 0 => wire' = <<>>)
  BY <1>1 DEF LinkInv
<1>3. \A k \in 1..Len(wire') : wire'[k].op = "E" => k = Len(wire') /\ server = "stopped"
  BY <1>2 DEF ExitLast
<1>4. disk' = "stopped" => wire' = <<>> /\ server = "stopped"
  <2>1. disk' = "stopped" => Head(wire).op = "E"
    BY <1>1 DEF Link!DiskStep, Link!DiskWrites, Link!DiskReads, Link!DiskStops, Link!Serving
  <2> QED BY <1>2, <2>1 DEF ExitLast
<1> QED BY <1>3, <1>4 DEF ExitLast

----------------------------------------------------------------------------
(* The invariant *)

\* What a sector of the disk can hold.
Stored(s) == IF s \in Blocks THEN Sector ELSE {Data, Unread} \cup {Contents(m, s) : m \in Image}

\* The image on the disk.
Imaged(z) == [inode_bitmap |-> z[InodeBitmap].bit, data_bitmap |-> z[DataBitmap].bit, inode |-> z[InodeTable].inode,
              sector |-> [b \in Blocks |-> z[b]]]

IsFormatted(z) == z[InodeBitmap].kind = "inode_bitmap"

\* A disk that was formatted holds a sound file system, and all sectors in use.
GoodDisk(z) == /\ z[DataBitmap].kind = "data_bitmap" /\ z[InodeTable].kind = "inodes"
               /\ Sound(Imaged(z)) /\ Shallow(Imaged(z))
               /\ \A b \in Blocks : Owned(Imaged(z), b) => z[b] # Unread

Alive == server \notin {"dead", "undefined", "spinning"}
Runs  == server \in {"idle", "load", "await", "save"}

Typed == /\ server \in {"stopped", "idle", "load", "await", "save"} /\ inited \in BOOLEAN
         /\ file_storage \in Image /\ \A s \in Sectors : Final[s] \in Stored(s)

\* Memory and disk go together once the list has been sent.
Tracking == inited /\ Runs => Tracks(file_storage, Final, update_sector, data_block_in_memory, file_in_memory, newer,
                                     IF server = "save" THEN update_sector ELSE {}, cur_dir)

\* A command waits for its sectors.
Waiting == inited /\ server \in {"load", "await"} =>
               Due /\ Awaits(file_storage, data_block_in_memory, file_in_memory, cur_dir, job, sector_idx)

\* A disk that is new, and nothing in memory, before f.
Unformatted == ~inited /\ Runs /\ job.op # "start" =>
    /\ file_in_memory = {} /\ newer = {} /\ (server # "save" => update_sector = {})
    /\ update_sector \subseteq BasicSectors /\ ~IsFormatted(Final) /\ server # "await"
    /\ server = "load" => sector_idx = 0 /\ job.op \in {"new", "f"}
    /\ server = "save" => job.op = "exit"

\* What has been read when the server starts is what the disk holds.
Loading == ~inited /\ Runs /\ job.op = "start" =>
    /\ server \in {"load", "await"} /\ cur_dir = 0 /\ file_in_memory = {} /\ newer = {} /\ update_sector = {}
    /\ IsFormatted(Final) => GoodDisk(Final)
    /\ InodeBitmap \in data_block_in_memory => IsFormatted(Final)
    /\ data_block_in_memory \subseteq Sectors
    /\ \A s \in data_block_in_memory : Contents(file_storage, s) = Final[s]
    /\ \A b \in Blocks : file_storage.sector[b] \in {Unread, Final[b]}
    /\ AwaitsBasic(file_storage, data_block_in_memory, sector_idx)

\* The sector that was asked for is on its way.
Answering == server = "await" => /\ sector_idx \in Sectors
                                 /\ \/ reply = <<>> /\ Link!Asked = {sector_idx}
                                    \/ reply = <<Final[sector_idx]>> /\ Link!Asked = {}

\* What the server leaves behind.
Stopped == server = "stopped" /\ IsFormatted(Final) => GoodDisk(Final)
NewDisk == ~exists => store[InodeBitmap] = Data

\* Bitmaps and inodes are sent at the end.
Leaving == server = "save" /\ job.op = "exit" /\ inited =>
               \A s \in {InodeBitmap, DataBitmap, InodeTable} : s \in update_sector \/ Final[s] = Contents(file_storage, s)

Core == /\ Typed /\ Tracking /\ Waiting /\ Unformatted /\ Loading /\ Answering
        /\ Stopped /\ NewDisk /\ Leaving /\ ExitLast

\* Together: as long as the server is alive.
MemoryInv == RequestsInRange /\ MisledOnlyByMake /\ (Alive => Core)

(* What is in the sectors. *)
LEMMA ContentsAre ==
    ASSUME NEW m
    PROVE  /\ Contents(m, InodeBitmap) = [kind |-> "inode_bitmap", bit |-> m.inode_bitmap]
           /\ Contents(m, DataBitmap) = [kind |-> "data_bitmap", bit |-> m.data_bitmap]
           /\ Contents(m, InodeTable) = [kind |-> "inodes", inode |-> m.inode]
           /\ \A b \in Blocks : Contents(m, b) = m.sector[b]
BY BlockNumbers DEF Contents, InodeBitmap, DataBitmap, InodeTable

(* The sectors one by one. *)
LEMMA SectorsAre ==
    /\ \A s \in Sectors : s \in Blocks \/ s \in {InodeBitmap, DataBitmap, InodeTable}
    /\ Blocks \subseteq Sectors /\ InodeBitmap \in Sectors /\ DataBitmap \in Sectors /\ InodeTable \in Sectors
    /\ InodeBitmap \notin Blocks /\ DataBitmap \notin Blocks /\ InodeTable \notin Blocks /\ 0 \notin Sectors
    /\ BasicSectors \subseteq Sectors
BY BlockNumbers, ConstantsTyped DEF Sectors, BasicSectors, InodeBitmap, DataBitmap, InodeTable

(* What is held can be stored. *)
LEMMA HeldStored ==
    ASSUME NEW m \in Image, NEW s \in Sectors
    PROVE  Contents(m, s) \in Stored(s) /\ Unread \in Stored(s) /\ Data \in Stored(s)
<1>1. s \in Blocks => m.sector[s] \in Sector
  BY DEF Image
<1>2. Unread \in Sector /\ Data \in Sector
  BY DEF Unread, Sector
<1> QED BY <1>1, <1>2, ContentsAre DEF Stored

(* What is stored is what some image has there, if its kind says so. *)
LEMMA StoredIs ==
    ASSUME NEW z, \A s \in Sectors : z[s] \in Stored(s)
    PROVE  /\ OnDisk(z)
           /\ z[InodeBitmap].kind = "inode_bitmap" => \E f \in [Inodes -> BOOLEAN] : z[InodeBitmap] = [kind |-> "inode_bitmap", bit |-> f]
           /\ z[DataBitmap].kind = "data_bitmap" => \E f \in [Blocks -> BOOLEAN] : z[DataBitmap] = [kind |-> "data_bitmap", bit |-> f]
           /\ z[InodeTable].kind = "inodes" => \E f \in [Inodes -> Inode] : z[InodeTable] = [kind |-> "inodes", inode |-> f]
<1>1. OnDisk(z)
  BY SectorsAre DEF OnDisk, Stored
<1>2. Data.kind = "data" /\ Unread.kind = "unread"
  BY Kinds
<1>3. \A s \in {InodeBitmap, DataBitmap, InodeTable} : z[s] \in {Data, Unread} \/ \E m \in Image : z[s] = Contents(m, s)
  BY SectorsAre DEF Stored
<1>4. \A m \in Image : m.inode_bitmap \in [Inodes -> BOOLEAN] /\ m.data_bitmap \in [Blocks -> BOOLEAN] /\ m.inode \in [Inodes -> Inode]
  BY DEF Image
<1>5. z[InodeBitmap].kind = "inode_bitmap" => \E f \in [Inodes -> BOOLEAN] : z[InodeBitmap] = [kind |-> "inode_bitmap", bit |-> f]
  <2>1. CASE z[InodeBitmap] \in {Data, Unread}
    BY <1>2, <2>1
  <2>2. ASSUME NEW m \in Image, z[InodeBitmap] = Contents(m, InodeBitmap) PROVE \E f \in [Inodes -> BOOLEAN] : z[InodeBitmap] = [kind |-> "inode_bitmap", bit |-> f]
    <3>1. z[InodeBitmap] = [kind |-> "inode_bitmap", bit |-> m.inode_bitmap]
      BY <2>2, ContentsAre
    <3> m.inode_bitmap \in [Inodes -> BOOLEAN]
      BY <1>4
    <3> WITNESS m.inode_bitmap \in [Inodes -> BOOLEAN]
    <3> QED BY <3>1
  <2> QED BY <1>3, <2>1, <2>2
<1>6. z[DataBitmap].kind = "data_bitmap" => \E f \in [Blocks -> BOOLEAN] : z[DataBitmap] = [kind |-> "data_bitmap", bit |-> f]
  <2>1. CASE z[DataBitmap] \in {Data, Unread}
    BY <1>2, <2>1
  <2>2. ASSUME NEW m \in Image, z[DataBitmap] = Contents(m, DataBitmap) PROVE \E f \in [Blocks -> BOOLEAN] : z[DataBitmap] = [kind |-> "data_bitmap", bit |-> f]
    <3>1. z[DataBitmap] = [kind |-> "data_bitmap", bit |-> m.data_bitmap]
      BY <2>2, ContentsAre
    <3> m.data_bitmap \in [Blocks -> BOOLEAN]
      BY <1>4
    <3> WITNESS m.data_bitmap \in [Blocks -> BOOLEAN]
    <3> QED BY <3>1
  <2> QED BY <1>3, <2>1, <2>2
<1>7. z[InodeTable].kind = "inodes" => \E f \in [Inodes -> Inode] : z[InodeTable] = [kind |-> "inodes", inode |-> f]
  <2>1. CASE z[InodeTable] \in {Data, Unread}
    BY <1>2, <2>1
  <2>2. ASSUME NEW m \in Image, z[InodeTable] = Contents(m, InodeTable) PROVE \E f \in [Inodes -> Inode] : z[InodeTable] = [kind |-> "inodes", inode |-> f]
    <3>1. z[InodeTable] = [kind |-> "inodes", inode |-> m.inode]
      BY <2>2, ContentsAre
    <3> m.inode \in [Inodes -> Inode]
      BY <1>4
    <3> WITNESS m.inode \in [Inodes -> Inode]
    <3> QED BY <3>1
  <2> QED BY <1>3, <2>1, <2>2
<1> QED BY <1>1, <1>5, <1>6, <1>7

----------------------------------------------------------------------------
(* What a sector that is sent or read changes *)

\* Disk z2 is z, with sector s as memory m has it.
Sent(m, z, s, z2) == /\ s \in Sectors /\ z2[s] = Contents(m, s)
                     /\ \A x \in Sectors : x # s => z2[x] = z[x]

(* A sector of the list is sent. *)
LEMMA SaveTracks ==
    ASSUME NEW m, NEW z, NEW U, NEW D, NEW F, NEW N, NEW d, Tracks(m, z, U, D, F, N, U, d),
           NEW s \in U, NEW z2, Sent(m, z, s, z2)
    PROVE  Tracks(m, z2, U \ {s}, D, F, N \ {s}, U \ {s}, d)
<1> DEFINE w == Complete(m, z)
           w2 == Complete(m, z2)
<1>1. /\ m \in Image /\ OnDisk(z) /\ Sound(w) /\ Shallow(w) /\ {0, d} \subseteq F /\ d \in Dirs(m)
      /\ U \subseteq Sectors /\ N \subseteq Blocks /\ \A b \in N : m.data_bitmap[b]
      /\ Resident(m, z, F)
  BY DEF Tracks
<1>2. \A b \in Blocks : Owned(w, b) => BlockTracks(m, z, D \cup U, N, U, b)
  BY DEF Tracks
<1>3. \A i \in Files(m) : m.inode[i].indirect # None => IndexTracks(m, z, U, m.inode[i].indirect)
  BY DEF Tracks
<1>4. \A b \in Blocks : z2[b] = IF b = s THEN m.sector[b] ELSE z[b]
  <2>1. \A b \in Blocks : Contents(m, b) = m.sector[b] /\ b \in Sectors
    BY ContentsAre, SectorsAre
  <2>2. z2[s] = Contents(m, s) /\ \A x \in Sectors : x # s => z2[x] = z[x]
    BY DEF Sent
  <2> QED BY <2>1, <2>2
<1>5. OnDisk(z2)
  BY <1>1, <1>4 DEF OnDisk, Image
<1>6. w2 \in Image /\ w \in Image /\ w2.inode_bitmap = w.inode_bitmap /\ w2.data_bitmap = w.data_bitmap /\ w2.inode = w.inode
  BY <1>1, <1>5, CompleteMembers
<1>7. \A b \in Blocks : Owned(w, b) => w2.sector[b] = w.sector[b]
  <2> SUFFICES ASSUME NEW b \in Blocks, Owned(w, b) PROVE w2.sector[b] = w.sector[b]
    OBVIOUS
  <2>1. CASE InMemory(m, b)
    BY <1>1, <1>5, <2>1, CompleteMembers
  <2>2. CASE ~InMemory(m, b)
    <3>1. b # s
      BY <1>2, <2>2 DEF BlockTracks
    <3> QED BY <1>1, <1>4, <1>5, <2>2, <3>1, CompleteMembers
  <2> QED BY <2>1, <2>2
<1> HIDE DEF w, w2
<1>8. Older(w, w2)
  BY <1>6, <1>7 DEF Older
<1>9. /\ Sound(w2) /\ Shallow(w2) /\ \A b \in Blocks : Owned(w2, b) => Owned(w, b)
  BY <1>1, <1>8, OlderSound, OlderShallow
<1>10. Resident(m, z2, F)
  <2> SUFFICES ASSUME NEW i \in (F \cap Live(m)) \ {InodeSector}, NEW p \in Places, At(w2, i, p) # None
               PROVE  InMemory(m, At(w2, i, p))
    BY DEF Resident, w2
  <2>1. Live(w) = Live(m)
    BY <1>1, CompleteMembers DEF w
  <2>2. BlocksSound(w)
    BY <1>1 DEF Sound
  <2>3. At(w2, i, p) \in {At(w, i, p), None}
    BY <1>8, <2>1, <2>2, OlderPlaces
  <2> QED BY <1>1, <2>3 DEF Resident, w
<1>11. ASSUME NEW b \in Blocks, Owned(w2, b)
       PROVE  BlockTracks(m, z2, D \cup (U \ {s}), N \ {s}, U \ {s}, b)
  <2>1. BlockTracks(m, z, D \cup U, N, U, b)
    BY <1>2, <1>9, <1>11
  <2>2. CASE b = s
    <3>1. InMemory(m, b)
      BY <2>1, <2>2 DEF BlockTracks
    <3>2. z2[b] = m.sector[b]
      BY <1>4, <2>2
    <3> QED BY <2>2, <3>1, <3>2 DEF BlockTracks, InMemory
  <2>3. CASE b # s
    <3>1. z2[b] = z[b]
      BY <1>4, <2>3
    <3> QED BY <2>1, <2>3, <3>1 DEF BlockTracks
  <2> QED BY <2>2, <2>3
<1>12. ASSUME NEW i \in Files(m), m.inode[i].indirect # None
       PROVE  IndexTracks(m, z2, U \ {s}, m.inode[i].indirect)
  <2> DEFINE x == m.inode[i].indirect
  <2>1. BlocksSound(w) /\ IndexTracks(m, z, U, x) /\ x # None
    BY <1>1, <1>3, <1>12 DEF Sound
  <2>2. x \in Blocks
    <3>1. i \in Live(w) /\ w.inode = m.inode
      BY <1>1, CompleteMembers DEF w, Files
    <3> QED BY <2>1, <3>1, OwnedBlocks
  <2>3. x = m.inode[i].indirect
    OBVIOUS
  <2>4. InMemory(m, x) => OlderIndex(m.sector[x], m.sector[x])
    <3> HIDE DEF x
    <3> QED BY <1>1, <2>1, <2>3, HeldItself DEF w
  <2> HIDE DEF x
  <2>5. IndexTracks(m, z2, U \ {s}, x)
    <3>1. CASE x = s
      <4>1. z2[x] = m.sector[x]
        BY <1>4, <2>2, <3>1
      <4> QED BY <2>4, <4>1 DEF IndexTracks
    <3>2. CASE x # s
      <4>1. z2[x] = z[x]
        BY <1>4, <2>2, <3>2
      <4> QED BY <2>1, <3>2, <4>1 DEF IndexTracks
    <3> QED BY <3>1, <3>2
  <2> QED BY <2>5 DEF x
<1>13. \A b \in N \ {s} : m.data_bitmap[b]
  BY <1>1
<1> QED BY <1>1, <1>5, <1>9, <1>10, <1>11, <1>12, <1>13 DEF Tracks, w2

(* A sector that is read is the same as in the whole image, or an older index block. *)
LEMMA PlacedOlder ==
    ASSUME NEW m, NEW z, NEW U, NEW D, NEW F, NEW N, NEW d, Tracks(m, z, U, D, F, N, {}, d),
           NEW s \in Blocks, NEW m2, m2 = Placed(m, s, z[s])
    PROVE  Older(Complete(m, z), Complete(m2, z)) /\ m2 \in Image
           /\ \A b \in Blocks : Owned(Complete(m, z), b) => z[b] # Unread
<1> DEFINE w == Complete(m, z)
           w2 == Complete(m2, z)
<1>1. /\ m \in Image /\ OnDisk(z) /\ Sound(w)
      /\ \A b \in Blocks : Owned(w, b) => BlockTracks(m, z, D \cup U, N, {}, b)
      /\ \A i \in Files(m) : m.inode[i].indirect # None => IndexTracks(m, z, {}, m.inode[i].indirect)
  BY DEF Tracks
<1>2. z[s] \in Sector
  BY <1>1 DEF OnDisk
<1>3. /\ m2 \in Image /\ m2.inode_bitmap = m.inode_bitmap /\ m2.data_bitmap = m.data_bitmap /\ m2.inode = m.inode
      /\ \A b \in Blocks : m2.sector[b] = IF b = s THEN z[s] ELSE m.sector[b]
  BY <1>1, <1>2, PlacedMembers
<1>4. \A b \in Blocks : w2.sector[b] = IF b = s THEN z[s] ELSE w.sector[b]
  <2> SUFFICES ASSUME NEW b \in Blocks PROVE w2.sector[b] = IF b = s THEN z[s] ELSE w.sector[b]
    OBVIOUS
  <2>1. /\ InMemory(m, b) => w.sector[b] = m.sector[b]
        /\ ~InMemory(m, b) => w.sector[b] = z[b]
    BY <1>1, CompleteMembers
  <2>2. /\ InMemory(m2, b) => w2.sector[b] = m2.sector[b]
        /\ ~InMemory(m2, b) => w2.sector[b] = z[b]
    BY <1>1, <1>3, CompleteMembers
  <2> HIDE DEF w, w2
  <2> QED BY <1>3, <2>1, <2>2 DEF InMemory
<1>5. /\ w.inode = m.inode /\ w.inode_bitmap = m.inode_bitmap /\ w.data_bitmap = m.data_bitmap
      /\ Files(w) = Files(m)
  BY <1>1, CompleteMembers DEF Files
<1>6. w2 \in Image /\ w2.inode = w.inode /\ w2.inode_bitmap = w.inode_bitmap /\ w2.data_bitmap = w.data_bitmap
  BY <1>1, <1>3, <1>5, CompleteMembers
<1>7. InMemory(m, s) => w.sector[s] = m.sector[s]
  BY <1>1, CompleteMembers
<1>8. ~InMemory(m, s) => w.sector[s] = z[s]
  BY <1>1, CompleteMembers
<1> HIDE DEF w, w2
<1>9. ASSUME NEW b \in Blocks, Owned(w, b)
      PROVE  \/ w2.sector[b] = w.sector[b]
             \/ IsIndex(w, b) /\ OlderIndex(w2.sector[b], w.sector[b])
  <2>1. CASE b # s
    BY <1>4, <2>1
  <2>2. CASE b = s /\ ~InMemory(m, s)
    BY <1>4, <1>8, <2>2
  <2>3. CASE b = s /\ InMemory(m, s)
    <3>1. BlockTracks(m, z, D \cup U, N, {}, b)
      BY <1>1, <1>9
    <3>2. m.sector[s] = z[s] \/ IsIndex(m, s)
      BY <2>3, <3>1 DEF BlockTracks, InMemory
    <3>3. CASE m.sector[s] = z[s]
      BY <1>4, <1>7, <2>3, <3>3
    <3>4. CASE IsIndex(m, s)
      <4>1. PICK i \in Files(m) : m.inode[i].indirect = s
        BY <3>4 DEF IsIndex
      <4>2. IndexTracks(m, z, {}, s)
        BY <1>1, <4>1, NoneIsNoBlock
      <4>3. OlderIndex(z[s], m.sector[s])
        BY <2>3, <4>2 DEF IndexTracks
      <4>4. IsIndex(w, s)
        BY <1>5, <4>1 DEF IsIndex
      <4> QED BY <1>4, <1>7, <2>3, <4>3, <4>4
    <3> QED BY <3>2, <3>3, <3>4
  <2> QED BY <2>1, <2>2, <2>3
<1>10. Older(w, w2)
  BY <1>6, <1>9 DEF Older
<1>11. \A b \in Blocks : Owned(w, b) => z[b] # Unread
  BY <1>1 DEF BlockTracks
<1> QED BY <1>3, <1>10, <1>11 DEF w, w2

(* A sector is read. *)
LEMMA FetchTracks ==
    ASSUME NEW m, NEW z, NEW U, NEW D, NEW F, NEW N, NEW d, Tracks(m, z, U, D, F, N, {}, d),
           NEW s \in Blocks, NEW m2, m2 = Placed(m, s, z[s])
    PROVE  Tracks(m2, z, U, D \cup {s}, F, N \ {s}, {}, d)
<1> DEFINE w == Complete(m, z)
           w2 == Complete(m2, z)
           none == {}
<1>1. /\ m \in Image /\ OnDisk(z) /\ Sound(w) /\ Shallow(w) /\ {0, d} \subseteq F /\ d \in Dirs(m)
      /\ U \subseteq Sectors /\ N \subseteq Blocks /\ \A b \in N : m.data_bitmap[b]
      /\ Resident(m, z, F)
  BY DEF Tracks
<1>2. \A b \in Blocks : Owned(w, b) => BlockTracks(m, z, D \cup U, N, none, b)
  BY DEF Tracks
<1>3. \A i \in Files(m) : m.inode[i].indirect # None => IndexTracks(m, z, none, m.inode[i].indirect)
  BY DEF Tracks
<1>4. Older(w, w2) /\ m2 \in Image /\ \A b \in Blocks : Owned(w, b) => z[b] # Unread
  BY PlacedOlder
<1>5. /\ m2.inode_bitmap = m.inode_bitmap /\ m2.data_bitmap = m.data_bitmap /\ m2.inode = m.inode
      /\ \A b \in Blocks : m2.sector[b] = IF b = s THEN z[s] ELSE m.sector[b]
      /\ Live(m2) = Live(m) /\ Dirs(m2) = Dirs(m) /\ Files(m2) = Files(m)
  <2>1. z[s] \in Sector
    BY <1>1 DEF OnDisk
  <2> QED BY <1>1, <2>1, PlacedMembers
<1>6. Live(w) = Live(m)
  BY <1>1, CompleteMembers
<1> HIDE DEF w, w2, none
<1>7. Sound(w2) /\ Shallow(w2) /\ \A b \in Blocks : Owned(w2, b) => Owned(w, b)
  BY <1>1, <1>4, OlderSound, OlderShallow
<1>8. \A b \in Blocks : b # s => (InMemory(m2, b) <=> InMemory(m, b))
  BY <1>5 DEF InMemory
<1>9. Owned(w, s) => InMemory(m2, s)
  BY <1>4, <1>5 DEF InMemory
<1>10. Resident(m2, z, F)
  <2> SUFFICES ASSUME NEW i \in (F \cap Live(m2)) \ {InodeSector}, NEW p \in Places, At(w2, i, p) # None
               PROVE  InMemory(m2, At(w2, i, p))
    BY DEF Resident, w2
  <2>1. BlocksSound(w) /\ i \in Live(w)
    BY <1>1, <1>5, <1>6 DEF Sound
  <2>2. At(w2, i, p) = At(w, i, p)
    BY <1>4, <2>1, OlderPlaces
  <2>3. InMemory(m, At(w, i, p))
    BY <1>1, <1>5, <2>2 DEF Resident, w
  <2>4. At(w, i, p) \in Blocks /\ Owned(w, At(w, i, p))
    BY <2>1, <2>2, OwnedBlocks
  <2> QED BY <1>8, <1>9, <2>2, <2>3, <2>4
<1>11. ASSUME NEW b \in Blocks, Owned(w2, b)
       PROVE  BlockTracks(m2, z, (D \cup {s}) \cup U, N \ {s}, none, b)
  <2>1. Owned(w, b) /\ BlockTracks(m, z, D \cup U, N, none, b)
    BY <1>2, <1>7, <1>11
  <2>2. CASE b = s
    <3>1. InMemory(m2, b) /\ m2.sector[b] = z[b] /\ z[b] # Unread
      BY <1>4, <1>5, <1>9, <2>1, <2>2
    <3> QED BY <2>2, <3>1 DEF BlockTracks
  <2>3. CASE b # s
    <3>1. m2.sector[b] = m.sector[b]
      BY <1>5, <2>3
    <3>2. IsIndex(m, b) => IsIndex(m2, b)
      BY <1>5 DEF IsIndex
    <3>3. IsFirstOrIndex(m, b) => IsFirstOrIndex(m2, b)
      BY <1>5 DEF IsFirstOrIndex
    <3> QED BY <1>8, <2>1, <2>3, <3>1, <3>2, <3>3 DEF BlockTracks
  <2> QED BY <2>2, <2>3
<1>12. ASSUME NEW i \in Files(m2), m2.inode[i].indirect # None
       PROVE  IndexTracks(m2, z, none, m2.inode[i].indirect)
  <2> DEFINE x == m2.inode[i].indirect
  <2>1. BlocksSound(w2) /\ IndexTracks(m, z, none, x) /\ x # None /\ x = m2.inode[i].indirect /\ x \in Blocks
    <3>1. BlocksSound(w) /\ BlocksSound(w2)
      BY <1>1, <1>7 DEF Sound
    <3>2. i \in Live(w) /\ w.inode = m.inode
      BY <1>1, <1>5, CompleteMembers DEF w, Files
    <3>3. x \in Blocks
      BY <1>5, <1>12, <3>1, <3>2, OwnedBlocks
    <3> QED BY <1>3, <1>5, <1>12, <3>1, <3>3
  <2> HIDE DEF x
  <2>2. InMemory(m2, x) => OlderIndex(m2.sector[x], m2.sector[x])
    BY <1>1, <1>4, <2>1, HeldItself DEF w2
  <2>3. CASE x = s
    <3>1. m2.sector[x] = z[x]
      BY <1>5, <2>1, <2>3
    <3>2. IndexTracks(m2, z, none, x)
      BY <2>2, <3>1 DEF IndexTracks
    <3> QED BY <3>2 DEF x
  <2>4. CASE x # s
    <3>1. m2.sector[x] = m.sector[x]
      BY <1>5, <2>1, <2>4
    <3>2. IndexTracks(m2, z, none, x)
      BY <2>1, <3>1 DEF IndexTracks, InMemory
    <3> QED BY <3>2 DEF x
  <2> QED BY <2>3, <2>4
<1>13. \A b \in N \ {s} : m2.data_bitmap[b]
  BY <1>1, <1>5
<1>14. Tracks(m2, z, U, D \cup {s}, F, N \ {s}, none, d)
  BY <1>1, <1>4, <1>5, <1>7, <1>10, <1>11, <1>12, <1>13 DEF Tracks, w2
<1> QED BY <1>14 DEF none

----------------------------------------------------------------------------
(* The start and the end *)

(* What the disk holds of the bitmaps and the inodes. *)
LEMMA BasicAre ==
    ASSUME NEW m, NEW z, \A s \in {InodeBitmap, DataBitmap, InodeTable} : Contents(m, s) = z[s]
    PROVE  /\ z[InodeBitmap].bit = m.inode_bitmap /\ z[DataBitmap].bit = m.data_bitmap /\ z[InodeTable].inode = m.inode
           /\ z[InodeBitmap].kind = "inode_bitmap" /\ z[DataBitmap].kind = "data_bitmap" /\ z[InodeTable].kind = "inodes"
<1>1. z[InodeBitmap] = Contents(m, InodeBitmap) /\ z[DataBitmap] = Contents(m, DataBitmap) /\ z[InodeTable] = Contents(m, InodeTable)
  OBVIOUS
<1>2. /\ Contents(m, InodeBitmap) = [kind |-> "inode_bitmap", bit |-> m.inode_bitmap]
      /\ Contents(m, DataBitmap) = [kind |-> "data_bitmap", bit |-> m.data_bitmap]
      /\ Contents(m, InodeTable) = [kind |-> "inodes", inode |-> m.inode]
  BY ContentsAre
<1> QED BY <1>1, <1>2

(* With no sector in memory but what the disk has there, the whole image is that of the disk. *)
LEMMA ImageOfDisk ==
    ASSUME NEW m \in Image, NEW z, OnDisk(z), \A s \in {InodeBitmap, DataBitmap, InodeTable} : Contents(m, s) = z[s],
           \A b \in Blocks : m.sector[b] \in {Unread, z[b]}
    PROVE  Complete(m, z) = Imaged(z)
<1>1. z[InodeBitmap].bit = m.inode_bitmap /\ z[DataBitmap].bit = m.data_bitmap /\ z[InodeTable].inode = m.inode
  BY BasicAre
<1>2. [b \in Blocks |-> IF m.sector[b] = Unread THEN z[b] ELSE m.sector[b]] = [b \in Blocks |-> z[b]]
  OBVIOUS
<1> QED BY <1>1, <1>2 DEF Complete, Imaged

(* When the bitmaps, the inodes and the root directory have been read, memory goes with the disk. *)
LEMMA StartTracks ==
    ASSUME NEW m \in Image, NEW z, OnDisk(z), GoodDisk(z), NEW D, D \subseteq Sectors, AwaitsBasic(m, D, 0),
           \A s \in D : Contents(m, s) = z[s], \A b \in Blocks : m.sector[b] \in {Unread, z[b]}
    PROVE  Tracks(m, z, {}, D, {0}, {}, {}, 0)
<1> DEFINE w == Complete(m, z)
<1>1. {InodeBitmap, DataBitmap, InodeTable} \subseteq D /\ ToSet(transfer(m, 0)) \subseteq D
  BY BlockNumbers DEF AwaitsBasic, InodeBitmap, DataBitmap, InodeTable
<1>2. w = Imaged(z)
  BY <1>1, ImageOfDisk
<1>3. Sound(w) /\ Shallow(w) /\ \A b \in Blocks : Owned(w, b) => z[b] # Unread
  BY <1>2 DEF GoodDisk
<1>4. BlocksSound(w) /\ 0 \in Dirs(w) /\ Dirs(w) = Dirs(m) /\ Live(w) = Live(m)
  BY <1>3, CompleteMembers DEF Sound, TreeOn, DirectoriesOf, Listing
<1>5. \A b \in Blocks \cap D : m.sector[b] = z[b]
  BY ContentsAre
<1>6. ASSUME 0 \in Live(m) PROVE \A b \in ToSet(transfer(m, 0)) : InMemory(m, b)
  <2> SUFFICES ASSUME NEW b \in ToSet(transfer(m, 0)) PROVE InMemory(m, b)
    OBVIOUS
  <2>1. 0 \in Inodes
    BY <1>6 DEF Live
  <2>2. b \in Blocks /\ \E p \in Places : At(m, 0, p) = b
    BY <2>1, TransferElements
  <2>3. PICK p \in Places : At(m, 0, p) = b
    BY <2>2
  <2>4. At(m, 0, p) \in {At(w, 0, p), None}
    BY <2>1, CompletePlaces
  <2>5. b # None
    BY <2>2, BlockNumbers DEF None
  <2>6. Owned(w, b)
    BY <2>3, <2>4, <2>5, <1>4, <1>6 DEF Owned
  <2>7. m.sector[b] = z[b]
    BY <1>1, <1>5, <2>2
  <2> QED BY <2>2, <2>6, <2>7, <1>3 DEF InMemory
<1>7. Resident(m, z, {0})
  <2> SUFFICES ASSUME 0 \in Live(m), NEW p \in Places, At(w, 0, p) # None PROVE InMemory(m, At(w, 0, p))
    BY DEF Resident
  <2>1. \A b \in ToSet(transfer(m, 0)) : InMemory(m, b)
    BY <1>6
  <2> QED BY <2>1, <1>4, TransferAll
<1>8. ASSUME NEW b \in Blocks, Owned(w, b) PROVE BlockTracks(m, z, D \cup {}, {}, {}, b)
  <2>1. z[b] # Unread /\ m.sector[b] \in {Unread, z[b]} /\ (b \in D => m.sector[b] = z[b])
    BY <1>3, <1>5, <1>8
  <2> QED BY <2>1 DEF BlockTracks, InMemory
<1>9. ASSUME NEW i \in Files(m), m.inode[i].indirect # None PROVE IndexTracks(m, z, {}, m.inode[i].indirect)
  <2> DEFINE x == m.inode[i].indirect
  <2>1. x \in Blocks
    <3>1. i \in Inodes /\ m.inode \in [Inodes -> Inode]
      BY DEF Files, Live, Image
    <3> QED BY <3>1, <1>9 DEF Inode, Slot
  <2>2. m.sector[x] \in {Unread, z[x]}
    BY <2>1
  <2>3. InMemory(m, x) => OlderIndex(m.sector[x], m.sector[x])
    BY <1>4, <1>9, HeldItself
  <2> HIDE DEF x
  <2>4. IndexTracks(m, z, {}, x)
    BY <2>2, <2>3 DEF IndexTracks, InMemory
  <2> QED BY <2>4 DEF x
<1> HIDE DEF w
<1>10. Sound(Complete(m, z)) /\ Shallow(Complete(m, z)) /\ 0 \in Dirs(m)
  BY <1>3, <1>4 DEF w
<1>11. \A b \in Blocks : Owned(Complete(m, z), b) => BlockTracks(m, z, D \cup {}, {}, {}, b)
  BY <1>8 DEF w
<1> QED BY <1>7, <1>9, <1>10, <1>11 DEF Tracks

(* When all has been sent the disk holds the image, with older index blocks. *)
LEMMA StopsGood ==
    ASSUME NEW m, NEW z, NEW D, NEW F, NEW N, NEW d, Tracks(m, z, {}, D, F, N, {}, d),
           \A s \in {InodeBitmap, DataBitmap, InodeTable} : Contents(m, s) = z[s]
    PROVE  GoodDisk(z)
<1> DEFINE w == Complete(m, z)
           w2 == Imaged(z)
<1>1. m \in Image /\ OnDisk(z) /\ Sound(w) /\ Shallow(w)
  BY DEF Tracks
<1>2. \A b \in Blocks : Owned(w, b) => BlockTracks(m, z, D \cup {}, N, {}, b)
  BY DEF Tracks
<1>3. \A i \in Files(m) : m.inode[i].indirect # None => IndexTracks(m, z, {}, m.inode[i].indirect)
  BY DEF Tracks
<1>4. /\ w.inode_bitmap = m.inode_bitmap /\ w.data_bitmap = m.data_bitmap /\ w.inode = m.inode
      /\ \A b \in Blocks : w.sector[b] = IF InMemory(m, b) THEN m.sector[b] ELSE z[b]
      /\ Files(w) = Files(m)
  BY <1>1, CompleteMembers DEF Files
<1>5. z[InodeBitmap].bit = m.inode_bitmap /\ z[DataBitmap].bit = m.data_bitmap /\ z[InodeTable].inode = m.inode
      /\ z[DataBitmap].kind = "data_bitmap" /\ z[InodeTable].kind = "inodes"
  BY BasicAre
<1>6. /\ w2.inode_bitmap = m.inode_bitmap /\ w2.data_bitmap = m.data_bitmap /\ w2.inode = m.inode
      /\ \A b \in Blocks : w2.sector[b] = z[b]
  BY <1>5 DEF Imaged
<1>7. w2 \in Image
  <2>1. m.inode_bitmap \in [Inodes -> BOOLEAN] /\ m.data_bitmap \in [Blocks -> BOOLEAN] /\ m.inode \in [Inodes -> Inode]
    BY <1>1 DEF Image
  <2>2. [b \in Blocks |-> z[b]] \in [Blocks -> Sector]
    BY <1>1 DEF OnDisk
  <2> QED BY <1>5, <2>1, <2>2 DEF Imaged, Image
<1>8. ASSUME NEW b \in Blocks, Owned(w, b)
      PROVE  /\ z[b] # Unread
             /\ w2.sector[b] = w.sector[b] \/ (IsIndex(w, b) /\ OlderIndex(w2.sector[b], w.sector[b]))
  <2>1. z[b] # Unread /\ (m.sector[b] \in {Unread, z[b]} \/ IsIndex(m, b))
    BY <1>2, <1>8 DEF BlockTracks
  <2>2. CASE m.sector[b] \in {Unread, z[b]}
    BY <2>1, <2>2, <1>4, <1>6 DEF InMemory
  <2>3. CASE ~InMemory(m, b)
    BY <2>1, <2>3, <1>4, <1>6 DEF InMemory
  <2>4. CASE IsIndex(m, b) /\ InMemory(m, b)
    <3>1. PICK i \in Files(m) : m.inode[i].indirect = b
      BY <2>4 DEF IsIndex
    <3>2. b # None
      BY BlockNumbers DEF None
    <3>3. IndexTracks(m, z, {}, b)
      BY <3>1, <3>2, <1>3
    <3>4. OlderIndex(z[b], m.sector[b])
      BY <3>3, <2>4 DEF IndexTracks
    <3>5. IsIndex(w, b)
      BY <3>1, <1>4 DEF IsIndex
    <3>6. w2.sector[b] = z[b] /\ w.sector[b] = m.sector[b]
      BY <2>4, <1>4, <1>6
    <3> QED BY <2>1, <3>4, <3>5, <3>6
  <2> QED BY <2>1, <2>2, <2>3, <2>4
<1> HIDE DEF w, w2
<1>9. Older(w, w2)
  BY <1>4, <1>6, <1>7, <1>8 DEF Older
<1>10. Sound(w) /\ Shallow(w)
  BY <1>1 DEF w
<1>11. Sound(w2) /\ \A b \in Blocks : Owned(w2, b) => Owned(w, b)
  BY <1>9, <1>10, OlderSound
<1>12. Shallow(w2)
  BY <1>9, <1>10, OlderShallow
<1>13. \A b \in Blocks : Owned(w2, b) => z[b] # Unread
  BY <1>8, <1>11
<1> QED BY <1>5, <1>11, <1>12, <1>13 DEF GoodDisk, w2

(* At the exit the bitmaps, the inodes and the root directory are listed, which are in memory. *)
LEMMA ExitTracks ==
    ASSUME NEW m, NEW z, NEW U, NEW D, NEW F, NEW N, NEW d, Tracks(m, z, U, D, F, N, {}, d),
           NEW U2, U2 = U \cup SavedAtExit
    PROVE  Tracks(m, z, U2, D, F, N, U2, d)
<1>1. m \in Image /\ OnDisk(z) /\ BlocksSound(Complete(m, z)) /\ U \subseteq Sectors /\ Resident(m, z, F) /\ 0 \in F
      /\ Sound(Complete(m, z)) /\ Complete(m, z).inode[0].direct[0] = RootBlock
  BY DEF Tracks, Sound, Shallow
<1>2. U \subseteq U2 /\ U2 \subseteq Sectors
  BY <1>1, SectorsAre DEF SavedAtExit
<1>3. 0 \in Live(m)
  <2>1. 0 \in Dirs(Complete(m, z))
    BY <1>1 DEF Sound, TreeOn, DirectoriesOf, Listing
  <2> QED BY <2>1, <1>1, CompleteMembers DEF Dirs
<1>4. InMemory(m, RootBlock)
  <2>1. <<"direct", 0>> \in Places /\ At(Complete(m, z), 0, <<"direct", 0>>) = RootBlock
    <3>1. 0 \in 0..INODE_DIRECT_NUM - 1
      BY ConstantsTyped
    <3> QED BY <3>1, <1>1, AllPlaces
  <2>2. 0 \in (F \cap Live(m)) \ {InodeSector}
    BY <1>1, <1>3, FileServerAssumption
  <2>3. RootBlock # None
    BY DEF RootBlock, None
  <2> QED BY <1>1, <2>1, <2>2, <2>3 DEF Resident
<1>5. \A b \in U2 \ U : Owned(Complete(m, z), b) => InMemory(m, b)
  <2> SUFFICES ASSUME NEW b \in U2 \ U, Owned(Complete(m, z), b) PROVE InMemory(m, b)
    OBVIOUS
  <2>1. PICK i \in Live(m), p \in Places : At(Complete(m, z), i, p) = b
    BY <1>1, OwnedAt
  <2>2. b \in BasicSectors
    BY DEF SavedAtExit
  <2>3. b # None
    BY <2>2, ConstantsTyped DEF BasicSectors, InodeBitmap, DataBitmap, InodeTable, RootBlock, None
  <2>4. i \in Live(Complete(m, z))
    BY <1>1, CompleteMembers
  <2>5. b \in Blocks
    BY <1>1, <2>1, <2>3, <2>4, OwnedBlocks
  <2> QED BY <2>2, <2>5, <1>4, SectorsAre DEF BasicSectors
<1> DEFINE none == {}
<1>6. Tracks(m, z, U, D, F, N, none, d) /\ none \subseteq U2
  OBVIOUS
<1> HIDE DEF none
<1>7. F \subseteq F
  OBVIOUS
<1>8. U2 \subseteq U2
  OBVIOUS
<1>9. none \subseteq U2
  BY <1>6
<1> QED BY <1>1, <1>2, <1>5, <1>6, TracksMore

(* What the flags say of an inode. *)
LEMMA FlagsMean ==
    ASSUME NEW m, NEW z, NEW U, NEW D, NEW F, NEW N, NEW E, NEW d, Tracks(m, z, U, D, F, N, E, d)
    PROVE  \A i \in (F \cap LiveInodes(m)) \ {InodeSector} : \A b \in BlocksOf(m, i) : m.sector[b] # Unread
<1> SUFFICES ASSUME NEW i \in (F \cap LiveInodes(m)) \ {InodeSector}, NEW b \in BlocksOf(m, i) PROVE m.sector[b] # Unread
  OBVIOUS
<1>1. m \in Image /\ OnDisk(z) /\ Resident(m, z, F) /\ i \in Inodes /\ i \in Live(m)
  BY DEF Tracks, LiveInodes, Live
<1>2. b # None /\ \E p \in Places : At(m, i, p) = b
  BY <1>1, BlocksAtPlaces
<1>3. PICK p \in Places : At(m, i, p) = b
  BY <1>2
<1>4. At(m, i, p) \in {At(Complete(m, z), i, p), None}
  BY <1>1, CompletePlaces
<1>5. At(Complete(m, z), i, p) = b
  BY <1>2, <1>3, <1>4
<1> QED BY <1>1, <1>2, <1>3, <1>5 DEF Resident, InMemory

----------------------------------------------------------------------------
(* The steps keep the invariant *)

(* What a step that leaves the socket alone has nothing to do with. *)
LEMMA Silent ==
    ASSUME Core, UNCHANGED linkVars, server # "stopped", server' # "stopped"
    PROVE  /\ Final' = Final /\ Link!Asked' = Link!Asked /\ reply' = reply
           /\ Stopped' /\ NewDisk' /\ ExitLast'
<1>1. wire' = wire /\ store' = store /\ reply' = reply /\ exists' = exists /\ disk' = disk
  BY DEF linkVars
<1>2. Final' = Final
  BY <1>1, FinalStays
<1>3. Link!Asked' = Link!Asked
  BY <1>1 DEF Link!Asked
<1>4. Stopped'
  BY DEF Stopped
<1>5. NewDisk'
  BY <1>1 DEF Core, NewDisk
<1>6. ExitLast'
  BY <1>1 DEF Core, ExitLast
<1> QED BY <1>1, <1>2, <1>3, <1>4, <1>5, <1>6

(* Nothing but the client and the counters changes. *)
LEMMA FrameKeeps ==
    ASSUME Core, RequestsInRange, UNCHANGED <<memVars, server, job, sector_idx, linkVars>>
    PROVE  Core' /\ RequestsInRange'
<1>1. /\ file_storage' = file_storage /\ cur_dir' = cur_dir /\ inited' = inited /\ update_sector' = update_sector
      /\ data_block_in_memory' = data_block_in_memory /\ file_in_memory' = file_in_memory /\ newer' = newer
      /\ server' = server /\ job' = job /\ sector_idx' = sector_idx
  BY DEF memVars
<1>2. wire' = wire /\ store' = store /\ reply' = reply /\ exists' = exists /\ disk' = disk
  BY DEF linkVars
<1>3. Final' = Final
  BY <1>2, FinalStays
<1>4. Link!Asked' = Link!Asked
  BY <1>2 DEF Link!Asked
<1>5. Typed'
  BY <1>1, <1>3 DEF Core, Typed
<1>6. Tracking'
  BY <1>1, <1>3 DEF Core, Tracking, Runs
<1>7. Waiting'
  BY <1>1 DEF Core, Waiting, Due, Orderly
<1>8. Unformatted'
  BY <1>1, <1>3 DEF Core, Unformatted, Runs
<1>9. Loading'
  BY <1>1, <1>3 DEF Core, Loading, Runs
<1>10. Answering'
  BY <1>1, <1>2, <1>3, <1>4 DEF Core, Answering
<1>11. Stopped' /\ NewDisk' /\ ExitLast'
  BY <1>1, <1>2, <1>3 DEF Core, Stopped, NewDisk, ExitLast
<1>12. Leaving'
  BY <1>1, <1>3 DEF Core, Leaving
<1>13. RequestsInRange'
  BY <1>1 DEF RequestsInRange
<1> QED BY <1>5, <1>6, <1>7, <1>8, <1>9, <1>10, <1>11, <1>12, <1>13 DEF Core

(* The last client leaves. *)
LEMMA ExitKeeps ==
    ASSUME Core, RequestsInRange, Exit
    PROVE  Core' /\ RequestsInRange'
<1>1. CASE UNCHANGED <<server, job, update_sector>>
  <2>1. UNCHANGED <<memVars, server, job, sector_idx, linkVars>>
    BY <1>1 DEF Exit, memVars
  <2> QED BY <2>1, FrameKeeps
<1>2. CASE server' = "save" /\ job' = Job("exit", "") /\ update_sector' = update_sector \cup SavedAtExit
  <2>1. /\ server = "idle" /\ server' = "save" /\ job'.op = "exit" /\ update_sector' = update_sector \cup SavedAtExit
        /\ file_storage' = file_storage /\ cur_dir' = cur_dir /\ inited' = inited
        /\ data_block_in_memory' = data_block_in_memory /\ file_in_memory' = file_in_memory /\ newer' = newer
        /\ sector_idx' = sector_idx
    BY <1>2 DEF Exit, Job
  <2>2. UNCHANGED linkVars
    BY DEF Exit
  <2>3. Final' = Final /\ Stopped' /\ NewDisk' /\ ExitLast'
    BY <2>1, <2>2, Silent
  <2>4. Typed'
    BY <2>1, <2>3 DEF Core, Typed
  <2>5. Tracking'
    <3> SUFFICES ASSUME inited PROVE Tracks(file_storage, Final, update_sector', data_block_in_memory, file_in_memory, newer, update_sector', cur_dir)
      BY <2>1, <2>3 DEF Tracking
    <3>1. Tracks(file_storage, Final, update_sector, data_block_in_memory, file_in_memory, newer, {}, cur_dir)
      BY <2>1 DEF Core, Tracking, Runs
    <3> QED BY <3>1, <2>1, ExitTracks
  <2>6. Waiting' /\ Answering'
    BY <2>1 DEF Waiting, Answering
  <2>7. Unformatted'
    <3> SUFFICES ASSUME ~inited
                 PROVE  /\ file_in_memory = {} /\ newer = {} /\ update_sector' \subseteq BasicSectors /\ ~IsFormatted(Final)
      BY <2>1, <2>3 DEF Unformatted
    <3>1. job.op # "start"
      BY <2>1 DEF Core, Loading, Runs
    <3>2. /\ file_in_memory = {} /\ newer = {} /\ update_sector = {} /\ ~IsFormatted(Final)
      BY <2>1, <3>1 DEF Core, Unformatted, Runs
    <3> QED BY <3>2, <2>1 DEF SavedAtExit
  <2>8. Loading'
    BY <2>1 DEF Loading
  <2>9. Leaving'
    <3>1. {InodeBitmap, DataBitmap, InodeTable} \subseteq update_sector'
      BY <2>1 DEF SavedAtExit, BasicSectors
    <3> QED BY <3>1 DEF Leaving
  <2>10. RequestsInRange'
    <3>1. SavedAtExit \subseteq Sectors
      BY DEF SavedAtExit, Sectors
    <3> QED BY <2>1, <3>1 DEF RequestsInRange
  <2> QED BY <2>3, <2>4, <2>5, <2>6, <2>7, <2>8, <2>9, <2>10 DEF Core
<1> QED BY <1>1, <1>2 DEF Exit

(* A sector is asked for. *)
LEMMA FetchKeeps ==
    ASSUME Core, RequestsInRange, ServerInv, Fetch
    PROVE  Core' /\ RequestsInRange'
<1>1. /\ server = "load" /\ server' = "await" /\ sector_idx \in Sectors
      /\ file_storage' = file_storage /\ cur_dir' = cur_dir /\ inited' = inited /\ update_sector' = update_sector
      /\ data_block_in_memory' = data_block_in_memory /\ file_in_memory' = file_in_memory /\ newer' = newer
      /\ job' = job /\ sector_idx' = sector_idx /\ Link!SendRead(sector_idx) /\ sector_idx # 0
  BY DEF Fetch, RequestsInRange, memVars
<1>2. PICK C : LinkInv(C)
  BY DEF ServerInv
<1>3. Quiet
  BY <1>1 DEF ServerInv
<1>4. Final' = Final /\ Link!Asked' = {sector_idx} /\ reply' = <<>>
  BY <1>1, <1>2, <1>3, FinalRequested
<1>5. /\ wire' = Append(wire, [op |-> "R", sector |-> sector_idx])
      /\ store' = store /\ exists' = exists /\ disk' = disk
  BY <1>1 DEF Link!SendRead
<1>6. ExitLast'
  <2>1. [op |-> "R", sector |-> sector_idx].op # "E"
    OBVIOUS
  <2> DEFINE r == [op |-> "R", sector |-> sector_idx]
  <2>2. wire' = Append(wire, r) /\ r.op # "E"
    BY <1>5, <2>1
  <2> HIDE DEF r
  <2>3. ExitLast /\ server # "stopped" /\ (r.op = "E" => server' = "stopped")
    BY <1>1, <2>2 DEF Core
  <2> QED BY <1>2, <1>5, <2>2, <2>3, SentLast
<1>7. Stopped' /\ NewDisk'
  BY <1>1, <1>5 DEF Core, Stopped, NewDisk
<1>8. Typed'
  BY <1>1, <1>4 DEF Core, Typed
<1>9. Tracking'
  BY <1>1, <1>4 DEF Core, Tracking, Runs
<1>10. Waiting'
  BY <1>1 DEF Core, Waiting, Due, Orderly
<1>11. Unformatted'
  BY <1>1 DEF Core, Unformatted, Runs
<1>12. Loading'
  BY <1>1, <1>4 DEF Core, Loading, Runs
<1>13. Answering'
  BY <1>1, <1>4 DEF Answering
<1>14. Leaving'
  BY <1>1 DEF Leaving
<1>15. RequestsInRange'
  BY <1>1 DEF RequestsInRange
<1> QED BY <1>6, <1>7, <1>8, <1>9, <1>10, <1>11, <1>12, <1>13, <1>14, <1>15 DEF Core

(* The list has been sent. *)
LEMMA SavedKeeps ==
    ASSUME Core, RequestsInRange, Saved
    PROVE  Core' /\ RequestsInRange'
<1>1. /\ server = "save" /\ server' = "idle" /\ update_sector = {} /\ job.op # "exit"
      /\ file_storage' = file_storage /\ cur_dir' = cur_dir /\ inited' = inited /\ update_sector' = update_sector
      /\ data_block_in_memory' = data_block_in_memory /\ file_in_memory' = file_in_memory /\ newer' = newer
      /\ sector_idx' = sector_idx
  BY DEF Saved, memVars
<1>2. UNCHANGED linkVars
  BY DEF Saved
<1>3. Final' = Final /\ Stopped' /\ NewDisk' /\ ExitLast'
  BY <1>1, <1>2, Silent
<1>4. inited
  <2> SUFFICES ASSUME ~inited PROVE FALSE
    OBVIOUS
  <2>1. job.op # "start"
    BY <1>1 DEF Core, Loading, Runs
  <2> QED BY <1>1, <2>1 DEF Core, Unformatted, Runs
<1>5. Typed'
  BY <1>1, <1>3 DEF Core, Typed
<1>6. Tracking'
  <2>1. Tracks(file_storage, Final, update_sector, data_block_in_memory, file_in_memory, newer, update_sector, cur_dir)
    BY <1>1, <1>4 DEF Core, Tracking, Runs
  <2>2. Tracks(file_storage, Final, update_sector, data_block_in_memory, file_in_memory, newer, {}, cur_dir)
    BY <2>1, <1>1
  <2> QED BY <1>1, <1>3, <2>2 DEF Tracking
<1>7. Waiting' /\ Answering' /\ Leaving'
  BY <1>1 DEF Waiting, Answering, Leaving
<1>8. Unformatted' /\ Loading'
  BY <1>1, <1>4 DEF Unformatted, Loading
<1>9. RequestsInRange'
  BY <1>1 DEF RequestsInRange
<1> QED BY <1>3, <1>5, <1>6, <1>7, <1>8, <1>9 DEF Core

(* A sequence of elements of S is one of elements of T. *)
LEMMA SeqWider ==
    ASSUME NEW S, NEW T, S \subseteq T, NEW q \in Seq(S)
    PROVE  q \in Seq(T)
<1>1. \A k \in 1..Len(q) : q[k] \in T
  OBVIOUS
<1> QED BY <1>1

(* The empty sequence. *)
LEMMA NoElements ==
    ASSUME NEW S
    PROVE  <<>> \in Seq(S) /\ \A i : i \notin ToSet(<<>>)
<1>1. <<>> \in Seq(S) /\ Len(<<>>) = 0
  OBVIOUS
<1> DEFINE q == <<>>
<1>2. q \in Seq(S) /\ Len(q) = 0
  BY <1>1
<1> HIDE DEF q
<1>3. \A b : b \in ToSet(q) <=> \E k \in 1..Len(q) : q[k] = b
  BY <1>2, SeqElements
<1>4. \A i : i \notin ToSet(q)
  BY <1>2, <1>3
<1> QED BY <1>1, <1>4 DEF q

(* The two servers are started. *)
LEMMA StartKeeps ==
    ASSUME Core, RequestsInRange, Start
    PROVE  Core' /\ RequestsInRange'
<1>1. /\ server = "stopped" /\ server' = "load" /\ job' = Job(IF exists THEN "start" ELSE "new", "")
      /\ file_storage' = Blank /\ cur_dir' = 0 /\ inited' = FALSE
      /\ update_sector' = {} /\ data_block_in_memory' = {} /\ file_in_memory' = {} /\ newer' = {}
      /\ sector_idx' = IF exists THEN InodeBitmap ELSE 0
  BY DEF Start
<1>2. wire = <<>> /\ wire' = wire /\ store' = store /\ reply' = <<>> /\ exists' = exists /\ disk' = "serving"
  BY DEF Start, Link!Connect
<1>3. Final' = Final
  BY <1>2, FinalStays
<1>4. job'.op = IF exists THEN "start" ELSE "new"
  BY <1>1 DEF Job
<1>5. Typed'
  <2>1. Blank \in Image
    BY BlankIs
  <2> QED BY <1>1, <1>3, <2>1 DEF Core, Typed
<1>6. Tracking' /\ Waiting' /\ Answering' /\ Stopped' /\ Leaving'
  BY <1>1 DEF Tracking, Waiting, Answering, Stopped, Leaving
<1>7. NewDisk'
  BY <1>2 DEF Core, NewDisk
<1>8. ExitLast'
  <2>1. Len(wire') = 0
    BY <1>2
  <2>2. \A k \in 1..Len(wire') : FALSE
    BY <2>1
  <2> QED BY <1>2, <2>2 DEF ExitLast
<1>9. Unformatted'
  <2> SUFFICES ASSUME ~exists PROVE ~IsFormatted(Final)
    BY <1>1, <1>3, <1>4 DEF Unformatted
  <2>1. Link!Settled(InodeBitmap) = store[InodeBitmap]
    <3>1. Link!WritesOf(InodeBitmap) = {}
      BY <1>2 DEF Link!WritesOf
    <3> QED BY <3>1 DEF Link!Settled
  <2>2. Final[InodeBitmap] = store[InodeBitmap]
    BY <2>1, SectorsAre DEF Final
  <2>3. store[InodeBitmap] = Data
    BY DEF Core, NewDisk
  <2>4. Data.kind = "data"
    BY Kinds
  <2> QED BY <2>2, <2>3, <2>4 DEF IsFormatted
<1>10. Loading'
  <2> SUFFICES ASSUME exists
               PROVE  /\ IsFormatted(Final) => GoodDisk(Final)
                      /\ \A b \in Blocks : Blank.sector[b] \in {Unread, Final[b]}
                      /\ AwaitsBasic(Blank, {}, InodeBitmap)
    BY <1>1, <1>3, <1>4 DEF Loading
  <2>1. IsFormatted(Final) => GoodDisk(Final)
    BY <1>1 DEF Core, Stopped
  <2>2. \A b \in Blocks : Blank.sector[b] \in {Unread, Final[b]}
    BY BlankIs
  <2>3. AwaitsBasic(Blank, {}, InodeBitmap)
    BY DEF AwaitsBasic
  <2> QED BY <2>1, <2>2, <2>3
<1>11. RequestsInRange'
  BY <1>1, SectorsAre DEF RequestsInRange
<1> QED BY <1>5, <1>6, <1>7, <1>8, <1>9, <1>10, <1>11 DEF Core

(* A command is sent. *)
LEMMA AskKeeps ==
    ASSUME Core, RequestsInRange, NEW o, NEW name, Ask(o, name),
           o = "f" \/ (o \in Commands \cup {"ls", "cd /"} /\ (o \in Commands \ {"cd"} => name \in Names)
                       /\ (o = "cd" => name \in Names \cup {".."}))
    PROVE  Core' /\ RequestsInRange'
<1>1. /\ server = "idle" /\ server' = "load" /\ job' = Job(o, name) /\ inited = (o # "f") /\ Orderly(o, name)
      /\ AwaitNext(file_storage, data_block_in_memory, Job(o, name))
      /\ file_storage' = file_storage /\ cur_dir' = cur_dir /\ inited' = inited /\ update_sector' = update_sector
      /\ data_block_in_memory' = data_block_in_memory /\ file_in_memory' = file_in_memory /\ newer' = newer
  BY DEF Ask, memVars
<1>2. UNCHANGED linkVars
  BY DEF Ask
<1>3. Final' = Final /\ Stopped' /\ NewDisk' /\ ExitLast'
  BY <1>1, <1>2, Silent
<1>4. job'.op = o /\ job'.name = name /\ o # "start"
  BY <1>1 DEF Job, Commands
<1>5. Typed'
  BY <1>1, <1>3 DEF Core, Typed
<1>6. Tracking'
  BY <1>1, <1>3 DEF Core, Tracking, Runs
<1>7. ASSUME inited
      PROVE  Awaits(file_storage, data_block_in_memory, file_in_memory, cur_dir, job', sector_idx')
  <2>1. Tracks(file_storage, Final, update_sector, data_block_in_memory, file_in_memory, newer, {}, cur_dir)
    BY <1>1, <1>7 DEF Core, Tracking, Runs
  <2>2. file_storage \in Image /\ OnDisk(Final) /\ Sound(Complete(file_storage, Final)) /\ cur_dir \in Dirs(file_storage)
    BY <2>1 DEF Tracks
  <2>3. Transferred(file_storage, cur_dir, job') \in Seq(Live(file_storage))
    BY <2>2, <1>4, TransferredLive
  <2>4. Transferred(file_storage, cur_dir, job') \in Seq(Inodes)
    <3>1. Live(file_storage) \subseteq Inodes
      BY DEF Live
    <3> QED BY <2>3, <3>1, SeqWider
  <2>5. AwaitNext(file_storage, data_block_in_memory, job') /\ job'.op # "start"
    BY <1>1, <1>4
  <2> QED BY <2>2, <2>4, <2>5, NextAwaited
<1>8. Waiting'
  <2> SUFFICES ASSUME inited
               PROVE  /\ o \in Commands \cup {"ls", "cd /"} /\ (o \in Commands \ {"cd"} => name \in Names)
                      /\ (o = "cd" => name \in Names \cup {".."}) /\ Orderly(o, name)'
                      /\ Awaits(file_storage, data_block_in_memory, file_in_memory, cur_dir, job', sector_idx')
    BY <1>1, <1>4 DEF Waiting, Due, Orderly
  <2>1. Orderly(o, name)'
    BY <1>1 DEF Orderly
  <2> QED BY <1>1, <1>7, <2>1
<1>9. Unformatted'
  <2> SUFFICES ASSUME ~inited
               PROVE  /\ file_in_memory = {} /\ newer = {} /\ update_sector = {} /\ ~IsFormatted(Final)
                      /\ sector_idx' = 0 /\ o \in {"new", "f"}
    BY <1>1, <1>3, <1>4 DEF Unformatted
  <2>1. job.op # "start"
    BY <1>1 DEF Core, Loading, Runs
  <2>2. /\ file_in_memory = {} /\ newer = {} /\ update_sector = {} /\ ~IsFormatted(Final)
    BY <1>1, <2>1 DEF Core, Unformatted, Runs
  <2>3. o = "f"
    BY <1>1
  <2>4. sector_idx' = 0
    <3>1. Transferred(file_storage, cur_dir, Job("f", name)) = <<>>
      BY DEF Transferred, Job
    <3>2. Job("f", name).op # "start"
      BY DEF Job
    <3> DEFINE j == Job("f", name)
    <3>3. Transferred(file_storage, cur_dir, j) = <<>> /\ j.op # "start" /\ AwaitNext(file_storage, data_block_in_memory, j)
      BY <1>1, <2>3, <3>1, <3>2
    <3> HIDE DEF j
    <3>4. file_storage \in Image /\ <<>> \in Seq(Inodes) /\ \A i : i \notin ToSet(<<>>)
      <4>1. file_storage \in Image
        BY DEF Core, Typed
      <4> QED BY <4>1, NoElements
    <3>5. Transferred(file_storage, cur_dir, j) \in Seq(Inodes)
      BY <3>3, <3>4
    <3>6. Awaits(file_storage, data_block_in_memory, file_in_memory, cur_dir, j, sector_idx')
      BY <3>3, <3>4, <3>5, NextAwaited
    <3> QED BY <3>3, <3>4, <3>6 DEF Awaits
  <2> QED BY <2>2, <2>3, <2>4
<1>10. Loading' /\ Answering' /\ Leaving'
  BY <1>1, <1>4 DEF Loading, Answering, Leaving
<1>11. RequestsInRange'
  <2>1. CASE inited
    <3>1. sector_idx' \in {0} \cup Blocks
      BY <2>1, <1>7 DEF Awaits
    <3> QED BY <1>1, <3>1, SectorsAre DEF RequestsInRange
  <2>2. CASE ~inited
    <3>1. sector_idx' = 0
      BY <1>1, <1>4, <1>9, <2>2 DEF Unformatted, Runs
    <3> QED BY <1>1, <3>1 DEF RequestsInRange
  <2> QED BY <2>1, <2>2
<1> QED BY <1>3, <1>5, <1>6, <1>8, <1>9, <1>10, <1>11 DEF Core

(* A sector of the list is sent. *)
LEMMA SaveKeeps ==
    ASSUME Core, RequestsInRange, ServerInv, Save
    PROVE  Core' /\ RequestsInRange'
<1> DEFINE s == Min(update_sector)
<1>1. /\ server = "save" /\ update_sector # {} /\ Link!SendWrite(s, Held(s))
      /\ update_sector' = update_sector \ {s} /\ newer' = newer \ {s}
      /\ file_storage' = file_storage /\ cur_dir' = cur_dir /\ inited' = inited
      /\ data_block_in_memory' = data_block_in_memory /\ file_in_memory' = file_in_memory
      /\ server' = server /\ job' = job /\ sector_idx' = sector_idx
  BY DEF Save, procVars
<1>2. s \in update_sector /\ s \in Sectors
  <2>1. update_sector \in SUBSET Nat
    <3>1. Sectors \subseteq Nat
      BY BlockNumbers, ConstantsTyped DEF Sectors, BasicSectors, InodeBitmap, DataBitmap, InodeTable, RootBlock
    <3> QED BY <3>1 DEF RequestsInRange
  <2> QED BY <1>1, <2>1, LeastElement DEF RequestsInRange
<1> HIDE DEF s
<1>3. PICK C : LinkInv(C)
  BY DEF ServerInv
<1>4. Quiet
  BY <1>1 DEF ServerInv
<1> DEFINE c == Held(s)
           r == [op |-> "W", sector |-> s, data |-> c]
<1>5. Link!SendWrite(s, c)
  BY <1>1
<1> HIDE DEF c
<1>6. Final' = [Final EXCEPT ![s] = c] /\ wire' = Append(wire, r)
  BY <1>2, <1>3, <1>4, <1>5, FinalWritten
<1>7. store' = store /\ exists' = exists /\ disk' = disk
  BY <1>5 DEF Link!SendWrite
<1>8. ExitLast'
  <2>1. r.op # "E"
    OBVIOUS
  <2> HIDE DEF r
  <2>2. ExitLast /\ server # "stopped" /\ (r.op = "E" => server' = "stopped")
    BY <1>1, <2>1 DEF Core
  <2> QED BY <1>3, <1>6, <1>7, <2>2, SentLast
<1>9. Final'[s] = c /\ \A x \in Sectors : x # s => Final'[x] = Final[x]
  <2>1. DOMAIN Final = Sectors
    BY DEF Final
  <2> HIDE DEF Final
  <2> QED BY <1>2, <1>6, <2>1
<1>10. c \in {Unread, Contents(file_storage, s)} /\ (inited => c = Contents(file_storage, s)) /\ (~inited => c = Unread)
  BY DEF c, Held
<1>11. Typed'
  <2>1. file_storage \in Image /\ \A x \in Sectors : Final[x] \in Stored(x)
    BY DEF Core, Typed
  <2>2. Contents(file_storage, s) \in Stored(s) /\ Unread \in Stored(s)
    BY <1>2, <2>1, HeldStored
  <2>3. c \in Stored(s)
    BY <1>10, <2>2
  <2>4. ASSUME NEW x \in Sectors PROVE Final'[x] \in Stored(x)
    <3>1. CASE x = s
      BY <3>1, <1>9, <2>3
    <3>2. CASE x # s
      BY <3>2, <1>9, <2>1
    <3> QED BY <3>1, <3>2
  <2>5. server' \in {"stopped", "idle", "load", "await", "save"} /\ inited' \in BOOLEAN /\ file_storage' \in Image
    BY <1>1 DEF Core, Typed
  <2> QED BY <2>4, <2>5 DEF Typed
<1>12. Tracking'
  <2> SUFFICES ASSUME inited
               PROVE  Tracks(file_storage, Final', update_sector \ {s}, data_block_in_memory, file_in_memory, newer \ {s},
                             update_sector \ {s}, cur_dir)
    BY <1>1 DEF Tracking
  <2>1. Tracks(file_storage, Final, update_sector, data_block_in_memory, file_in_memory, newer, update_sector, cur_dir)
    BY <1>1 DEF Core, Tracking, Runs
  <2>2. Sent(file_storage, Final, s, Final')
    BY <1>2, <1>9, <1>10 DEF Sent
  <2> QED BY <1>2, <2>1, <2>2, SaveTracks
<1>13. Waiting' /\ Answering' /\ Stopped'
  BY <1>1 DEF Waiting, Answering, Stopped
<1>14. Unformatted'
  <2> SUFFICES ASSUME ~inited, job.op # "start"
               PROVE  /\ file_in_memory = {} /\ newer \ {s} = {} /\ update_sector \ {s} \subseteq BasicSectors
                      /\ ~IsFormatted(Final') /\ job.op = "exit"
    BY <1>1 DEF Unformatted
  <2>1. /\ file_in_memory = {} /\ newer = {} /\ update_sector \subseteq BasicSectors /\ ~IsFormatted(Final) /\ job.op = "exit"
    BY <1>1 DEF Core, Unformatted, Runs
  <2>2. ~IsFormatted(Final')
    <3>1. CASE s = InodeBitmap
      <4>1. Final'[InodeBitmap] = Unread
        BY <3>1, <1>9, <1>10
      <4>2. Unread.kind = "unread"
        BY Kinds
      <4> QED BY <4>1, <4>2 DEF IsFormatted
    <3>2. CASE s # InodeBitmap
      <4>1. Final'[InodeBitmap] = Final[InodeBitmap]
        BY <3>2, <1>9, SectorsAre
      <4> QED BY <4>1, <2>1 DEF IsFormatted
    <3> QED BY <3>1, <3>2
  <2> QED BY <2>1, <2>2
<1>15. Loading'
  <2>1. ~inited => job.op # "start"
    BY <1>1 DEF Core, Loading, Runs
  <2> QED BY <1>1, <2>1 DEF Loading
<1>16. NewDisk'
  BY <1>7 DEF Core, NewDisk
<1>17. Leaving'
  <2> SUFFICES ASSUME job.op = "exit", inited, NEW x \in {InodeBitmap, DataBitmap, InodeTable}
               PROVE  x \in update_sector \ {s} \/ Final'[x] = Contents(file_storage, x)
    BY <1>1 DEF Leaving
  <2>1. x \in update_sector \/ Final[x] = Contents(file_storage, x)
    BY <1>1 DEF Core, Leaving
  <2>2. x \in Sectors
    BY SectorsAre
  <2>3. CASE x = s
    BY <2>3, <1>9, <1>10
  <2>4. CASE x # s
    BY <2>1, <2>2, <2>4, <1>9
  <2> QED BY <2>3, <2>4
<1>18. RequestsInRange'
  BY <1>1 DEF RequestsInRange
<1> QED BY <1>8, <1>11, <1>12, <1>13, <1>14, <1>15, <1>16, <1>17, <1>18 DEF Core

(* The server stops, and tells the disk server. *)
LEMMA StopKeeps ==
    ASSUME Core, RequestsInRange, ServerInv, Stop
    PROVE  Core' /\ RequestsInRange'
<1>1. /\ server = "save" /\ update_sector = {} /\ Link!SendExit /\ server' = "stopped" /\ job.op = "exit"
      /\ update_sector' = update_sector /\ file_storage' = file_storage /\ inited' = inited /\ sector_idx' = sector_idx
  BY DEF Stop, memVars
<1>2. PICK C : LinkInv(C)
  BY DEF ServerInv
<1>3. Quiet
  BY <1>1 DEF ServerInv
<1>4. Final' = Final
  BY <1>1, <1>2, <1>3, FinalRequested
<1> DEFINE r == [op |-> "E"]
<1>5. wire' = Append(wire, r) /\ store' = store /\ exists' = exists /\ disk' = disk
  BY <1>1 DEF Link!SendExit
<1> HIDE DEF r
<1>6. ExitLast'
  <2>1. ExitLast /\ server # "stopped" /\ (r.op = "E" => server' = "stopped")
    BY <1>1 DEF Core
  <2> QED BY <1>2, <1>5, <2>1, SentLast
<1>7. Typed'
  BY <1>1, <1>4 DEF Core, Typed
<1>8. Tracking' /\ Waiting' /\ Unformatted' /\ Loading' /\ Answering' /\ Leaving'
  BY <1>1 DEF Tracking, Waiting, Unformatted, Loading, Answering, Leaving, Runs
<1>9. NewDisk'
  BY <1>5 DEF Core, NewDisk
<1>10. Stopped'
  <2> SUFFICES ASSUME IsFormatted(Final) PROVE GoodDisk(Final)
    BY <1>1, <1>4 DEF Stopped
  <2>1. inited
    <3>1. ~inited => job.op # "start"
      BY <1>1 DEF Core, Loading, Runs
    <3> QED BY <1>1, <3>1 DEF Core, Unformatted, Runs
  <2>2. Tracks(file_storage, Final, update_sector, data_block_in_memory, file_in_memory, newer, update_sector, cur_dir)
    BY <1>1, <2>1 DEF Core, Tracking, Runs
  <2>3. Tracks(file_storage, Final, {}, data_block_in_memory, file_in_memory, newer, {}, cur_dir)
    BY <2>2, <1>1
  <2>4. \A s \in {InodeBitmap, DataBitmap, InodeTable} : Contents(file_storage, s) = Final[s]
    BY <1>1, <2>1 DEF Core, Leaving
  <2> QED BY <2>3, <2>4, StopsGood
<1>11. RequestsInRange'
  BY <1>1 DEF RequestsInRange
<1> QED BY <1>6, <1>7, <1>8, <1>9, <1>10, <1>11 DEF Core

(* The disk server serves a request. *)
LEMMA DiskKeeps ==
    ASSUME Core, RequestsInRange, ServerInv, DiskServes
    PROVE  Core' /\ RequestsInRange'
<1>1. /\ file_storage' = file_storage /\ cur_dir' = cur_dir /\ inited' = inited /\ update_sector' = update_sector
      /\ data_block_in_memory' = data_block_in_memory /\ file_in_memory' = file_in_memory /\ newer' = newer
      /\ server' = server /\ job' = job /\ sector_idx' = sector_idx /\ Link!DiskStep
  BY DEF DiskServes, memVars, procVars
<1>2. PICK C : LinkInv(C)
  BY DEF ServerInv
<1>3. /\ Final' = Final
      /\ \/ Link!Asked' = Link!Asked /\ reply' = reply
         \/ \E s \in Sectors : Link!Asked = {s} /\ Link!Asked' = {} /\ reply = <<>> /\ reply' = <<Final[s]>>
  BY <1>1, <1>2, FinalServed
<1>4. ExitLast'
  <2>1. ExitLast
    BY DEF Core
  <2> QED BY <1>1, <1>2, <2>1, ServedLast
<1>5. Typed'
  BY <1>1, <1>3 DEF Core, Typed
<1>6. Tracking'
  BY <1>1, <1>3 DEF Core, Tracking, Runs
<1>7. Waiting'
  BY <1>1 DEF Core, Waiting, Due, Orderly
<1>8. Unformatted'
  BY <1>1, <1>3 DEF Core, Unformatted, Runs
<1>9. Loading'
  BY <1>1, <1>3 DEF Core, Loading, Runs
<1>10. Answering'
  <2> SUFFICES ASSUME server = "await"
               PROVE  /\ sector_idx \in Sectors
                      /\ (reply' = <<>> /\ Link!Asked' = {sector_idx}) \/ (reply' = <<Final[sector_idx]>> /\ Link!Asked' = {})
    BY <1>1, <1>3 DEF Answering
  <2>1. /\ sector_idx \in Sectors
        /\ (reply = <<>> /\ Link!Asked = {sector_idx}) \/ (reply = <<Final[sector_idx]>> /\ Link!Asked = {})
    BY DEF Core, Answering
  <2>2. CASE Link!Asked' = Link!Asked /\ reply' = reply
    BY <2>1, <2>2
  <2>3. ASSUME NEW s \in Sectors, Link!Asked = {s}, Link!Asked' = {}, reply = <<>>, reply' = <<Final[s]>>
        PROVE  reply' = <<Final[sector_idx]>>
    <3>1. Link!Asked # {}
      BY <2>3
    <3>2. s = sector_idx
      BY <2>1, <2>3, <3>1
    <3> QED BY <2>3, <3>2
  <2> QED BY <1>3, <2>1, <2>2, <2>3
<1>11. Stopped'
  BY <1>1, <1>3 DEF Core, Stopped
<1>12. NewDisk'
  <2>1. exists' = TRUE \/ (store' = store /\ exists' = exists)
    BY <1>1 DEF Link!DiskStep, Link!DiskWrites, Link!DiskReads, Link!DiskStops
  <2> QED BY <2>1 DEF Core, NewDisk
<1>13. Leaving'
  BY <1>1, <1>3 DEF Core, Leaving
<1>14. RequestsInRange'
  BY <1>1 DEF RequestsInRange
<1> QED BY <1>4, <1>5, <1>6, <1>7, <1>8, <1>9, <1>10, <1>11, <1>12, <1>13, <1>14 DEF Core

(* Of the current directory nothing is fetched for a command, so that its entries stay. *)
LEMMA FetchedElsewhere ==
    ASSUME NEW m, NEW z, NEW U, NEW D, NEW F, NEW N, NEW d, Tracks(m, z, U, D, F, N, {}, d),
           NEW j, j.op \notin {"start", "ls"}, NEW s \in Blocks, Awaits(m, D, F, d, j, s)
    PROVE  Children(Placed(m, s, z[s]), d) = Children(m, d)
<1>1. m \in Image /\ OnDisk(z) /\ Sound(Complete(m, z)) /\ BlocksSound(Complete(m, z)) /\ d \in F /\ d \in Dirs(m)
  BY DEF Tracks, Sound
<1>2. \E i \in ToSet(Transferred(m, d, j)) : s \in Lacking(m, D, F, j, i)
  BY BlockNumbers DEF Awaits
<1>3. PICK i \in ToSet(Transferred(m, d, j)) : s \in Lacking(m, D, F, j, i)
  BY <1>2
<1>4. i \notin F /\ s \in ToSet(transfer(m, i))
  BY <1>3 DEF Lacking
<1>5. i \in Live(m) /\ i \in Inodes /\ i # d /\ d \in Live(m) /\ d \in Inodes
  <2>1. Transferred(m, d, j) \in Seq(Live(m))
    BY <1>1, TransferredLive
  <2>2. i \in Live(m)
    BY <1>3, <2>1, SeqElements
  <2> QED BY <1>1, <1>4, <2>2 DEF Live, Dirs
<1>6. PICK p \in Places : At(m, i, p) = s
  BY <1>1, <1>4, <1>5, TransferElements
<1>7. At(Complete(m, z), i, p) = s /\ s # None
  <2>1. At(m, i, p) \in {At(Complete(m, z), i, p), None}
    BY <1>1, <1>5, CompletePlaces
  <2>2. s # None
    BY BlockNumbers DEF None
  <2> QED BY <1>6, <2>1, <2>2
<1>8. m.inode[d].direct[0] # s
  <2>1. <<"direct", 0>> \in Places /\ At(Complete(m, z), d, <<"direct", 0>>) = Complete(m, z).inode[d].direct[0]
    <3>1. 0 \in 0..INODE_DIRECT_NUM - 1
      BY ConstantsTyped
    <3> QED BY <3>1, AllPlaces
  <2>2. Complete(m, z).inode = m.inode /\ Live(Complete(m, z)) = Live(m)
    BY <1>1, CompleteMembers
  <2> DEFINE w == Complete(m, z)
             r == <<"direct", 0>>
  <2>3. r \in Places /\ At(w, d, r) = m.inode[d].direct[0] /\ BlocksSound(w) /\ At(w, i, p) = s /\ i \in Live(w) /\ d \in Live(w)
    BY <1>1, <1>5, <1>7, <2>1, <2>2
  <2> HIDE DEF w, r
  <2>4. At(w, i, p) # At(w, d, r)
    BY <2>3, <1>5, <1>7 DEF BlocksSound
  <2> QED BY <2>3, <2>4
<1>9. m.inode[d].direct[0] \in Blocks
  BY <1>1, MemoryChildren
<1>10. z[s] \in Sector
  BY <1>1 DEF OnDisk
<1>11. /\ Placed(m, s, z[s]).inode = m.inode
       /\ \A b \in Blocks : Placed(m, s, z[s]).sector[b] = IF b = s THEN z[s] ELSE m.sector[b]
  BY <1>1, <1>10, PlacedMembers
<1> DEFINE m2 == Placed(m, s, z[s])
<1>12. m2.inode[d].direct[0] = m.inode[d].direct[0] /\ m2.sector[m.inode[d].direct[0]] = m.sector[m.inode[d].direct[0]]
  BY <1>8, <1>9, <1>11
<1> HIDE DEF m2
<1>13. Children(m2, d) = Children(m, d)
  BY <1>12 DEF Children
<1> QED BY <1>13 DEF m2

(* A sector of two images is the same where their members are. *)
LEMMA ContentsSame ==
    ASSUME NEW m, NEW m2
    PROVE  /\ m2.inode_bitmap = m.inode_bitmap => Contents(m2, InodeBitmap) = Contents(m, InodeBitmap)
           /\ m2.data_bitmap = m.data_bitmap => Contents(m2, DataBitmap) = Contents(m, DataBitmap)
           /\ m2.inode = m.inode => Contents(m2, InodeTable) = Contents(m, InodeTable)
           /\ \A b \in Blocks : m2.sector[b] = m.sector[b] => Contents(m2, b) = Contents(m, b)
<1>1. /\ Contents(m, InodeBitmap) = [kind |-> "inode_bitmap", bit |-> m.inode_bitmap]
      /\ Contents(m, DataBitmap) = [kind |-> "data_bitmap", bit |-> m.data_bitmap]
      /\ Contents(m, InodeTable) = [kind |-> "inodes", inode |-> m.inode]
      /\ \A b \in Blocks : Contents(m, b) = m.sector[b]
  BY ContentsAre
<1>2. /\ Contents(m2, InodeBitmap) = [kind |-> "inode_bitmap", bit |-> m2.inode_bitmap]
      /\ Contents(m2, DataBitmap) = [kind |-> "data_bitmap", bit |-> m2.data_bitmap]
      /\ Contents(m2, InodeTable) = [kind |-> "inodes", inode |-> m2.inode]
      /\ \A b \in Blocks : Contents(m2, b) = m2.sector[b]
  BY ContentsAre
<1> QED BY <1>1, <1>2

(* What has been read is in memory as well as what was there. *)
LEMMA ReadBasic ==
    ASSUME NEW m \in Image, NEW z, \A s \in Sectors : z[s] \in Stored(s), NEW D, D \subseteq Sectors,
           \A s \in D : Contents(m, s) = z[s], \A b \in Blocks : m.sector[b] \in {Unread, z[b]},
           NEW s \in Sectors, Readable(s, z[s]), NEW m2, m2 = ReadInto(m, s, z[s])
    PROVE  /\ m2 \in Image /\ \A x \in D \cup {s} : Contents(m2, x) = z[x]
           /\ \A b \in Blocks : m2.sector[b] \in {Unread, z[b]}
           /\ s = InodeBitmap => IsFormatted(z)
<1>1. /\ OnDisk(z)
      /\ z[InodeBitmap].kind = "inode_bitmap" => \E f \in [Inodes -> BOOLEAN] : z[InodeBitmap] = [kind |-> "inode_bitmap", bit |-> f]
      /\ z[DataBitmap].kind = "data_bitmap" => \E f \in [Blocks -> BOOLEAN] : z[DataBitmap] = [kind |-> "data_bitmap", bit |-> f]
      /\ z[InodeTable].kind = "inodes" => \E f \in [Inodes -> Inode] : z[InodeTable] = [kind |-> "inodes", inode |-> f]
  BY StoredIs
<1>2. /\ Contents(Blank, InodeBitmap).kind = "inode_bitmap" /\ Contents(Blank, DataBitmap).kind = "data_bitmap"
      /\ Contents(Blank, InodeTable).kind = "inodes"
  <2>1. /\ Contents(Blank, InodeBitmap) = [kind |-> "inode_bitmap", bit |-> Blank.inode_bitmap]
        /\ Contents(Blank, DataBitmap) = [kind |-> "data_bitmap", bit |-> Blank.data_bitmap]
        /\ Contents(Blank, InodeTable) = [kind |-> "inodes", inode |-> Blank.inode]
    BY ContentsAre
  <2> QED BY <2>1
<1>3. m = [inode_bitmap |-> m.inode_bitmap, data_bitmap |-> m.data_bitmap, inode |-> m.inode, sector |-> m.sector]
      /\ m.inode_bitmap \in [Inodes -> BOOLEAN] /\ m.data_bitmap \in [Blocks -> BOOLEAN] /\ m.inode \in [Inodes -> Inode]
      /\ m.sector \in [Blocks -> Sector]
  BY DEF Image
<1>4. /\ InodeBitmap \notin Blocks /\ DataBitmap \notin Blocks /\ InodeTable \notin Blocks
      /\ InodeBitmap # DataBitmap /\ InodeBitmap # InodeTable /\ DataBitmap # InodeTable
      /\ s \in Blocks \/ s \in {InodeBitmap, DataBitmap, InodeTable}
      /\ \A x \in D : x \in Blocks \/ x \in {InodeBitmap, DataBitmap, InodeTable}
  BY SectorsAre DEF InodeBitmap, DataBitmap, InodeTable
<1>5. CASE s \in Blocks
  <2>1. m2 = Placed(m, s, z[s])
    <3>1. s # InodeBitmap /\ s # DataBitmap /\ s # InodeTable
      BY <1>4, <1>5
    <3> QED BY <1>5, <3>1 DEF ReadInto, Placed
  <2>2. z[s] \in Sector
    BY <1>1, <1>5 DEF OnDisk
  <2>3. /\ m2 \in Image /\ m2.inode_bitmap = m.inode_bitmap /\ m2.data_bitmap = m.data_bitmap /\ m2.inode = m.inode
        /\ \A b \in Blocks : m2.sector[b] = IF b = s THEN z[s] ELSE m.sector[b]
    BY <2>1, <2>2, <1>5, PlacedMembers
  <2>4. \A b \in Blocks : m2.sector[b] \in {Unread, z[b]}
    BY <2>3
  <2>5. ASSUME NEW x \in D \cup {s} PROVE Contents(m2, x) = z[x]
    <3>1. CASE x \in Blocks
      <4>1. Contents(m2, x) = m2.sector[x] /\ Contents(m, x) = m.sector[x]
        BY <3>1, ContentsAre
      <4> QED BY <3>1, <4>1, <2>3
    <3>2. CASE x \in {InodeBitmap, DataBitmap, InodeTable}
      <4>1. Contents(m2, x) = Contents(m, x)
        BY <3>2, <2>3, ContentsSame
      <4>2. x \in D
        BY <3>2, <1>4, <1>5
      <4> QED BY <4>1, <4>2
    <3> QED BY <3>1, <3>2, <1>4, <1>5
  <2> QED BY <2>3, <2>4, <2>5, <1>4, <1>5
<1>6. ASSUME s = InodeBitmap
      PROVE  /\ m2 \in Image /\ m2.data_bitmap = m.data_bitmap /\ m2.inode = m.inode /\ m2.sector = m.sector
             /\ Contents(m2, s) = z[s] /\ IsFormatted(z)
  <2>1. z[s].kind = "inode_bitmap"
    BY <1>2, <1>4, <1>6 DEF Readable
  <2>2. PICK f \in [Inodes -> BOOLEAN] : z[s] = [kind |-> "inode_bitmap", bit |-> f]
    BY <1>1, <1>6, <2>1
  <2>3. m2 = [m EXCEPT !.inode_bitmap = z[s].bit]
    BY <1>4, <1>6 DEF ReadInto
  <2>4. z[s].bit = f
    BY <2>2
  <2>5. m2 = [inode_bitmap |-> f, data_bitmap |-> m.data_bitmap, inode |-> m.inode, sector |-> m.sector]
    BY <1>3, <2>3, <2>4
  <2>6. m2 \in Image /\ m2.inode_bitmap = f /\ m2.data_bitmap = m.data_bitmap /\ m2.inode = m.inode /\ m2.sector = m.sector
    BY <1>3, <2>5 DEF Image
  <2>7. Contents(m2, s) = [kind |-> "inode_bitmap", bit |-> m2.inode_bitmap]
    BY <1>6, ContentsAre
  <2> QED BY <2>1, <2>2, <2>6, <2>7, <1>6 DEF IsFormatted
<1>7. ASSUME s = DataBitmap
      PROVE  /\ m2 \in Image /\ m2.inode_bitmap = m.inode_bitmap /\ m2.inode = m.inode /\ m2.sector = m.sector
             /\ Contents(m2, s) = z[s]
  <2>1. z[s].kind = "data_bitmap"
    BY <1>2, <1>4, <1>7 DEF Readable
  <2>2. PICK f \in [Blocks -> BOOLEAN] : z[s] = [kind |-> "data_bitmap", bit |-> f]
    BY <1>1, <1>7, <2>1
  <2>3. m2 = [m EXCEPT !.data_bitmap = z[s].bit]
    BY <1>4, <1>7 DEF ReadInto
  <2>4. z[s].bit = f
    BY <2>2
  <2>5. m2 = [inode_bitmap |-> m.inode_bitmap, data_bitmap |-> f, inode |-> m.inode, sector |-> m.sector]
    BY <1>3, <2>3, <2>4
  <2>6. m2 \in Image /\ m2.inode_bitmap = m.inode_bitmap /\ m2.data_bitmap = f /\ m2.inode = m.inode /\ m2.sector = m.sector
    BY <1>3, <2>5 DEF Image
  <2>7. Contents(m2, s) = [kind |-> "data_bitmap", bit |-> m2.data_bitmap]
    BY <1>7, ContentsAre
  <2> QED BY <2>2, <2>6, <2>7
<1>8. ASSUME s = InodeTable
      PROVE  /\ m2 \in Image /\ m2.inode_bitmap = m.inode_bitmap /\ m2.data_bitmap = m.data_bitmap /\ m2.sector = m.sector
             /\ Contents(m2, s) = z[s]
  <2>1. z[s].kind = "inodes"
    BY <1>2, <1>4, <1>8 DEF Readable
  <2>2. PICK f \in [Inodes -> Inode] : z[s] = [kind |-> "inodes", inode |-> f]
    BY <1>1, <1>8, <2>1
  <2>3. m2 = [m EXCEPT !.inode = z[s].inode]
    BY <1>4, <1>8 DEF ReadInto
  <2>4. z[s].inode = f
    BY <2>2
  <2>5. m2 = [inode_bitmap |-> m.inode_bitmap, data_bitmap |-> m.data_bitmap, inode |-> f, sector |-> m.sector]
    BY <1>3, <2>3, <2>4
  <2>6. m2 \in Image /\ m2.inode_bitmap = m.inode_bitmap /\ m2.data_bitmap = m.data_bitmap /\ m2.inode = f /\ m2.sector = m.sector
    BY <1>3, <2>5 DEF Image
  <2>7. Contents(m2, s) = [kind |-> "inodes", inode |-> m2.inode]
    BY <1>8, ContentsAre
  <2> QED BY <2>2, <2>6, <2>7
<1>9. CASE s \in {InodeBitmap, DataBitmap, InodeTable}
  <2>1. m2 \in Image /\ m2.sector = m.sector /\ Contents(m2, s) = z[s] /\ (s = InodeBitmap => IsFormatted(z))
    BY <1>4, <1>6, <1>7, <1>8, <1>9
  <2>2. ASSUME NEW x \in D \cup {s} PROVE Contents(m2, x) = z[x]
    <3>1. CASE x = s
      BY <2>1, <3>1
    <3>2. CASE x # s /\ x \in Blocks
      <4>1. Contents(m2, x) = Contents(m, x)
        BY <2>1, <3>2, ContentsSame
      <4> QED BY <3>2, <4>1
    <3>3. CASE x # s /\ x \in {InodeBitmap, DataBitmap, InodeTable}
      <4>1. Contents(m, x) = z[x]
        BY <3>3
      <4>2. CASE x = InodeBitmap
        <5>1. m2.inode_bitmap = m.inode_bitmap
          BY <4>2, <3>3, <1>7, <1>8, <1>9
        <5>2. Contents(m2, x) = Contents(m, x)
          BY <4>2, <5>1, ContentsSame
        <5> QED BY <4>1, <5>2
      <4>3. CASE x = DataBitmap
        <5>1. m2.data_bitmap = m.data_bitmap
          BY <4>3, <3>3, <1>6, <1>8, <1>9
        <5>2. Contents(m2, x) = Contents(m, x)
          BY <4>3, <5>1, ContentsSame
        <5> QED BY <4>1, <5>2
      <4>4. CASE x = InodeTable
        <5>1. m2.inode = m.inode
          BY <4>4, <3>3, <1>6, <1>7, <1>9
        <5>2. Contents(m2, x) = Contents(m, x)
          BY <4>4, <5>1, ContentsSame
        <5> QED BY <4>1, <5>2
      <4> QED BY <3>3, <4>2, <4>3, <4>4
    <3> QED BY <3>1, <3>2, <3>3, <1>4
  <2> QED BY <2>1, <2>2
<1> QED BY <1>4, <1>5, <1>9

(* What has come is what the disk holds, and the socket is quiet again. *)
LEMMA ReplyIs ==
    ASSUME Core, server = "await", Link!GetReply, server' \in {"load", "undefined"}
    PROVE  /\ sector_idx \in Sectors /\ Head(reply) = Final[sector_idx] /\ Final' = Final
           /\ Stopped' /\ NewDisk' /\ ExitLast'
<1>1. reply # <<>> /\ wire' = wire /\ store' = store /\ exists' = exists /\ disk' = disk
  BY DEF Link!GetReply
<1>2. sector_idx \in Sectors /\ reply = <<Final[sector_idx]>>
  BY <1>1 DEF Core, Answering
<1>3. Head(reply) = Final[sector_idx]
  <2> DEFINE c == Final[sector_idx]
  <2>1. reply = <<c>>
    BY <1>2
  <2> HIDE DEF c
  <2>2. Head(reply) = c
    BY <2>1
  <2> QED BY <2>2 DEF c
<1>4. Final' = Final
  BY <1>1, FinalStays
<1>5. Stopped'
  BY DEF Stopped
<1>6. NewDisk'
  BY <1>1 DEF Core, NewDisk
<1>7. ExitLast'
  BY <1>1 DEF Core, ExitLast
<1> QED BY <1>2, <1>3, <1>4, <1>5, <1>6, <1>7

(* A sector that a command waited for has been read. *)
LEMMA FetchedKeepsTracks ==
    ASSUME Core, RequestsInRange, Fetched, server' # "undefined", inited
    PROVE  /\ file_storage' \in Image /\ Tracking' /\ Waiting' /\ RequestsInRange'
<1> DEFINE m  == file_storage
           m2 == file_storage'
           z  == Final
           D  == data_block_in_memory
           D2 == data_block_in_memory'
           s  == sector_idx
<1>1. /\ server = "await" /\ server' = "load" /\ Link!GetReply
      /\ D2 = D \cup {s} /\ newer' = newer \ {s}
      /\ m2 = ReadInto(m, s, Head(reply)) /\ AwaitNext(m2, D2, job)
      /\ cur_dir' = cur_dir /\ inited' = inited /\ update_sector' = update_sector
      /\ file_in_memory' = file_in_memory /\ job' = job
  BY DEF Fetched
<1>2. s \in Sectors /\ Head(reply) = Final[s] /\ Final' = Final
  BY <1>1, ReplyIs
<1>3. Tracks(m, z, update_sector, D, file_in_memory, newer, {}, cur_dir)
  BY <1>1 DEF Core, Tracking, Runs
<1>4. Due /\ Awaits(m, D, file_in_memory, cur_dir, job, s)
  BY <1>1 DEF Core, Waiting
<1>5. s \in Blocks
  BY <1>2, <1>4, SectorsAre DEF Awaits
<1>6. m2 = Placed(m, s, z[s])
  <2>1. s # InodeBitmap /\ s # DataBitmap /\ s # InodeTable
    BY <1>5, SectorsAre
  <2>2. m2 = ReadInto(m, s, z[s])
    BY <1>1, <1>2
  <2> HIDE DEF m, m2, z, s
  <2> QED BY <1>5, <2>1, <2>2 DEF ReadInto, Placed
<1> HIDE DEF m, m2, z, D, D2, s
<1>7. Tracks(m2, z, update_sector, D \cup {s}, file_in_memory, newer \ {s}, {}, cur_dir)
  BY <1>3, <1>5, <1>6, FetchTracks
<1>8. Tracking'
  <2>1. Tracks(file_storage', Final', update_sector', data_block_in_memory', file_in_memory', newer', {}, cur_dir')
    BY <1>1, <1>2, <1>7 DEF m2, z, D2
  <2> QED BY <1>1, <2>1 DEF Tracking
<1>9. m2 \in Image /\ OnDisk(z) /\ Sound(Complete(m2, z)) /\ cur_dir \in Dirs(m2)
  BY <1>7 DEF Tracks
<1>10. job.op # "start"
  BY <1>4 DEF Due, Commands
<1>11. Awaits(m2, D2, file_in_memory, cur_dir, job, sector_idx')
  <2>1. Transferred(m2, cur_dir, job) \in Seq(Live(m2))
    BY <1>9, <1>10, TransferredLive
  <2>2. Live(m2) \subseteq Inodes
    BY DEF Live
  <2>3. Transferred(m2, cur_dir, job) \in Seq(Inodes)
    BY <2>1, <2>2, SeqWider
  <2> QED BY <1>1, <1>9, <1>10, <2>3, NextAwaited
<1>12. Waiting'
  <2>1. Awaits(file_storage', data_block_in_memory', file_in_memory', cur_dir', job', sector_idx')
    BY <1>1, <1>11 DEF m2, D2
  <2>2. Orderly(job.op, job.name)'
    <3> SUFFICES ASSUME job.op = "r", NEW e \in ToSet(Children(m2, cur_dir)), e.name = job.name
                 PROVE  m2.inode[e.loc].type = File
      BY <1>1, <1>4 DEF Due, Orderly, m2
    <3>1. Children(Placed(m, s, z[s]), cur_dir) = Children(m, cur_dir)
      BY <1>3, <1>4, <1>5, FetchedElsewhere
    <3>2. m2.inode = m.inode
      <4>1. m \in Image /\ z[s] \in Sector
        BY <1>3, <1>5 DEF Tracks, OnDisk
      <4> QED BY <4>1, <1>5, <1>6, PlacedMembers
    <3>3. e \in ToSet(Children(m, cur_dir))
      BY <3>1, <1>6
    <3>4. m.inode[e.loc].type = File
      BY <3>3, <1>4 DEF Due, Orderly, m
    <3> QED BY <3>2, <3>4
  <2>3. Due'
    BY <1>1, <1>4, <2>2 DEF Due, Orderly
  <2> QED BY <2>1, <2>3 DEF Waiting
<1>13. RequestsInRange'
  <2>1. sector_idx' \in {0} \cup Blocks
    BY <1>11 DEF Awaits
  <2> QED BY <1>1, <2>1, SectorsAre DEF RequestsInRange
<1> QED BY <1>8, <1>9, <1>12, <1>13 DEF m2

(* A sector that the start waited for has been read. *)
LEMMA FetchedKeepsLoading ==
    ASSUME Core, RequestsInRange, Fetched, server' # "undefined", ~inited
    PROVE  job.op = "start" /\ file_storage' \in Image /\ Loading' /\ RequestsInRange'
<1> DEFINE m  == file_storage
           m2 == file_storage'
           z  == Final
           D  == data_block_in_memory
           D2 == data_block_in_memory'
           s  == sector_idx
<1>1. /\ server = "await" /\ server' = "load" /\ Link!GetReply
      /\ D2 = D \cup {s} /\ newer' = newer \ {s} /\ Readable(s, Head(reply))
      /\ m2 = ReadInto(m, s, Head(reply)) /\ AwaitNext(m2, D2, job)
      /\ cur_dir' = cur_dir /\ inited' = inited /\ update_sector' = update_sector
      /\ file_in_memory' = file_in_memory /\ job' = job
  BY DEF Fetched
<1>2. s \in Sectors /\ Head(reply) = Final[s] /\ Final' = Final
  BY <1>1, ReplyIs
<1>3. job.op = "start"
  BY <1>1 DEF Core, Unformatted, Runs
<1>4. /\ cur_dir = 0 /\ file_in_memory = {} /\ newer = {} /\ update_sector = {}
      /\ IsFormatted(z) => GoodDisk(z)
      /\ InodeBitmap \in D => IsFormatted(z)
      /\ D \subseteq Sectors
      /\ \A x \in D : Contents(m, x) = z[x]
      /\ \A b \in Blocks : m.sector[b] \in {Unread, z[b]}
  BY <1>1, <1>3 DEF Core, Loading, Runs
<1>5. m \in Image /\ \A x \in Sectors : z[x] \in Stored(x)
  BY DEF Core, Typed
<1>6. m2 = ReadInto(m, s, z[s]) /\ Readable(s, z[s])
  BY <1>1, <1>2
<1> HIDE DEF m, m2, z, D, D2, s
<1>7. /\ m2 \in Image /\ \A x \in D \cup {s} : Contents(m2, x) = z[x]
      /\ \A b \in Blocks : m2.sector[b] \in {Unread, z[b]}
      /\ s = InodeBitmap => IsFormatted(z)
  BY <1>2, <1>4, <1>5, <1>6, ReadBasic
<1>8. AwaitsBasic(m2, D2, sector_idx')
  BY <1>1, <1>3, <1>4, <1>7, NextAwaited
<1>9. D2 \subseteq Sectors /\ (InodeBitmap \in D2 => IsFormatted(z)) /\ \A x \in D2 : Contents(m2, x) = z[x]
  BY <1>1, <1>2, <1>4, <1>7
<1>10. newer' = {}
  BY <1>1, <1>4
<1>11. Loading'
  <2>1. /\ InodeBitmap \in data_block_in_memory' => IsFormatted(Final')
        /\ data_block_in_memory' \subseteq Sectors
        /\ \A x \in data_block_in_memory' : Contents(file_storage', x) = Final'[x]
    BY <1>2, <1>9 DEF D2, m2, z
  <2>2. \A b \in Blocks : file_storage'.sector[b] \in {Unread, Final'[b]}
    BY <1>2, <1>7 DEF m2, z
  <2>3. AwaitsBasic(file_storage', data_block_in_memory', sector_idx')
    BY <1>8 DEF m2, D2
  <2>4. IsFormatted(Final') => GoodDisk(Final')
    BY <1>2, <1>4 DEF z
  <2> QED BY <1>1, <1>4, <1>10, <2>1, <2>2, <2>3, <2>4 DEF Loading
<1>12. RequestsInRange'
  <2>1. sector_idx' \in {0} \cup Sectors
    BY <1>8, SectorsAre DEF AwaitsBasic
  <2> QED BY <1>1, <2>1 DEF RequestsInRange
<1> QED BY <1>3, <1>7, <1>11, <1>12 DEF m2

(* A sector has been read. *)
LEMMA FetchedKeeps ==
    ASSUME Core, RequestsInRange, Fetched, server' # "undefined"
    PROVE  Core' /\ RequestsInRange'
<1>1. /\ server = "await" /\ server' = "load" /\ Link!GetReply /\ inited' = inited /\ job' = job
  BY DEF Fetched
<1>2. Final' = Final /\ Stopped' /\ NewDisk' /\ ExitLast'
  BY <1>1, ReplyIs
<1>3. Answering' /\ Leaving'
  BY <1>1 DEF Answering, Leaving
<1>4. inited \in BOOLEAN /\ \A x \in Sectors : Final[x] \in Stored(x)
  BY DEF Core, Typed
<1>5. CASE inited
  <2>1. file_storage' \in Image /\ Tracking' /\ Waiting' /\ RequestsInRange'
    BY <1>5, FetchedKeepsTracks
  <2>2. Typed'
    BY <1>1, <1>2, <1>4, <2>1 DEF Typed
  <2>3. Unformatted' /\ Loading'
    BY <1>1, <1>5 DEF Unformatted, Loading
  <2> QED BY <1>2, <1>3, <2>1, <2>2, <2>3 DEF Core
<1>6. CASE ~inited
  <2>1. job.op = "start" /\ file_storage' \in Image /\ Loading' /\ RequestsInRange'
    BY <1>6, FetchedKeepsLoading
  <2>2. Typed'
    BY <1>1, <1>2, <1>4, <2>1 DEF Typed
  <2>3. Tracking' /\ Waiting' /\ Unformatted'
    BY <1>1, <1>6, <2>1 DEF Tracking, Waiting, Unformatted
  <2> QED BY <1>2, <1>3, <2>1, <2>2, <2>3 DEF Core
<1> QED BY <1>5, <1>6

(* No command uses the socket, and what is to be sent is sent for the same command. *)
LEMMA CommandLink ==
    ASSUME Command
    PROVE  UNCHANGED linkVars /\ sector_idx' = sector_idx /\ (server' = "save" => job' = job)
<1>1. CASE Started
  BY <1>1 DEF Started
<1>2. CASE Format
  BY <1>2 DEF Format, Rest, ReplyAndSave
<1>3. CASE Make \/ Unlink
  BY <1>3 DEF Make, Unlink, Rest, ReplyAndSave
<1>4. CASE MakeFails \/ NotFound
  BY <1>4 DEF MakeFails, NotFound, Rest, ReplyAndSave, ReplyOnly
<1>5. CASE EnterDirectory
  BY <1>5 DEF EnterDirectory, Rest, ReplyAndSave, ReplyOnly
<1>6. CASE ListDirectory
  BY <1>6 DEF ListDirectory, Rest, ReplyOnly
<1>7. CASE NullPointer \/ Mistaken
  BY <1>7 DEF NullPointer, Mistaken
<1>8. ASSUME NEW i \in Subjects, Resize(i) \/ OverwriteFile(i) \/ Insert(i) \/ Delete(i) \/ Show(i)
      PROVE  UNCHANGED linkVars /\ sector_idx' = sector_idx /\ (server' = "save" => job' = job)
  <2>1. CASE Resize(i)
    BY <2>1 DEF Resize, Rest, SaveUnreplied
  <2>2. CASE OverwriteFile(i)
    BY <2>2 DEF OverwriteFile, Rest, ReplyAndSave
  <2>3. CASE Insert(i)
    <3>1. UNCHANGED linkVars /\ sector_idx' = sector_idx
      BY <2>3 DEF Insert, Rest
    <3>2. SaveUnreplied \/ ReplyAndSave
      BY <2>3 DEF Insert
    <3> QED BY <3>1, <3>2 DEF SaveUnreplied, ReplyAndSave
  <2>4. CASE Delete(i)
    BY <2>4 DEF Delete, Rest, SaveUnreplied, ReplyAndSave
  <2>5. CASE Show(i)
    BY <2>5 DEF Show, Rest, ReplyAndSave
  <2> QED BY <1>8, <2>1, <2>2, <2>3, <2>4, <2>5
<1> QED BY <1>1, <1>2, <1>3, <1>4, <1>5, <1>6, <1>7, <1>8 DEF Command

(* At the start, and before f, there is nothing else to do. *)
LEMMA FirstCommands ==
    ASSUME Command
    PROVE  /\ job.op \in {"start", "new"} => Started
           /\ job.op = "f" => Format \/ Mistaken
<1>1. job.op \in {"start", "new", "f"} =>
          /\ ~Make /\ ~MakeFails /\ ~Unlink /\ ~NotFound /\ ~EnterDirectory /\ ~ListDirectory /\ ~NullPointer
          /\ job.op \notin {"r", "w", "i", "d", "cat"}
  BY DEF Executing, Make, MakeFails, Unlink, NotFound, EnterDirectory, ListDirectory, NullPointer
<1>2. job.op \in {"start", "new"} => ~Format /\ ~Mistaken
  BY DEF Format, Executing, Mistaken
<1>3. job.op = "f" => ~Started
  BY DEF Started
<1> QED BY <1>1, <1>2, <1>3 DEF Command

(* A command has been executed after f or a start from a formatted disk. *)
LEMMA ExecuteKeepsTracks ==
    ASSUME Core, RequestsInRange, Execute, Alive', inited
    PROVE  /\ server' \in {"save", "idle"} /\ inited' = inited /\ ServedAll(Final)
           /\ job.op # "exit"
<1>1. server = "load" /\ sector_idx = 0 /\ Command /\ server' \notin {"dead", "undefined", "spinning"}
  BY DEF Execute, Alive
<1>2. Tracks(file_storage, Final, update_sector, data_block_in_memory, file_in_memory, newer, {}, cur_dir)
  BY <1>1 DEF Core, Tracking, Runs
<1>3. Due /\ Awaits(file_storage, data_block_in_memory, file_in_memory, cur_dir, job, sector_idx)
  BY <1>1 DEF Core, Waiting
<1> DEFINE z == Final
<1>4. Tracks(file_storage, z, update_sector, data_block_in_memory, file_in_memory, newer, {}, cur_dir)
  BY <1>2
<1> HIDE DEF z
<1>5. ServedAll(z) /\ server' \in {"save", "idle"} /\ inited' = inited
  BY <1>1, <1>3, <1>4, CommandServes
<1>6. job.op # "exit"
  BY <1>3 DEF Due, Commands
<1> QED BY <1>5, <1>6 DEF z

(* The server has started, or a new disk is formatted. *)
LEMMA ExecuteKeepsFirst ==
    ASSUME Core, RequestsInRange, Execute, Alive', ~inited
    PROVE  /\ server' \in {"save", "idle"} /\ inited' \in BOOLEAN /\ file_storage' \in Image
           /\ inited' => ServedAll(Final)
           /\ server' = "save" => job.op # "exit" /\ inited'
           /\ ~inited' => Unformatted' /\ job'.op # "start" /\ update_sector' = {}
<1>1. server = "load" /\ sector_idx = 0 /\ Command /\ server' \notin {"dead", "undefined", "spinning"}
  BY DEF Execute, Alive
<1>2. file_storage \in Image /\ \A s \in Sectors : Final[s] \in Stored(s)
  BY DEF Core, Typed
<1>3. OnDisk(Final)
  <2> DEFINE z == Final
  <2>1. \A s \in Sectors : z[s] \in Stored(s)
    BY <1>2
  <2> HIDE DEF z
  <2>2. OnDisk(z)
    BY <2>1, StoredIs
  <2> QED BY <2>2 DEF z
<1>4. UNCHANGED linkVars
  BY <1>1, CommandLink
<1>5. Final' = Final
  BY <1>4, FinalStays DEF linkVars
<1>6. CASE job.op = "start"
  <2>1. Started
    BY <1>1, <1>6, FirstCommands
  <2>2. /\ inited' = TRUE /\ file_in_memory' = {0} /\ server' = "idle"
        /\ file_storage' = file_storage /\ cur_dir' = cur_dir /\ update_sector' = update_sector
        /\ data_block_in_memory' = data_block_in_memory /\ newer' = newer
    BY <2>1, <1>6 DEF Started
  <2>3. /\ cur_dir = 0 /\ newer = {} /\ update_sector = {}
        /\ IsFormatted(Final) => GoodDisk(Final)
        /\ InodeBitmap \in data_block_in_memory => IsFormatted(Final)
        /\ data_block_in_memory \subseteq Sectors
        /\ \A s \in data_block_in_memory : Contents(file_storage, s) = Final[s]
        /\ \A b \in Blocks : file_storage.sector[b] \in {Unread, Final[b]}
        /\ AwaitsBasic(file_storage, data_block_in_memory, sector_idx)
    BY <1>1, <1>6 DEF Core, Loading, Runs
  <2>4. AwaitsBasic(file_storage, data_block_in_memory, 0)
    BY <1>1, <2>3
  <2>5. InodeBitmap \in data_block_in_memory
    BY <2>4, BlockNumbers DEF AwaitsBasic, InodeBitmap, DataBitmap, InodeTable
  <2> DEFINE z == Final
             D == data_block_in_memory
             m == file_storage
  <2>6. /\ OnDisk(z) /\ GoodDisk(z) /\ m \in Image /\ D \subseteq Sectors /\ AwaitsBasic(m, D, 0)
        /\ \A s \in D : Contents(m, s) = z[s]
        /\ \A b \in Blocks : m.sector[b] \in {Unread, z[b]}
    BY <1>2, <1>3, <2>3, <2>4, <2>5
  <2> HIDE DEF z, D, m
  <2>7. Tracks(m, z, {}, D, {0}, {}, {}, 0)
    BY <2>6, StartTracks
  <2>8. Tracks(file_storage, Final, {}, data_block_in_memory, {0}, {}, {}, 0)
    BY <2>7 DEF z, D, m
  <2>9. ServedAll(Final)
    BY <2>2, <2>3, <2>8 DEF ServedAll
  <2> QED BY <1>2, <2>2, <2>9
<1>7. CASE job.op # "start"
  <2>1. /\ file_in_memory = {} /\ newer = {} /\ update_sector = {} /\ ~IsFormatted(Final)
        /\ job.op \in {"new", "f"}
    BY <1>1, <1>7 DEF Core, Unformatted, Runs
  <2>2. CASE job.op = "new"
    <3>1. Started
      BY <1>1, <2>2, FirstCommands
    <3>2. /\ inited' = FALSE /\ file_in_memory' = {} /\ server' = "idle" /\ job'.op # "start"
          /\ file_storage' = file_storage /\ update_sector' = update_sector /\ newer' = newer
      BY <3>1, <2>2 DEF Started, NoJob, Job
    <3>3. Unformatted'
      BY <2>1, <3>2, <1>5 DEF Unformatted
    <3> QED BY <1>2, <2>1, <3>2, <3>3
  <2>3. CASE job.op = "f"
    <3>1. Format
      <4>1. ~Mistaken
        BY <1>1 DEF Mistaken
      <4> QED BY <1>1, <2>3, <4>1, FirstCommands
    <3> DEFINE z == Final
    <3>2. OnDisk(z) /\ update_sector \subseteq Sectors /\ file_in_memory = {} /\ newer = {}
      BY <1>3, <2>1
    <3> HIDE DEF z
    <3>3. ServedAll(z) /\ server' = "save" /\ inited' = TRUE
      BY <3>1, <3>2, FormatServes
    <3>4. file_storage' \in Image
      BY <3>3 DEF ServedAll, Tracks
    <3> QED BY <2>3, <3>3, <3>4 DEF z
  <2> QED BY <2>1, <2>2, <2>3
<1> QED BY <1>6, <1>7

(* A command has been executed. *)
LEMMA ExecuteKeeps ==
    ASSUME Core, RequestsInRange, Execute, Alive'
    PROVE  Core' /\ RequestsInRange'
<1>1. server = "load" /\ sector_idx = 0 /\ Command
  BY DEF Execute
<1>2. UNCHANGED linkVars /\ sector_idx' = sector_idx /\ (server' = "save" => job' = job)
  BY <1>1, CommandLink
<1>3. /\ server' \in {"save", "idle"} /\ inited' \in BOOLEAN /\ file_storage' \in Image
      /\ inited' => ServedAll(Final)
      /\ server' = "save" => job.op # "exit" /\ inited'
      /\ ~inited' => Unformatted' /\ job'.op # "start" /\ update_sector' = {}
  <2>1. inited \in BOOLEAN
    BY DEF Core, Typed
  <2>2. CASE inited
    <3>1. server' \in {"save", "idle"} /\ inited' = inited /\ ServedAll(Final) /\ job.op # "exit"
      BY <2>2, ExecuteKeepsTracks
    <3>2. file_storage' \in Image
      BY <3>1 DEF ServedAll, Tracks
    <3> QED BY <2>1, <2>2, <3>1, <3>2
  <2>3. CASE ~inited
    BY <2>3, ExecuteKeepsFirst
  <2> QED BY <2>1, <2>2, <2>3
<1>4. Final' = Final /\ Stopped' /\ NewDisk' /\ ExitLast'
  <2>1. server # "stopped" /\ server' # "stopped"
    BY <1>1, <1>3
  <2> QED BY <1>2, <2>1, Silent
<1>5. Typed'
  BY <1>3, <1>4 DEF Core, Typed
<1>6. Tracking'
  <2> SUFFICES ASSUME inited'
               PROVE  Tracks(file_storage', Final, update_sector', data_block_in_memory', file_in_memory', newer',
                             IF server' = "save" THEN update_sector' ELSE {}, cur_dir')
    BY <1>4 DEF Tracking
  <2> QED BY <1>3 DEF ServedAll
<1>7. Waiting' /\ Answering'
  BY <1>3 DEF Waiting, Answering
<1>8. Unformatted' /\ Loading'
  <2>1. CASE inited'
    BY <2>1 DEF Unformatted, Loading
  <2>2. CASE ~inited'
    BY <2>2, <1>3 DEF Loading
  <2> QED BY <2>1, <2>2
<1>9. Leaving'
  BY <1>2, <1>3 DEF Leaving
<1>10. RequestsInRange'
  <2>1. update_sector' \subseteq Sectors
    <3>1. CASE inited'
      BY <1>3, <3>1 DEF ServedAll, Tracks
    <3>2. CASE ~inited'
      BY <1>3, <3>2
    <3> QED BY <3>1, <3>2
  <2> QED BY <1>2, <2>1 DEF RequestsInRange
<1> QED BY <1>4, <1>5, <1>6, <1>7, <1>8, <1>9, <1>10 DEF Core

(* The memory stays as it was. *)
LEMMA SameMemory ==
    ASSUME RequestsInRange, MisledOnlyByMake, UNCHANGED memVars, sector_idx' = sector_idx
    PROVE  RequestsInRange' /\ MisledOnlyByMake'
BY DEF RequestsInRange, MisledOnlyByMake, memVars

(* Where memory and disk go together the flags say the truth. *)
LEMMA RunningMisled ==
    ASSUME Core', Runs'
    PROVE  MisledOnlyByMake'
<1> DEFINE m == file_storage'
           z == Final'
           F == file_in_memory'
<1> SUFFICES ASSUME inited'
             PROVE  \A i \in (F \cap LiveInodes(m)) \ {InodeSector} : \A b \in BlocksOf(m, i) : m.sector[b] # Unread
  BY DEF MisledOnlyByMake
<1>1. \E U, E : Tracks(m, z, U, data_block_in_memory', F, newer', E, cur_dir')
  BY DEF Core, Tracking
<1> HIDE DEF m, z, F
<1> QED BY <1>1, FlagsMean

(* How a command can end the server. *)
LEMMA CommandEnds ==
    ASSUME Command, server' \notin {"save", "idle"}
    PROVE  \/ UNCHANGED memVars
           \/ /\ job.op = "r" /\ Flag({})
              /\ file_storage' = file_storage /\ update_sector' = update_sector /\ inited' = inited
<1>1. ~Started /\ ~Format /\ ~Make /\ ~MakeFails /\ ~Unlink /\ ~NotFound /\ ~EnterDirectory /\ ~ListDirectory
  BY DEF Started, Format, Make, MakeFails, Unlink, NotFound, EnterDirectory, ListDirectory, ReplyAndSave, ReplyOnly
<1>2. CASE NullPointer \/ Mistaken
  BY <1>2 DEF NullPointer, Mistaken
<1>3. ASSUME NEW i \in Subjects, Resize(i) \/ OverwriteFile(i) \/ Insert(i) \/ Delete(i) \/ Show(i)
      PROVE  /\ job.op = "r" /\ Flag({})
             /\ file_storage' = file_storage /\ update_sector' = update_sector /\ inited' = inited
  <2>1. ~OverwriteFile(i) /\ ~Show(i)
    BY DEF OverwriteFile, Show, ReplyAndSave
  <2>2. ~Delete(i)
    BY DEF Delete, ReplyAndSave, SaveUnreplied
  <2>3. ~Insert(i)
    <3> SUFFICES ASSUME Insert(i) PROVE FALSE
      OBVIOUS
    <3>1. SaveUnreplied \/ ReplyAndSave
      BY DEF Insert
    <3> QED BY <3>1 DEF SaveUnreplied, ReplyAndSave
  <2>4. CASE Resize(i)
    BY <2>4 DEF Resize, SaveUnreplied, Same
  <2> QED BY <1>3, <2>1, <2>2, <2>3, <2>4
<1> QED BY <1>1, <1>2, <1>3 DEF Command

(* r without an end has set flags that say the truth. *)
LEMMA CommandEndsTrue ==
    ASSUME Core, RequestsInRange, MisledOnlyByMake, Execute, ~Alive'
    PROVE  RequestsInRange' /\ MisledOnlyByMake'
<1>1. server = "load" /\ sector_idx = 0 /\ Command /\ server' \notin {"save", "idle"}
  BY DEF Execute, Alive
<1>2. sector_idx' = sector_idx
  BY <1>1, CommandLink
<1>3. CASE UNCHANGED memVars
  BY <1>2, <1>3, SameMemory
<1>4. ASSUME job.op = "r", Flag({}), file_storage' = file_storage, update_sector' = update_sector, inited' = inited
      PROVE  RequestsInRange' /\ MisledOnlyByMake'
  <2>1. RequestsInRange'
    BY <1>2, <1>4 DEF RequestsInRange
  <2>2. ASSUME inited PROVE MisledOnlyByMake'
    <3>1. Tracks(file_storage, Final, update_sector, data_block_in_memory, file_in_memory, newer, {}, cur_dir)
      BY <1>1, <2>2 DEF Core, Tracking, Runs
    <3>2. Awaits(file_storage, data_block_in_memory, file_in_memory, cur_dir, job, sector_idx)
      BY <1>1, <2>2 DEF Core, Waiting
    <3> DEFINE z == Final
               F == file_in_memory \cup ToSet(Transferred(file_storage, cur_dir, job))
    <3>3. Tracks(file_storage, z, update_sector, data_block_in_memory, file_in_memory, newer, {}, cur_dir)
      BY <3>1
    <3> HIDE DEF z
    <3>4. Ready(z, F)
      BY <1>1, <3>2, <3>3, DueReady
    <3>5. file_in_memory' = F
      BY <1>4 DEF Flag
    <3> HIDE DEF F
    <3>6. Tracks(file_storage, z, update_sector, data_block_in_memory, F, newer, {}, cur_dir)
      BY <3>4 DEF Ready
    <3>7. \A i \in (F \cap LiveInodes(file_storage)) \ {InodeSector} : \A b \in BlocksOf(file_storage, i) : file_storage.sector[b] # Unread
      BY <3>6, FlagsMean
    <3> QED BY <1>4, <3>5, <3>7 DEF MisledOnlyByMake
  <2>3. ASSUME ~inited PROVE MisledOnlyByMake'
    BY <1>4, <2>3 DEF MisledOnlyByMake
  <2> QED BY <2>1, <2>2, <2>3
<1> QED BY <1>1, <1>3, <1>4, CommandEnds

(* Every step of a server that is alive keeps the invariant. *)
LEMMA AliveKeeps ==
    ASSUME Core, RequestsInRange, MisledOnlyByMake, ServerInv, [ServerNext]_serverVars
    PROVE  MemoryInv'
<1>1. ASSUME Core', RequestsInRange', Alive', server' # "stopped"
      PROVE  MemoryInv'
  <2>1. Runs'
    BY <1>1 DEF Core, Typed, Runs
  <2>2. MisledOnlyByMake'
    BY <1>1, <2>1, RunningMisled
  <2> QED BY <1>1, <2>2 DEF MemoryInv
<1>2. ASSUME Core', RequestsInRange', UNCHANGED memVars, sector_idx' = sector_idx
      PROVE  MemoryInv'
  BY <1>2, SameMemory DEF MemoryInv
<1>3. ASSUME ~Alive', UNCHANGED memVars, sector_idx' = sector_idx
      PROVE  MemoryInv'
  BY <1>3, SameMemory DEF MemoryInv
<1>4. CASE UNCHANGED serverVars \/ Accept
  <2>1. UNCHANGED <<memVars, server, job, sector_idx, linkVars>>
    BY <1>4 DEF serverVars, procVars, Accept
  <2>2. Core' /\ RequestsInRange'
    BY <2>1, FrameKeeps
  <2> QED BY <1>2, <2>1, <2>2
<1>5. CASE Start
  <2>1. Core' /\ RequestsInRange'
    BY <1>5, StartKeeps
  <2>2. server' = "load"
    BY <1>5 DEF Start
  <2> QED BY <1>1, <2>1, <2>2 DEF Alive
<1>6. CASE Exit
  <2>1. Core' /\ RequestsInRange'
    BY <1>6, ExitKeeps
  <2>2. server' \in {"save", "idle"}
    BY <1>6 DEF Exit
  <2> QED BY <1>1, <2>1, <2>2 DEF Alive
<1>7. ASSUME NEW o, NEW name, Ask(o, name),
             o = "f" \/ (o \in Commands \cup {"ls", "cd /"} /\ (o \in Commands \ {"cd"} => name \in Names)
                         /\ (o = "cd" => name \in Names \cup {".."}))
      PROVE  MemoryInv'
  <2>1. Core' /\ RequestsInRange'
    BY <1>7, AskKeeps
  <2>2. server' = "load"
    BY <1>7 DEF Ask
  <2> QED BY <1>1, <2>1, <2>2 DEF Alive
<1>8. CASE ClientStep
  <2>1. CASE Ask("f", "") \/ Ask("ls", "") \/ Ask("cd /", "") \/ Ask("cd", "..")
    BY <2>1, <1>7 DEF Commands
  <2>2. ASSUME NEW o \in Commands, NEW name \in Names, Ask(o, name) PROVE MemoryInv'
    BY <2>2, <1>7
  <2> QED BY <1>4, <1>6, <1>8, <2>1, <2>2 DEF ClientStep
<1>9. CASE Fetch
  <2>1. Core' /\ RequestsInRange'
    BY <1>9, FetchKeeps
  <2>2. server' = "await"
    BY <1>9 DEF Fetch
  <2> QED BY <1>1, <2>1, <2>2 DEF Alive
<1>10. CASE Fetched
  <2>1. CASE server' # "undefined"
    <3>1. Core' /\ RequestsInRange'
      BY <1>10, <2>1, FetchedKeeps
    <3>2. server' = "load"
      BY <1>10, <2>1 DEF Fetched
    <3> QED BY <1>1, <3>1, <3>2 DEF Alive
  <2>2. CASE server' = "undefined"
    <3>1. /\ file_storage' = file_storage /\ sector_idx' = sector_idx /\ inited' = inited
          /\ update_sector' = update_sector /\ file_in_memory' = file_in_memory
      BY <1>10, <2>2 DEF Fetched
    <3>2. RequestsInRange' /\ MisledOnlyByMake'
      BY <3>1 DEF RequestsInRange, MisledOnlyByMake
    <3> QED BY <2>2, <3>2 DEF MemoryInv, Alive
  <2> QED BY <2>1, <2>2
<1>11. CASE Execute
  <2>1. CASE Alive'
    <3>1. Core' /\ RequestsInRange'
      BY <1>11, <2>1, ExecuteKeeps
    <3>2. server' # "stopped"
      <4>1. Command
        BY <1>11 DEF Execute
      <4>2. CASE server' \in {"save", "idle"}
        BY <4>2
      <4>3. CASE inited
        BY <1>11, <2>1, <4>3, ExecuteKeepsTracks
      <4>4. CASE ~inited
        BY <1>11, <2>1, <4>4, ExecuteKeepsFirst
      <4> QED BY <4>3, <4>4
    <3> QED BY <1>1, <2>1, <3>1, <3>2
  <2>2. CASE ~Alive'
    <3>1. RequestsInRange' /\ MisledOnlyByMake'
      BY <1>11, <2>2, CommandEndsTrue
    <3> QED BY <2>2, <3>1 DEF MemoryInv
  <2> QED BY <2>1, <2>2
<1>12. CASE Save
  <2>1. Core' /\ RequestsInRange'
    BY <1>12, SaveKeeps
  <2>2. server' = "save"
    BY <1>12 DEF Save, procVars
  <2> QED BY <1>1, <2>1, <2>2 DEF Alive
<1>13. CASE Saved
  <2>1. Core' /\ RequestsInRange'
    BY <1>13, SavedKeeps
  <2>2. server' = "idle"
    BY <1>13 DEF Saved
  <2> QED BY <1>1, <2>1, <2>2 DEF Alive
<1>14. CASE Stop
  <2>1. Core' /\ RequestsInRange'
    BY <1>14, StopKeeps
  <2>2. UNCHANGED memVars /\ sector_idx' = sector_idx
    BY <1>14 DEF Stop
  <2> QED BY <1>2, <2>1, <2>2
<1>15. CASE DiskServes
  <2>1. Core' /\ RequestsInRange'
    BY <1>15, DiskKeeps
  <2>2. UNCHANGED memVars /\ sector_idx' = sector_idx
    BY <1>15 DEF DiskServes, procVars
  <2> QED BY <1>2, <2>1, <2>2
<1>16. CASE DiskSpins
  <2>1. server = "dead"
    BY <1>16 DEF DiskSpins
  <2> QED BY <2>1 DEF Core, Typed
<1>17. CASE Killed
  <2>1. server' = "dead" /\ UNCHANGED memVars /\ sector_idx' = sector_idx
    BY <1>17 DEF Killed
  <2> QED BY <1>3, <2>1 DEF Alive
<1> QED BY <1>4, <1>5, <1>8, <1>9, <1>10, <1>11, <1>12, <1>13, <1>14, <1>15, <1>16, <1>17 DEF ServerNext, ServerStep

(* The memory of a server that has come to an end does not change. *)
LEMMA EndedKeeps ==
    ASSUME RequestsInRange, MisledOnlyByMake, ~Alive, [ServerNext]_serverVars
    PROVE  MemoryInv'
<1>1. server \in {"dead", "undefined", "spinning"}
  BY DEF Alive
<1>2. ASSUME UNCHANGED memVars, sector_idx' = sector_idx, server' \in {"dead", "undefined", "spinning"} PROVE MemoryInv'
  BY <1>2, SameMemory DEF MemoryInv, Alive
<1>3. CASE UNCHANGED serverVars
  BY <1>1, <1>2, <1>3 DEF serverVars, procVars
<1>4. ~Start /\ ~ClientStep /\ ~ServerStep
  BY <1>1 DEF Start, ClientStep, Accept, Exit, Ask, ServerStep, Fetch, Fetched, Execute, Save, Saved, Stop
<1>5. CASE DiskServes \/ DiskSpins
  BY <1>1, <1>2, <1>5 DEF DiskServes, DiskSpins, procVars
<1>6. CASE Killed
  BY <1>2, <1>6 DEF Killed
<1> QED BY <1>3, <1>4, <1>5, <1>6 DEF ServerNext

(* Every step keeps the invariant. *)
LEMMA MemoryKept ==
    ASSUME MemoryInv, ServerInv, [ServerNext]_serverVars
    PROVE  MemoryInv'
<1>1. CASE Alive
  BY <1>1, AliveKeeps DEF MemoryInv
<1>2. CASE ~Alive
  BY <1>2, EndedKeeps DEF MemoryInv
<1> QED BY <1>1, <1>2

----------------------------------------------------------------------------
(* The disk that is found at the first start *)

\* With z behind it m is sound, and all sectors in use are in memory.
HeldSound(m, z) == /\ m \in Image /\ Sound(Complete(m, z)) /\ Shallow(Complete(m, z))
                   /\ \A b \in Blocks : Owned(Complete(m, z), b) => InMemory(m, b)

(* A formatted memory with one file more. *)
LEMMA FirstFileAdded ==
    ASSUME cur_dir = 0, NEW i \in 1..INODE_NUM - 1, NEW name \in Names,
           NEW m2, m2 = Create(AfterFormat, name, File, i, Data)
    PROVE  \E b : AddedTo(AfterFormat, m2, 0, i, b, name) /\ m2.inode[i].type = File /\ m2.inode[i].indirect = None
<1> DEFINE m == AfterFormat
           e == [name |-> name, loc |-> i]
           one == <<[name |-> ".", loc |-> 0]>>
           b == FirstFit(FreeBlocks(m), 1)[1]
<1>1. i \in Inodes /\ i # 0 /\ 0 \in Inodes /\ RootBlock \in Blocks
  BY ConstantsTyped DEF Inodes
<1>2. /\ m \in Image /\ m.inode[0].direct[0] = RootBlock /\ m.sector[RootBlock] = Dir(one)
      /\ m.data_bitmap[RootBlock] /\ \A x \in Blocks : m.data_bitmap[x] <=> x = RootBlock
      /\ \A x \in Inodes : m.inode_bitmap[x] <=> x = 0
      /\ m.inode[i].indirect = None
  BY <1>1, BlankIs, FormattedTyped
<1> HIDE DEF m, one, e
<1>3. Children(m, 0) = one /\ InMemory(m, RootBlock)
  BY <1>2, Kinds DEF Children, InMemory
<1>4. one \in Seq(Entry) /\ Len(one) = 1 /\ one[1].name = "."
  <2> DEFINE x == [name |-> ".", loc |-> 0]
  <2>1. x \in Entry /\ x.name = "."
    BY <1>1 DEF Entry
  <2> HIDE DEF x
  <2>2. <<x>> \in Seq(Entry) /\ Len(<<x>>) = 1 /\ <<x>>[1] = x
    BY <2>1
  <2>3. one = <<x>>
    BY DEF one, x
  <2> QED BY <2>1, <2>2, <2>3
<1>5. e \in Entry
  BY <1>1 DEF Entry, e
<1>6. FreeBlocks(m) # {}
  <2>1. RootBlock + 1 \in Blocks /\ RootBlock + 1 # RootBlock
    BY FileServerAssumption, FileSystemAssumption DEF Blocks, RootBlock
  <2>2. ~m.data_bitmap[RootBlock + 1]
    BY <1>2, <2>1
  <2> QED BY <2>1, <2>2 DEF FreeBlocks
<1>7. Data \in Sector /\ File \in {File, Directory}
  BY DEF Sector
<1>8. /\ m.inode[cur_dir].direct[0] \in Blocks /\ m.data_bitmap[m.inode[cur_dir].direct[0]]
      /\ Children(m, cur_dir) \in Seq(Entry) /\ [name |-> name, loc |-> i] \in Entry
      /\ m2 = Create(m, name, File, i, Data)
  BY <1>1, <1>2, <1>3, <1>4, <1>5 DEF e, m
<1> DEFINE f == File
<1>9. f = File /\ f \in {File, Directory} /\ m2 = Create(m, name, f, i, Data)
  BY <1>8
<1> HIDE DEF f
<1>10. /\ b \in Blocks /\ ~m.data_bitmap[b]
       /\ Added(m, m2, cur_dir, i, b, Append(Children(m, cur_dir), [name |-> name, loc |-> i]))
       /\ m2.inode[i].type = f /\ m2.sector[b] = Data
  BY <1>1, <1>2, <1>6, <1>7, <1>8, <1>9, CreateAdds
<1> HIDE DEF b
<1>11. i \notin Live(m)
  BY <1>1, <1>2 DEF Live
<1>12. \A k \in 1..Len(Children(m, 0)) : Children(m, 0)[k].name # name
  <2>1. name # "."
    BY FileSystemAssumption
  <2> QED BY <1>3, <1>4, <2>1
<1>13. AddedTo(m, m2, 0, i, b, name)
  BY <1>1, <1>2, <1>3, <1>9, <1>10, <1>11, <1>12 DEF AddedTo
<1>14. m2.inode[i].indirect = None
  BY <1>2, <1>10 DEF Added, StartsAt
<1> QED BY <1>9, <1>10, <1>13, <1>14 DEF m

(* It is sound with any disk behind it, and still is when the file has been resized. *)
LEMMA FirstFileSound ==
    ASSUME cur_dir = 0, NEW i \in 1..INODE_NUM - 1, NEW name \in Names, NEW z, OnDisk(z),
           NEW m2, m2 = file_resize(Create(AfterFormat, name, File, i, Data), i, 2).mem
    PROVE  HeldSound(m2, z)
<1> DEFINE m0 == AfterFormat
           m1 == Create(AfterFormat, name, File, i, Data)
           none == {}
           n == 2
<1>1. m2 = file_resize(m1, i, n).mem /\ n \in Nat
  OBVIOUS
<1>2. PICK b : AddedTo(m0, m1, 0, i, b, name) /\ m1.inode[i].type = File /\ m1.inode[i].indirect = None
  <2> HIDE DEF m0
  <2>1. m1 = Create(AfterFormat, name, File, i, Data)
    OBVIOUS
  <2> HIDE DEF m1
  <2>2. \E b : AddedTo(AfterFormat, m1, 0, i, b, name) /\ m1.inode[i].type = File /\ m1.inode[i].indirect = None
    BY <2>1, FirstFileAdded
  <2> QED BY <2>2 DEF m0
<1>3. Tracks(m0, z, Sectors, Sectors, {0}, none, Sectors, 0) /\ Sectors \subseteq Sectors
  BY FormatTracks
<1> HIDE DEF m0, m1, none, n
<1> DEFINE U1 == AddedList(m0, m1, 0, Sectors)
           F1 == {0} \cup {InodeSector}
           N1 == Left(none \cup Switched(m0, m1), m1)
           F0 == {0}
<1>4. Tracks(m0, z, Sectors, Sectors, F0, none, Sectors, 0) /\ F1 = F0 \cup {InodeSector}
  BY <1>3
<1> HIDE DEF F0
<1>5. Tracks(m1, z, AddedList(m0, m1, 0, Sectors), Sectors, F0 \cup {InodeSector}, Left(none \cup Switched(m0, m1), m1),
             AddedList(m0, m1, 0, Sectors), 0)
  BY <1>2, <1>3, <1>4, AdditionCarried
<1>6. Tracks(m1, z, U1, Sectors, F1, N1, U1, 0)
  BY <1>4, <1>5
<1> HIDE DEF U1, F1, N1
<1>7. i \in Files(m1)
  <2>1. m1.inode_bitmap[i] /\ i \in Inodes
    BY <1>2 DEF AddedTo, Added
  <2>2. m1.inode[i].type # Directory
    BY <1>2 DEF File, Directory
  <2> QED BY <2>1, <2>2 DEF Files, Live, Dirs
<1>8. IndexHeld(m1, i)
  BY <1>2 DEF IndexHeld
<1> DEFINE X == {}
           L == U1 \cup (file_resize_lists(m1, i, n) \cup X)
<1>9. X \subseteq Blocks /\ (\A x \in X : InMemory(m1, x)) /\ U1 \subseteq L /\ X \subseteq L
  OBVIOUS
<1> HIDE DEF X
<1>10. Tracks(m2, z, U1 \cup (file_resize_lists(m1, i, n) \cup X), Sectors, F1, Left(N1 \cup X, m2),
              U1 \cup (file_resize_lists(m1, i, n) \cup X), 0)
  BY <1>1, <1>6, <1>7, <1>8, <1>9, ResizeTracks
<1> HIDE DEF L
<1> DEFINE U2 == U1 \cup (file_resize_lists(m1, i, n) \cup X)
           N2 == Left(N1 \cup X, m2)
<1>11. Tracks(m2, z, U2, Sectors, F1, N2, U2, 0)
  BY <1>10
<1> HIDE DEF U2, N2
<1>12. /\ m2 \in Image /\ Sound(Complete(m2, z)) /\ Shallow(Complete(m2, z))
       /\ \A x \in Blocks : Owned(Complete(m2, z), x) => BlockTracks(m2, z, Sectors \cup U2, N2, U2, x)
  BY <1>11 DEF Tracks
<1>13. \A x \in Blocks : x \in Sectors \cup U2
  BY DEF Sectors
<1>14. \A x \in Blocks : Owned(Complete(m2, z), x) => InMemory(m2, x)
  BY <1>12, <1>13 DEF BlockTracks
<1> QED BY <1>12, <1>14 DEF HeldSound

(* So the disk is in order that such a memory was saved to. *)
LEMMA SavedGood ==
    ASSUME cur_dir = 0, NEW i \in 1..INODE_NUM - 1, NEW z, z = [s \in Sectors |-> Contents(WithFile(i), s)]
    PROVE  GoodDisk(z) /\ WithFile(i) \in Image
<1> DEFINE name == CHOOSE n \in Names : TRUE
           m == WithFile(i)
           blank == [b \in Blocks |-> Data]
<1>1. name \in Names
  BY FileServerAssumption
<1>2. m = file_resize(Create(AfterFormat, name, File, i, Data), i, 2).mem
  BY DEF WithFile
<1>3. OnDisk(blank)
  BY DEF OnDisk, Sector
<1> HIDE DEF name, m, blank
<1>4. HeldSound(m, blank)
  BY <1>1, <1>2, <1>3, FirstFileSound
<1>5. m \in Image
  BY <1>4 DEF HeldSound
<1>6. \A b \in Blocks : z[b] = m.sector[b] /\ m.sector[b] \in Sector
  <2>1. m.sector \in [Blocks -> Sector]
    BY <1>5 DEF Image
  <2>2. \A s \in Sectors : z[s] = Contents(m, s)
    BY DEF m
  <2>3. \A b \in Blocks : b \in Sectors /\ Contents(m, b) = m.sector[b]
    BY SectorsAre, ContentsAre
  <2> QED BY <2>1, <2>2, <2>3
<1>7. OnDisk(z)
  BY <1>6 DEF OnDisk
<1>8. HeldSound(m, z)
  BY <1>1, <1>2, <1>7, FirstFileSound
<1>9. \A s \in {InodeBitmap, DataBitmap, InodeTable} : Contents(m, s) = z[s]
  BY SectorsAre DEF m
<1>10. Complete(m, z) = Imaged(z)
  BY <1>5, <1>6, <1>7, <1>9, ImageOfDisk
<1>11. z[DataBitmap].kind = "data_bitmap" /\ z[InodeTable].kind = "inodes"
  BY <1>9, BasicAre
<1>12. \A b \in Blocks : Owned(Imaged(z), b) => z[b] # Unread
  BY <1>6, <1>8, <1>10 DEF HeldSound, InMemory
<1> QED BY <1>5, <1>8, <1>10, <1>11, <1>12 DEF GoodDisk, HeldSound, m

(* The socket at the beginning. *)
LEMMA InitLink ==
    ASSUME ServerInit
    PROVE  ServerInv /\ Link!Array!Init
<1>1. \E C : store \in [Sectors -> C]
  <2>1. CASE exists = FALSE
    <3>1. store = [s \in Sectors |-> Data]
      BY <2>1 DEF ServerInit
    <3>2. store \in [Sectors -> {Data}]
      BY <3>1
    <3> QED BY <3>2
  <2>2. CASE exists = TRUE
    <3>1. PICK i : store = [s \in Sectors |-> Contents(WithFile(i), s)]
      BY <2>2 DEF ServerInit
    <3>2. PICK C : C = {Contents(WithFile(i), s) : s \in Sectors}
      OBVIOUS
    <3>3. store \in [Sectors -> C]
      BY <3>1, <3>2
    <3> QED BY <3>3
  <2> QED BY <2>1, <2>2 DEF ServerInit
<1>2. PICK C : store \in [Sectors -> C]
  BY <1>1
<1>3. Link!LinkInit
  BY <1>2 DEF ServerInit, Link!LinkInit
<1>4. LinkInv(C) /\ Link!Array!Init
  BY <1>2, <1>3, InitRefines
<1>5. wire = <<>> /\ Len(wire) = 0 /\ reply = <<>>
  BY DEF ServerInit
<1>6. Quiet
  BY <1>5 DEF Quiet, Link!Asked
<1> QED BY <1>4, <1>6 DEF ServerInv

(* With nothing under way the disk holds what it will hold. *)
LEMMA FinalSettled ==
    ASSUME wire = <<>>
    PROVE  \A s \in Sectors : Final[s] = store[s]
<1>1. \A s : WritesIn(wire, s) = {}
  BY DEF WritesIn
<1>2. \A s : Link!Settled(s) = store[s]
  BY <1>1, SettledIs DEF After
<1> QED BY <1>2 DEF Final

\* The disk z holds what sectors can hold, and is in order if it is formatted.
Intact(z) == /\ \A s \in Sectors : z[s] \in Stored(s)
             /\ IsFormatted(z) => GoodDisk(z)
             /\ ~exists => z[InodeBitmap] = Data

(* The disk at the beginning. *)
LEMMA InitDisk ==
    ASSUME ServerInit
    PROVE  Intact(store) /\ store = Final
<1>1. store = Final
  <2>1. \A s \in Sectors : Final[s] = store[s]
    BY FinalSettled DEF ServerInit
  <2>2. store = [s \in Sectors |-> store[s]]
    BY DEF ServerInit
  <2> QED BY <2>1, <2>2 DEF Final
<1>2. CASE exists = FALSE
  <2>1. store = [s \in Sectors |-> Data]
    BY <1>2 DEF ServerInit
  <2>2. \A s \in Sectors : store[s] = Data
    BY <2>1
  <2>3. \A s \in Sectors : store[s] \in Stored(s)
    BY <2>2 DEF Stored, Sector
  <2>4. store[InodeBitmap] = Data /\ ~IsFormatted(store)
    BY <2>2, SectorsAre, Kinds DEF IsFormatted
  <2> QED BY <1>1, <2>3, <2>4 DEF Intact
<1>3. CASE exists = TRUE
  <2>1. PICK i \in 1..INODE_NUM - 1 : store = [s \in Sectors |-> Contents(WithFile(i), s)]
    BY <1>3 DEF ServerInit
  <2>2. cur_dir = 0
    BY DEF ServerInit
  <2>3. GoodDisk(store) /\ WithFile(i) \in Image
    BY <2>1, <2>2, SavedGood
  <2>4. \A s \in Sectors : store[s] = Contents(WithFile(i), s)
    BY <2>1
  <2> DEFINE m == WithFile(i)
  <2>5. m \in Image /\ \A s \in Sectors : store[s] = Contents(m, s)
    BY <2>3, <2>4
  <2> HIDE DEF m
  <2>6. \A s \in Sectors : store[s] \in Stored(s)
    BY <2>5, HeldStored
  <2> QED BY <1>1, <1>3, <2>3, <2>6 DEF Intact
<1> QED BY <1>2, <1>3 DEF ServerInit

(* The invariant holds at the beginning. *)
LEMMA InitMemory ==
    ASSUME ServerInit
    PROVE  MemoryInv
<1>1. /\ server = "stopped" /\ inited = FALSE /\ file_storage = Blank /\ wire = <<>>
      /\ update_sector = {} /\ sector_idx = 0
  BY DEF ServerInit
<1>2. Intact(Final) /\ store = Final
  BY InitDisk
<1>3. Blank \in Image
  BY BlankIs
<1>4. ~Runs
  BY <1>1 DEF Runs
<1>5. Typed
  BY <1>1, <1>2, <1>3 DEF Typed, Intact
<1>6. Tracking /\ Unformatted /\ Loading
  BY <1>4 DEF Tracking, Unformatted, Loading
<1>7. Waiting /\ Answering /\ Leaving
  BY <1>1 DEF Waiting, Answering, Leaving
<1>8. Stopped /\ NewDisk
  BY <1>2 DEF Stopped, NewDisk, Intact
<1>9. ExitLast
  BY <1>1 DEF ExitLast
<1>10. RequestsInRange
  BY <1>1 DEF RequestsInRange
<1>11. MisledOnlyByMake
  BY <1>1 DEF MisledOnlyByMake
<1> QED BY <1>5, <1>6, <1>7, <1>8, <1>9, <1>10, <1>11 DEF MemoryInv, Core

----------------------------------------------------------------------------
(* What the runs check *)

(* The invariant holds in every state. *)
THEOREM MemoryInvariant == ServerSpec => [](MemoryInv /\ ServerInv)
<1>1. ServerInit => MemoryInv /\ ServerInv
  BY InitMemory, InitLink
<1>2. MemoryInv /\ ServerInv /\ [ServerNext]_serverVars => MemoryInv' /\ ServerInv'
  <2> SUFFICES ASSUME MemoryInv, ServerInv, [ServerNext]_serverVars PROVE MemoryInv' /\ ServerInv'
    OBVIOUS
  <2>1. MemoryInv'
    BY MemoryKept
  <2>2. RequestsInRange
    BY DEF MemoryInv
  <2>3. ServerInv'
    BY <2>2, ServerKeepsToLink
  <2> QED BY <2>1, <2>3
<1> QED BY <1>1, <1>2, PTL DEF ServerSpec

(* The blocks of the inodes in use have owners. *)
LEMMA ReferencedOwned ==
    ASSUME NEW m, NEW z, NEW U, NEW D, NEW F, NEW N, NEW E, NEW d, Tracks(m, z, U, D, F, N, E, d), NEW b \in Referenced(m)
    PROVE  b \in Blocks /\ BlockTracks(m, z, D \cup U, N, E, b)
<1>1. m \in Image /\ OnDisk(z) /\ \A x \in Blocks : Owned(Complete(m, z), x) => BlockTracks(m, z, D \cup U, N, E, x)
  BY DEF Tracks
<1>2. PICK j \in LiveInodes(m) : b \in BlocksOf(m, j)
  BY DEF Referenced
<1>3. j \in Inodes /\ j \in Live(m)
  BY <1>2 DEF LiveInodes, Live
<1>4. b # None /\ b \in Blocks /\ \E p \in Places : At(m, j, p) = b
  BY <1>1, <1>2, <1>3, BlocksAtPlaces
<1>5. PICK p \in Places : At(m, j, p) = b
  BY <1>4
<1>6. At(m, j, p) \in {At(Complete(m, z), j, p), None}
  BY <1>1, <1>3, CompletePlaces
<1>7. j \in Live(Complete(m, z))
  BY <1>1, <1>3, CompleteMembers
<1>8. Owned(Complete(m, z), b)
  BY <1>4, <1>5, <1>6, <1>7 DEF Owned
<1> QED BY <1>1, <1>4, <1>8

(* While the list is sent all that is on it is there. *)
LEMMA MemorySends ==
    ASSUME MemoryInv
    PROVE  SendsOnlyWhatItHolds
<1> DEFINE m == file_storage
           U == update_sector
           D == data_block_in_memory
           F == file_in_memory
           N == newer
<1>1. RequestsInRange
  BY DEF MemoryInv
<1>2. ASSUME server = "save", inited, NEW s \in update_sector \cap Referenced(file_storage) PROVE Held(s) # Unread
  <2>1. Core
    BY <1>2 DEF MemoryInv, Alive
  <2>2. Tracks(m, Final, U, D, F, N, U, cur_dir)
    BY <1>2, <2>1 DEF Core, Tracking, Runs
  <2>3. s \in U /\ s \in Referenced(m)
    BY <1>2
  <2> HIDE DEF m, U, D, F, N
  <2>4. s \in Blocks /\ BlockTracks(m, Final, D \cup U, N, U, s)
    BY <2>2, <2>3, ReferencedOwned
  <2>5. InMemory(m, s)
    BY <2>3, <2>4 DEF BlockTracks
  <2>6. Held(s) = m.sector[s]
    BY <1>2, <2>4, ContentsAre DEF Held, m
  <2> QED BY <2>5, <2>6 DEF InMemory
<1> QED BY <1>1, <1>2 DEF SendsOnlyWhatItHolds

(* Files of an image are what its type says. *)
LEMMA FilesLive ==
    ASSUME NEW m \in Image
    PROVE  LiveFiles(m) = Files(m)
<1>1. \A j \in Inodes : m.inode[j].type \in {File, Directory}
  BY ImageTyped
<1> QED BY <1>1 DEF LiveFiles, LiveInodes, Files, Live, Dirs, File, Directory

(* Between two commands the disk has all but first sectors and index blocks. *)
LEMMA MemorySaved ==
    ASSUME MemoryInv
    PROVE  OnlyFirstOrIndexUnsaved
<1> DEFINE m == file_storage
           none == {}
           U == update_sector
           D == data_block_in_memory
           F == file_in_memory
           N == newer
<1> SUFFICES ASSUME server = "idle", inited, NEW b \in Referenced(file_storage)
             PROVE  \/ file_storage.sector[b] \in {Unread, Link!Settled(b)} /\ b \notin newer
                    \/ \E i \in LiveFiles(file_storage) : b \in {DirBlock(i), file_storage.inode[i].indirect}
  BY DEF OnlyFirstOrIndexUnsaved
<1>1. Core
  BY DEF MemoryInv, Alive
<1>2. Tracks(m, Final, U, D, F, N, none, cur_dir) /\ b \in Referenced(m) /\ \A x : x \notin none
  BY <1>1 DEF Core, Tracking, Runs
<1>3. \A i : DirBlock(i) = m.inode[i].direct[0]
  BY DEF DirBlock
<1> HIDE DEF m, none, U, D, F, N
<1>4. b \in Blocks /\ BlockTracks(m, Final, D \cup U, N, none, b)
  BY <1>2, ReferencedOwned
<1>5. /\ m.sector[b] \in {Unread, Final[b]} \/ IsIndex(m, b)
      /\ b \in N => IsFirstOrIndex(m, b)
  BY <1>2, <1>4 DEF BlockTracks
<1>6. Final[b] = Link!Settled(b)
  BY <1>4, SectorsAre DEF Final
<1>7. LiveFiles(m) = Files(m)
  BY <1>2, FilesLive DEF Tracks
<1>8. IsIndex(m, b) => IsFirstOrIndex(m, b)
  BY DEF IsIndex, IsFirstOrIndex
<1>9. IsFirstOrIndex(m, b) => \E i \in LiveFiles(m) : b \in {DirBlock(i), m.inode[i].indirect}
  BY <1>3, <1>7 DEF IsFirstOrIndex
<1> QED BY <1>5, <1>6, <1>8, <1>9 DEF m, N

(* A clean exit leaves a disk in order. *)
LEMMA MemoryStops ==
    ASSUME MemoryInv
    PROVE  CleanExitLeavesSoundDisk
<1> SUFFICES ASSUME server = "stopped", disk = "stopped", store[InodeBitmap].kind = "inode_bitmap"
             PROVE  /\ \A s \in {DataBitmap, InodeTable} : store[s].kind = Contents(Blank, s).kind
                    /\ \A i \in LiveDirs(DiskImage) : DiskImage.inode[i].direct[0] # None
                    /\ OwnersDiffer(DiskImage) /\ OwnedAreMarked(DiskImage) /\ FilledFromLeft(DiskImage)
                    /\ MakesTree(DiskImage) /\ DotsLead(DiskImage)
  BY DEF CleanExitLeavesSoundDisk
<1>1. Core
  BY DEF MemoryInv, Alive
<1>2. wire = <<>>
  BY <1>1 DEF Core, ExitLast
<1>3. \A s \in Sectors : Final[s] = store[s]
  BY <1>2, FinalSettled
<1>4. Imaged(Final) = DiskImage
  BY <1>3, SectorsAre DEF Imaged, DiskImage
<1>5. IsFormatted(Final)
  BY <1>3, SectorsAre DEF IsFormatted
<1>6. GoodDisk(Final)
  BY <1>1, <1>5 DEF Core, Stopped
<1>7. Sound(DiskImage)
  BY <1>4, <1>6 DEF GoodDisk
<1>8. store[DataBitmap].kind = "data_bitmap" /\ store[InodeTable].kind = "inodes"
  BY <1>3, <1>6, SectorsAre DEF GoodDisk
<1>9. \A s \in {DataBitmap, InodeTable} : store[s].kind = Contents(Blank, s).kind
  <2> DEFINE x == Blank
  <2> HIDE DEF x
  <2>1. /\ Contents(x, DataBitmap) = [kind |-> "data_bitmap", bit |-> x.data_bitmap]
        /\ Contents(x, InodeTable) = [kind |-> "inodes", inode |-> x.inode]
    BY ContentsAre
  <2>2. Contents(x, DataBitmap).kind = "data_bitmap" /\ Contents(x, InodeTable).kind = "inodes"
    BY <2>1
  <2> QED BY <1>8, <2>2 DEF x
<1> DEFINE w == DiskImage
<1>10. Sound(w)
  BY <1>7
<1> HIDE DEF w
<1>11. \A i \in LiveDirs(w) : w.inode[i].direct[0] # None
  <2>1. BlocksSound(w) /\ LiveDirs(w) = Dirs(w)
    BY <1>10, SoundMeans
  <2> QED BY <2>1, SoundImage, NoneIsNoBlock
<1>12. OwnersDiffer(w) /\ OwnedAreMarked(w) /\ FilledFromLeft(w) /\ MakesTree(w) /\ DotsLead(w)
  BY <1>10, SoundSharesNoBlock, SoundMarksBlocks, SoundFillsFiles, SoundMakesTree, SoundDotsLead
<1> QED BY <1>9, <1>11, <1>12 DEF w

(* The server asks only for sectors that are, and lists no others: RequestsInRange, which neither *)
(* the disk server nor the file system looks at.                                                  *)
THEOREM RequestsStayInRange == ServerSpec => []RequestsInRange
<1>1. MemoryInv => RequestsInRange
  BY DEF MemoryInv
<1> QED BY <1>1, MemoryInvariant, PTL

(* No sector of a file or directory is sent before it has been read or written:              *)
(* SendsOnlyWhatItHolds.                                                                       *)
THEOREM OnlyHeldIsSent == ServerSpec => []SendsOnlyWhatItHolds
<1>1. MemoryInv => SendsOnlyWhatItHolds
  BY MemorySends
<1> QED BY <1>1, MemoryInvariant, PTL

(* Between two commands only first sectors of files and index blocks can differ from what the   *)
(* disk will hold: OnlyFirstOrIndexUnsaved.                                                      *)
THEOREM LittleStaysUnsaved == ServerSpec => []OnlyFirstOrIndexUnsaved
<1>1. MemoryInv => OnlyFirstOrIndexUnsaved
  BY MemorySaved
<1> QED BY <1>1, MemoryInvariant, PTL

(* The flag of an inode is true but for the number of the inode table, which mk and mkdir set: *)
(* MisledOnlyByMake.                                                                            *)
THEOREM FlagsStayTrue == ServerSpec => []MisledOnlyByMake
<1>1. MemoryInv => MisledOnlyByMake
  BY DEF MemoryInv
<1> QED BY <1>1, MemoryInvariant, PTL

(* Whatever commands were served, and however often the servers were started, a clean exit       *)
(* leaves a sound file system on the disk: CleanExitLeavesSoundDisk.                              *)
THEOREM CleanExitsStaySound == ServerSpec => []CleanExitLeavesSoundDisk
<1>1. MemoryInv => CleanExitLeavesSoundDisk
  BY MemoryStops
<1> QED BY <1>1, MemoryInvariant, PTL

(* ImplementsSectorArray: get_sector_from_disk waits for its sector before update_disk or a       *)
(* further get_sector_from_disk sends, and the sectors it asks for and lists exist, so the disk   *)
(* is an array of sectors to the file system server, over any clients and commands, restarts,     *)
(* and its death at any point.                                                                     *)
THEOREM ServerSeesArray == ServerSpec => ImplementsSectorArray
<1>1. ServerInit => Link!Array!Init
  BY InitLink
<1>2. MemoryInv /\ ServerInv /\ [ServerNext]_serverVars => [Link!Array!Next]_(Link!Array!vars)
  <2> SUFFICES ASSUME MemoryInv, ServerInv, [ServerNext]_serverVars PROVE [Link!Array!Next]_(Link!Array!vars)
    OBVIOUS
  <2>1. RequestsInRange
    BY DEF MemoryInv
  <2> QED BY <2>1, ServerKeepsToLink
<1> QED BY <1>1, <1>2, MemoryInvariant, PTL DEF ServerSpec, ImplementsSectorArray, Link!Array!Spec
=============================================================================
