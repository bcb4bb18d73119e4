------------------------------ MODULE DiskLink ------------------------------
(***************************************************************************)
(* The disk server of Step3/disk.c, its storage file, and the socket to    *)
(* the file system server.  The requests W, R and E travel in order; W is  *)
(* not answered, R with the sector.                                        *)
(*                                                                         *)
(* The sectors lie on one cylinder, so a request names a sector and no     *)
(* delay is modelled.  All requests are in range.  One request is one      *)
(* message, but the last one of a file system that is killed may be cut.   *)
(***************************************************************************)
EXTENDS Naturals, Sequences, FiniteSetsExt

CONSTANTS Sectors,
          Zero,       \* the contents of a sector full of '\0'
          WireSize    \* requests the socket holds before send blocks

VARIABLES wire,    \* requests sent and not received
          reply,   \* sectors sent back and not received
          store,   \* the storage file
          exists,  \* disk_storage_file_exist
          disk,    \* "serving" or "stopped"
          op, last \* the locals of that name, and the sector of case W: they survive a round

linkVars == <<wire, reply, store, exists, disk, op, last>>

LinkInit == /\ wire = <<>> /\ reply = <<>>
            /\ DOMAIN store = Sectors
            /\ exists \in BOOLEAN
            /\ disk = "stopped" /\ op = "" /\ last = {}

----------------------------------------------------------------------------
(* The file system's end *)

Room == Len(wire) < WireSize

\* One round of the last loop of update_disk.
SendWrite(s, c) == /\ Room
                   /\ wire' = Append(wire, [op |-> "W", sector |-> s, data |-> c])
                   /\ UNCHANGED <<reply, store, exists, disk, op, last>>

\* get_sector_from_disk, up to its recv.
SendRead(s) == /\ Room
               /\ wire' = Append(wire, [op |-> "R", sector |-> s])
               /\ UNCHANGED <<reply, store, exists, disk, op, last>>

SendExit == /\ Room
            /\ wire' = Append(wire, [op |-> "E"])
            /\ UNCHANGED <<reply, store, exists, disk, op, last>>

\* The recv of get_sector_from_disk.
GetReply == /\ reply # <<>>
            /\ reply' = Tail(reply)
            /\ UNCHANGED <<wire, store, exists, disk, op, last>>

\* The file system is killed in the middle of a W for sector s.  The recvs of the disk server
\* return 0 from there on: cylinder and sector keep the values they had, and buf its zeros.
CutWrite(s) == /\ \E x \in {s} \cup last :
                     wire' = Append(wire, [op |-> "W", sector |-> x, data |-> Zero])
               /\ UNCHANGED <<reply, store, exists, disk, op, last>>

----------------------------------------------------------------------------
(* The disk server *)

Serving(o) == disk = "serving" /\ wire # <<>> /\ Head(wire).op = o

\* main up to the request loop, and connect on the other side.
Connect == /\ disk = "stopped" /\ wire = <<>>
           /\ disk' = "serving"
           /\ reply' = <<>> /\ op' = "" /\ last' = {}
           /\ UNCHANGED <<wire, store, exists>>

\* Mutant of DiskWrites: the file is opened with "w+", which empties it, each time.
DiskTruncates == /\ Serving("W")
                 /\ store' = [s \in Sectors |-> IF s = Head(wire).sector THEN Head(wire).data ELSE Zero]
                 /\ wire' = Tail(wire)
                 /\ exists' = TRUE
                 /\ op' = "W" /\ last' = {Head(wire).sector}
                 /\ UNCHANGED <<reply, disk>>

DiskWrites == /\ Serving("W")
              /\ store' = [store EXCEPT ![Head(wire).sector] = Head(wire).data]
              /\ wire' = Tail(wire)
              /\ exists' = TRUE
              /\ op' = "W" /\ last' = {Head(wire).sector}
              /\ UNCHANGED <<reply, disk>>

DiskReads == /\ Serving("R") /\ exists
             /\ reply' = Append(reply, store[Head(wire).sector])
             /\ wire' = Tail(wire)
             /\ op' = "R"
             /\ UNCHANGED <<store, exists, disk, last>>

DiskStops == /\ Serving("E")
             /\ disk' = "stopped"
             /\ wire' = Tail(wire)
             /\ UNCHANGED <<reply, store, exists, op, last>>

\* Once the file system is gone, recv returns 0 at once and is not asked what it returned: op
\* and the numbers of the last request are what they were, and the loop serves it again.
DiskSpins == /\ disk = "serving" /\ wire = <<>> /\ op = "W"
             /\ store' = [s \in Sectors |-> IF s \in last THEN Zero ELSE store[s]]
             /\ UNCHANGED <<wire, reply, exists, disk, op, last>>

DiskStep == DiskWrites \/ DiskReads \/ DiskStops

----------------------------------------------------------------------------
(* The array of sectors that the file system sees through the socket *)

WritesOf(s) == {k \in 1..Len(wire) : wire[k].op = "W" /\ wire[k].sector = s}

\* What sector s holds once the disk server has served every request.
Settled(s) == IF WritesOf(s) = {} THEN store[s] ELSE wire[Max(WritesOf(s))].data

Asked == {s \in Sectors : \E k \in 1..Len(wire) : wire[k].op = "R" /\ wire[k].sector = s}

Array == INSTANCE SectorArray WITH arr <- [s \in Sectors |-> Settled(s)], asked <- Asked
=============================================================================
