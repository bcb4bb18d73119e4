---------------------------- MODULE MCFileSystem ----------------------------
(***************************************************************************)
(* FileSystem for TLC.  Two directs and two slots make a file cross from   *)
(* the directs to the index block; five blocks besides the root's run out  *)
(* before, at and after the index block; four inodes and two names make    *)
(* nested directories, and directories that are full.                      *)
(***************************************************************************)
EXTENDS FileSystem

CONSTANTS nameA, nameB

const_Names == {nameA, nameB}

NamesAreAlike == Permutations(const_Names)

\* States are told apart by what a command can read: not by the old content of sectors that
\* no file has, nor by the type and direct[0] of a free inode, which mk and mkdir set.
Readable == <<file_storage.inode_bitmap, file_storage.data_bitmap, cur_dir,
              [j \in Inodes |-> IF j \in LiveInodes(file_storage) THEN file_storage.inode[j]
                                ELSE [file_storage.inode[j] EXCEPT !.type = File, !.direct[0] = None]],
              [x \in Referenced(file_storage) \cap Blocks |-> file_storage.sector[x]]>>
=============================================================================
