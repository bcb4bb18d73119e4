------------------------------ MODULE PipeCopy ------------------------------
(***************************************************************************)
(* The copy over a pipe of Copy.c: the parent reads the source file block  *)
(* by block and writes the pipe, the child reads the pipe and writes the   *)
(* destination.                                                            *)
(*                                                                         *)
(* The source stays readable, and the file system takes every byte.  The   *)
(* destination may turn out not to be writable.                            *)
(***************************************************************************)
EXTENDS Naturals, Sequences

CONSTANTS Bytes,
          Zero,         \* what memset fills with
          Source,       \* the source file
          BUFFER_SIZE,
          PIPE_BUF,     \* a write of so many bytes is not split
          Capacity      \* bytes the pipe holds

CopyAssumption == /\ Zero \in Bytes /\ Source \in Seq(Bytes)
                  /\ BUFFER_SIZE \in Nat /\ PIPE_BUF \in Nat /\ Capacity \in Nat

VARIABLES parent,    \* where the parent stands: "read", "write", "wait", "exit" or "dead"
          offset,    \* how far fread has come in the source, the padding counted
          writeBuf,  \* what the current write has still to hand over
          mypipe,
          child,     \* where the child stands: "open", "copy", "done" or "dead"
          readBuf,
          dest       \* the destination file

vars == <<parent, offset, writeBuf, mypipe, child, readBuf, dest>>

Buffers == [1..BUFFER_SIZE -> Bytes]

\* readBuf is what malloc finds.
Init == /\ parent = "read" /\ offset = 0 /\ writeBuf = <<>> /\ mypipe = <<>>
        /\ child = "open" /\ readBuf \in Buffers /\ dest = <<>>

\* The source and the zeros that memset puts behind it.
Padded(k) == IF k <= Len(Source) THEN Source[k] ELSE Zero

Unread == BUFFER_SIZE > 0 /\ offset < Len(Source)

ParentReads == /\ parent = "read" /\ Unread
               /\ writeBuf' = [k \in 1..BUFFER_SIZE |-> Padded(offset + k)]
               /\ offset' = offset + BUFFER_SIZE
               /\ parent' = "write"
               /\ UNCHANGED <<mypipe, child, readBuf, dest>>

\* The pipe takes a small buffer as a whole and a larger one in any parts.
ParentWrites ==
    /\ parent = "write" /\ child # "dead"
    /\ \E n \in 1..Len(writeBuf) :
          /\ Len(mypipe) + n <= Capacity
          /\ BUFFER_SIZE <= PIPE_BUF => n = Len(writeBuf)
          /\ mypipe' = mypipe \o SubSeq(writeBuf, 1, n)
          /\ writeBuf' = SubSeq(writeBuf, n + 1, Len(writeBuf))
          /\ parent' = IF n = Len(writeBuf) THEN "read" ELSE "write"
    /\ UNCHANGED <<offset, child, readBuf, dest>>

\* Nobody is left to read: SIGPIPE.
ParentBreaks == /\ parent = "write" /\ child = "dead"
                /\ parent' = "dead"
                /\ UNCHANGED <<offset, writeBuf, mypipe, child, readBuf, dest>>

ParentCloses == /\ parent = "read" /\ ~Unread
                /\ parent' = "wait"
                /\ UNCHANGED <<offset, writeBuf, mypipe, child, readBuf, dest>>

ParentReturns == /\ parent = "wait" /\ child \in {"done", "dead"}
                 /\ parent' = "exit"
                 /\ UNCHANGED <<offset, writeBuf, mypipe, child, readBuf, dest>>

\* Without a destination the child closes a null pointer.
ChildOpens == /\ child = "open"
              /\ child' \in {"copy", "dead"}
              /\ UNCHANGED <<parent, offset, writeBuf, mypipe, readBuf, dest>>

\* One round of the loop: whatever read returned, the whole buffer is written.
ChildCopies ==
    /\ child = "copy" /\ mypipe # <<>> /\ BUFFER_SIZE > 0
    /\ readBuf' = [k \in 1..BUFFER_SIZE |-> IF k <= Len(mypipe) THEN mypipe[k] ELSE readBuf[k]]
    /\ mypipe' = IF Len(mypipe) <= BUFFER_SIZE THEN <<>>
                 ELSE SubSeq(mypipe, BUFFER_SIZE + 1, Len(mypipe))
    /\ dest' = dest \o readBuf'
    /\ UNCHANGED <<parent, offset, writeBuf, child>>

\* read returns 0: the pipe is empty and its write end closed, or nothing was asked for.
ChildEnds == /\ child = "copy"
             /\ BUFFER_SIZE = 0 \/ (mypipe = <<>> /\ parent \notin {"read", "write"})
             /\ child' = "done"
             /\ UNCHANGED <<parent, offset, writeBuf, mypipe, readBuf, dest>>

Parent == ParentReads \/ ParentWrites \/ ParentBreaks \/ ParentCloses \/ ParentReturns
Child  == ChildOpens \/ ChildCopies \/ ChildEnds
Next   == Parent \/ Child

Spec == Init /\ [][Next]_vars

----------------------------------------------------------------------------
(* Properties *)

\* The header, "copy a file to another file using pipe": the destination is a prefix of the
\* source and its padding, and once the child is done all of the source is there and less
\* than one buffer of padding.
CopyIsPadded ==
    /\ \A k \in 1..Len(dest) : dest[k] = Padded(k)
    /\ child = "done" => Len(Source) <= Len(dest) /\ Len(dest) < Len(Source) + BUFFER_SIZE

\* Whatever the buffer, the destination is made of whole buffers: it can be equal to the
\* source only if the source is, too.
WholeBuffers == \E n \in Nat : Len(dest) = n * BUFFER_SIZE
=============================================================================
