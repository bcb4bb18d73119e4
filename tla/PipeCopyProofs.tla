--------------------------- MODULE PipeCopyProofs ---------------------------
(***************************************************************************)
(* Proofs about PipeCopy for every source file.                            *)
(*                                                                         *)
(* With a buffer of at most PIPE_BUF bytes the pipe holds whole buffers    *)
(* only, so a read that finds anything is never short; then destination,   *)
(* pipe and what is being written are, one after the other, the padded     *)
(* source up to where fread has come (CopyInv).                            *)
(***************************************************************************)
EXTENDS PipeCopy, SequenceTheorems, TLAPS

Whole(n) == \E q \in Nat : n = q * BUFFER_SIZE

TypeOK == /\ parent \in {"read", "write", "wait", "exit", "dead"}
          /\ offset \in Nat
          /\ writeBuf \in Seq(Bytes) /\ mypipe \in Seq(Bytes) /\ dest \in Seq(Bytes)
          /\ child \in {"open", "copy", "done", "dead"}
          /\ readBuf \in Buffers

\* How far the three parts reach, and that the pipe holds whole buffers.
Lengths == /\ Len(writeBuf) = IF parent \in {"write", "dead"} THEN BUFFER_SIZE ELSE 0
           /\ offset = Len(dest) + Len(mypipe) + Len(writeBuf)
           /\ offset < Len(Source) + BUFFER_SIZE
           /\ Whole(Len(mypipe))

\* What they hold.
Text == /\ \A k \in 1..Len(dest) : dest[k] = Padded(k)
        /\ \A k \in 1..Len(mypipe) : mypipe[k] = Padded(Len(dest) + k)
        /\ \A k \in 1..Len(writeBuf) : writeBuf[k] = Padded(Len(dest) + Len(mypipe) + k)

\* Both ends are closed only when all has gone through.
Ends == /\ parent \in {"wait", "exit"} => offset >= Len(Source)
        /\ parent = "dead" => child = "dead"
        /\ child = "done" => parent \in {"wait", "exit"} /\ mypipe = <<>>

CopyInv == TypeOK /\ Lengths /\ Text /\ Ends

SmallBuffer == CopyAssumption /\ BUFFER_SIZE \in 1..PIPE_BUF

----------------------------------------------------------------------------
(* Whole buffers, put into the pipe or taken out of it, leave whole buffers. *)
LEMMA WholeStep ==
    ASSUME BUFFER_SIZE \in Nat \ {0}, NEW n \in Nat, Whole(n)
    PROVE  /\ Whole(n + BUFFER_SIZE)
           /\ n > 0 => n >= BUFFER_SIZE /\ Whole(n - BUFFER_SIZE)
<1>1. PICK q \in Nat : n = q * BUFFER_SIZE
      BY DEF Whole
<1>2. n + BUFFER_SIZE = (q + 1) * BUFFER_SIZE
      BY <1>1
<1>3. ASSUME n > 0 PROVE n >= BUFFER_SIZE /\ Whole(n - BUFFER_SIZE)
  <2>1. q # 0
        BY <1>1, <1>3
  <2>2. PICK r \in Nat : q = r + 1
        BY <2>1
  <2>3. n = r * BUFFER_SIZE + BUFFER_SIZE
        BY <1>1, <2>2
  <2>4. r * BUFFER_SIZE \in Nat
        OBVIOUS
  <2>5. QED
        BY <2>3, <2>4 DEF Whole
<1>4. QED
      BY <1>2, <1>3 DEF Whole

(* The padded source is made of bytes. *)
LEMMA PaddedType == ASSUME CopyAssumption, NEW k \in Nat \ {0} PROVE Padded(k) \in Bytes
BY DEF CopyAssumption, Padded

(* Nothing has been read, and nothing is in the pipe. *)
LEMMA InitCopyInv == ASSUME SmallBuffer, Init PROVE CopyInv
<1> USE DEF SmallBuffer, CopyAssumption, Init
<1>1. TypeOK
      BY DEF TypeOK
<1>2. Whole(0)
      BY DEF Whole
<1>3. QED
      BY <1>1, <1>2 DEF CopyInv, Lengths, Text, Ends

(* fread and memset put the next buffer of the padded source behind what is in the pipe. *)
LEMMA ParentReadsCopyInv == ASSUME SmallBuffer, CopyInv, ParentReads PROVE CopyInv'
<1> USE DEF SmallBuffer, CopyAssumption, CopyInv
<1>1. /\ writeBuf = <<>> /\ offset = Len(dest) + Len(mypipe)
      BY DEF ParentReads, TypeOK, Lengths
<1>2. writeBuf' \in Seq(Bytes) /\ Len(writeBuf') = BUFFER_SIZE
  <2>1. \A k \in 1..BUFFER_SIZE : Padded(offset + k) \in Bytes
        BY PaddedType DEF TypeOK
  <2>2. QED
        BY <2>1, IsASeq, LenProperties DEF ParentReads
<1>3. TypeOK'
      BY <1>2 DEF TypeOK, ParentReads
<1>4. Lengths'
  <2>1. Whole(Len(mypipe))'
        BY DEF ParentReads, Lengths, Whole
  <2>2. QED
        BY <1>1, <1>2, <2>1 DEF TypeOK, ParentReads, Lengths, Unread
<1>5. Text'
      BY <1>1, <1>2 DEF TypeOK, ParentReads, Text
<1>6. Ends'
      BY DEF Ends, ParentReads
<1>7. QED
      BY <1>3, <1>4, <1>5, <1>6

(* write hands the whole buffer over. *)
LEMMA ParentWritesCopyInv == ASSUME SmallBuffer, CopyInv, ParentWrites PROVE CopyInv'
<1> USE DEF SmallBuffer, CopyAssumption, CopyInv
<1>1. /\ Len(writeBuf) = BUFFER_SIZE
      /\ mypipe' = mypipe \o writeBuf /\ writeBuf' = <<>> /\ parent' = "read"
  <2>1. Len(writeBuf) = BUFFER_SIZE
        BY DEF ParentWrites, Lengths
  <2>2. SubSeq(writeBuf, 1, Len(writeBuf)) = writeBuf
        BY SubSeqFull DEF TypeOK
  <2>3. SubSeq(writeBuf, Len(writeBuf) + 1, Len(writeBuf)) = <<>>
        BY SubSeqEmpty DEF TypeOK
  <2>4. PICK n \in 1..Len(writeBuf) :
              /\ n = Len(writeBuf)
              /\ mypipe' = mypipe \o SubSeq(writeBuf, 1, n)
              /\ writeBuf' = SubSeq(writeBuf, n + 1, Len(writeBuf))
              /\ parent' = IF n = Len(writeBuf) THEN "read" ELSE "write"
        BY DEF ParentWrites
  <2>5. QED
        BY <2>1, <2>2, <2>3, <2>4
<1>2. /\ mypipe' \in Seq(Bytes) /\ Len(mypipe') = Len(mypipe) + Len(writeBuf)
      /\ \A k \in 1..Len(mypipe) + Len(writeBuf) :
            mypipe'[k] = IF k <= Len(mypipe) THEN mypipe[k] ELSE writeBuf[k - Len(mypipe)]
      BY <1>1, ConcatProperties DEF TypeOK
<1>3. TypeOK'
      BY <1>1, <1>2 DEF TypeOK, ParentWrites
<1>4. Lengths'
  <2>1. Whole(Len(mypipe'))
        BY <1>1, <1>2, WholeStep DEF TypeOK, Lengths
  <2>2. Whole(Len(mypipe))'
        BY <2>1 DEF Whole
  <2>3. QED
        BY <1>1, <1>2, <2>2 DEF TypeOK, ParentWrites, Lengths
<1>5. Text'
  <2>1. ASSUME NEW k \in 1..Len(mypipe') PROVE mypipe'[k] = Padded(Len(dest) + k)
    <3>1. CASE k <= Len(mypipe)
          BY <1>2, <3>1 DEF TypeOK, Text
    <3>2. CASE k > Len(mypipe)
      <4>1. k - Len(mypipe) \in 1..Len(writeBuf)
            BY <1>2, <3>2 DEF TypeOK
      <4>2. writeBuf[k - Len(mypipe)] = Padded(Len(dest) + Len(mypipe) + (k - Len(mypipe)))
            BY <4>1 DEF Text
      <4>3. Len(dest) + Len(mypipe) + (k - Len(mypipe)) = Len(dest) + k
            BY DEF TypeOK
      <4>4. QED
            BY <1>2, <3>2, <4>2, <4>3
    <3>3. QED
          BY <1>2, <3>1, <3>2 DEF TypeOK
  <2>2. QED
        BY <1>1, <2>1, SMTT(30) DEF ParentWrites, Text
<1>6. Ends'
      BY <1>1 DEF Ends, ParentWrites
<1>7. QED
      BY <1>3, <1>4, <1>5, <1>6

(* A read is never short: the child passes one whole buffer on. *)
LEMMA ChildCopiesCopyInv == ASSUME SmallBuffer, CopyInv, ChildCopies PROVE CopyInv'
<1> USE DEF SmallBuffer, CopyAssumption, CopyInv
<1>1. Len(mypipe) >= BUFFER_SIZE /\ Whole(Len(mypipe) - BUFFER_SIZE)
      BY WholeStep, EmptySeq DEF TypeOK, Lengths, ChildCopies
<1>2. /\ readBuf' \in Buffers /\ readBuf' \in Seq(Bytes) /\ Len(readBuf') = BUFFER_SIZE
      /\ \A k \in 1..BUFFER_SIZE : readBuf'[k] = mypipe[k]
  <2>1. \A k \in 1..BUFFER_SIZE : k <= Len(mypipe) /\ mypipe[k] \in Bytes
        BY <1>1, ElementOfSeq DEF TypeOK
  <2>2. readBuf' \in Buffers /\ \A k \in 1..BUFFER_SIZE : readBuf'[k] = mypipe[k]
        BY <2>1 DEF ChildCopies, Buffers
  <2>3. DOMAIN readBuf' = 1..BUFFER_SIZE
        BY <2>2 DEF Buffers
  <2>4. readBuf' \in Seq(Bytes)
        BY <2>2, IsASeq DEF ChildCopies, Buffers
  <2>5. QED
        BY <2>2, <2>3, <2>4, LenProperties
<1>3. /\ mypipe' \in Seq(Bytes) /\ Len(mypipe') = Len(mypipe) - BUFFER_SIZE
      /\ \A k \in 1..Len(mypipe') : mypipe'[k] = mypipe[BUFFER_SIZE + k]
  <2>1. CASE Len(mypipe) = BUFFER_SIZE
        BY <2>1 DEF ChildCopies, TypeOK
  <2>2. CASE Len(mypipe) > BUFFER_SIZE
    <3>1. mypipe' = SubSeq(mypipe, BUFFER_SIZE + 1, Len(mypipe))
          BY <2>2 DEF ChildCopies, TypeOK
    <3>2. \A k \in BUFFER_SIZE + 1..Len(mypipe) : mypipe[k] \in Bytes
          BY ElementOfSeq DEF TypeOK
    <3>3. /\ mypipe' \in Seq(Bytes) /\ Len(mypipe') = Len(mypipe) - (BUFFER_SIZE + 1) + 1
          /\ \A k \in 1..Len(mypipe) - (BUFFER_SIZE + 1) + 1 : mypipe'[k] = mypipe[BUFFER_SIZE + 1 + k - 1]
          BY <2>2, <3>1, <3>2, SubSeqProperties DEF TypeOK
    <3>4. \A k \in Nat : BUFFER_SIZE + 1 + k - 1 = BUFFER_SIZE + k
          OBVIOUS
    <3>5. QED
          BY <3>3, <3>4 DEF TypeOK
  <2>3. QED
        BY <1>1, <2>1, <2>2 DEF TypeOK
<1>4. /\ dest' \in Seq(Bytes) /\ Len(dest') = Len(dest) + BUFFER_SIZE
      /\ \A k \in 1..Len(dest) + BUFFER_SIZE :
            dest'[k] = IF k <= Len(dest) THEN dest[k] ELSE readBuf'[k - Len(dest)]
      BY <1>2, ConcatProperties DEF ChildCopies, TypeOK
<1>5. TypeOK'
      BY <1>2, <1>3, <1>4 DEF TypeOK, ChildCopies
<1>6. Lengths'
  <2>1. Whole(Len(mypipe))'
        BY <1>1, <1>3 DEF Whole
  <2>2. writeBuf' = writeBuf /\ parent' = parent /\ offset' = offset
        BY DEF ChildCopies
  <2>3. Len(writeBuf') = IF parent' \in {"write", "dead"} THEN BUFFER_SIZE ELSE 0
        BY <2>2 DEF Lengths
  <2>4. offset' = Len(dest') + Len(mypipe') + Len(writeBuf')
    <3>1. Len(dest) \in Nat /\ Len(mypipe) \in Nat /\ Len(writeBuf) \in Nat
          BY LenProperties DEF TypeOK
    <3>2. offset = Len(dest) + Len(mypipe) + Len(writeBuf)
          BY DEF Lengths
    <3>3. QED
          BY <1>3, <1>4, <2>2, <3>1, <3>2
  <2>5. QED
        BY <2>1, <2>2, <2>3, <2>4 DEF Lengths
<1>7. Text'
  <2>1. ASSUME NEW k \in 1..Len(dest') PROVE dest'[k] = Padded(k)
    <3>1. CASE k <= Len(dest)
      <4>1. k \in 1..Len(dest) /\ k \in 1..Len(dest) + BUFFER_SIZE
            BY <1>4, <3>1 DEF TypeOK
      <4>2. dest'[k] = dest[k]
            BY <1>4, <3>1, <4>1
      <4>3. dest[k] = Padded(k)
            BY <4>1 DEF Text
      <4>4. QED
            BY <4>2, <4>3
    <3>2. CASE k > Len(dest)
      <4>1. k - Len(dest) \in 1..BUFFER_SIZE
            BY <1>4, <3>2 DEF TypeOK
      <4>2. dest'[k] = mypipe[k - Len(dest)]
            BY <1>2, <1>4, <3>2, <4>1
      <4>3. mypipe[k - Len(dest)] = Padded(Len(dest) + (k - Len(dest)))
            BY <1>1, <4>1, SMTT(30) DEF Text, TypeOK
      <4>4. Len(dest) + (k - Len(dest)) = k
            BY DEF TypeOK
      <4>5. QED
            BY <4>2, <4>3, <4>4
    <3>3. QED
          BY <1>4, <3>1, <3>2 DEF TypeOK
  <2>2. ASSUME NEW k \in 1..Len(mypipe') PROVE mypipe'[k] = Padded(Len(dest') + k)
    <3>1. BUFFER_SIZE + k \in 1..Len(mypipe)
          BY <1>3 DEF TypeOK
    <3>2. mypipe[BUFFER_SIZE + k] = Padded(Len(dest) + (BUFFER_SIZE + k))
          BY <3>1 DEF Text
    <3>3. Len(dest) + (BUFFER_SIZE + k) = Len(dest') + k
          BY <1>4 DEF TypeOK
    <3>4. QED
          BY <1>3, <3>2, <3>3
  <2>3. Len(dest') + Len(mypipe') = Len(dest) + Len(mypipe)
        BY <1>3, <1>4 DEF TypeOK
  <2>4. QED
        BY <2>1, <2>2, <2>3, ZenonT(30) DEF ChildCopies, Text
<1>8. Ends'
      BY DEF Ends, ChildCopies
<1>9. QED
      BY <1>5, <1>6, <1>7, <1>8

(* Closing, ending and breaking move no byte. *)
LEMMA OthersCopyInv ==
    ASSUME SmallBuffer, CopyInv,
           ParentBreaks \/ ParentCloses \/ ParentReturns \/ ChildOpens \/ ChildEnds
    PROVE  CopyInv'
<1> USE DEF SmallBuffer, CopyAssumption, CopyInv, TypeOK, Lengths, Text, Ends, Whole
<1>1. CASE ParentBreaks
      BY <1>1 DEF ParentBreaks
<1>2. CASE ParentCloses
      BY <1>2, SMTT(30) DEF ParentCloses, Unread
<1>3. CASE ParentReturns
      BY <1>3 DEF ParentReturns
<1>4. CASE ChildOpens
      BY <1>4 DEF ChildOpens
<1>5. CASE ChildEnds
      BY <1>5 DEF ChildEnds
<1>6. QED
      BY <1>1, <1>2, <1>3, <1>4, <1>5

(* CopyInv is inductive. *)
LEMMA NextCopyInv == ASSUME SmallBuffer, CopyInv, [Next]_vars PROVE CopyInv'
<1>1. CASE Next
      BY <1>1, ParentReadsCopyInv, ParentWritesCopyInv, ChildCopiesCopyInv, OthersCopyInv
         DEF Next, Parent, Child
<1>2. CASE UNCHANGED vars
      BY <1>2 DEF vars, CopyInv, TypeOK, Lengths, Text, Ends, Whole
<1>3. QED
      BY <1>1, <1>2

(* What the invariant says of the destination. *)
LEMMA CopyInvSuffices == ASSUME SmallBuffer, CopyInv PROVE CopyIsPadded
BY DEF SmallBuffer, CopyAssumption, CopyInv, TypeOK, Lengths, Text, Ends, CopyIsPadded

(* With a buffer of 1 to PIPE_BUF bytes the copy is the source, padded with zeros to a      *)
(* whole number of buffers, for every source and every capacity of the pipe (Copy.c 77-104). *)
THEOREM CopyOfSmallBuffers == ASSUME SmallBuffer PROVE Spec => []CopyIsPadded
<1>1. Init => CopyInv
      BY InitCopyInv
<1>2. CopyInv /\ [Next]_vars => CopyInv'
      BY NextCopyInv
<1>3. CopyInv => CopyIsPadded
      BY CopyInvSuffices
<1>4. QED
      BY <1>1, <1>2, <1>3, PTL DEF Spec

----------------------------------------------------------------------------
(* Any buffer *)

\* The buffer is as long as it was allocated, and the destination made of such buffers.
BufferInv == /\ readBuf \in Buffers /\ dest \in Seq(Bytes)
             /\ Whole(Len(dest))
             /\ mypipe \in Seq(Bytes) /\ writeBuf \in Seq(Bytes) /\ offset \in Nat

(* Only ChildCopies writes the destination, one buffer at a time. *)
LEMMA NextBufferInv == ASSUME CopyAssumption, BufferInv, [Next]_vars PROVE BufferInv'
<1> USE DEF CopyAssumption
<1>1. CASE ParentReads
  <2>1. \A k \in 1..BUFFER_SIZE : Padded(offset + k) \in Bytes
        BY PaddedType DEF BufferInv
  <2>2. writeBuf' \in Seq(Bytes)
        BY <1>1, <2>1, IsASeq DEF ParentReads
  <2>3. Whole(Len(dest))'
        BY <1>1 DEF ParentReads, BufferInv, Whole
  <2>4. QED
        BY <1>1, <2>2, <2>3 DEF ParentReads, BufferInv
<1>2. CASE ParentWrites
  <2>1. PICK n \in 1..Len(writeBuf) : /\ mypipe' = mypipe \o SubSeq(writeBuf, 1, n)
                                      /\ writeBuf' = SubSeq(writeBuf, n + 1, Len(writeBuf))
        BY <1>2 DEF ParentWrites
  <2>2. \A k \in 1..Len(writeBuf) : writeBuf[k] \in Bytes
        BY ElementOfSeq DEF BufferInv
  <2>3. n \in Nat /\ Len(writeBuf) \in Nat /\ n <= Len(writeBuf)
        BY DEF BufferInv
  <2>4. \A k \in 1..n : writeBuf[k] \in Bytes
        BY <2>2, <2>3
  <2>5. \A k \in n + 1..Len(writeBuf) : writeBuf[k] \in Bytes
        BY <2>2, <2>3
  <2>6. SubSeq(writeBuf, 1, n) \in Seq(Bytes)
        BY <2>3, <2>4, SubSeqProperties
  <2>7. writeBuf' \in Seq(Bytes)
        BY <2>1, <2>3, <2>5, SubSeqProperties
  <2>8. mypipe' \in Seq(Bytes)
        BY <2>1, <2>6, ConcatProperties DEF BufferInv
  <2>9. QED
        BY <1>2, <2>7, <2>8 DEF ParentWrites, BufferInv, Whole
<1>3. CASE ChildCopies
  <2>1. \A k \in 1..Len(mypipe) : mypipe[k] \in Bytes
        BY ElementOfSeq DEF BufferInv
  <2>2. readBuf' \in Buffers
        BY <1>3, <2>1 DEF ChildCopies, BufferInv, Buffers
  <2>3. readBuf' \in Seq(Bytes) /\ Len(readBuf') = BUFFER_SIZE
    <3>1. readBuf' \in Seq(Bytes)
          BY <1>3, <2>2, IsASeq DEF ChildCopies, Buffers
    <3>2. DOMAIN readBuf' = 1..BUFFER_SIZE
          BY <2>2 DEF Buffers
    <3>3. QED
          BY <3>1, <3>2, LenProperties
  <2>4. dest' \in Seq(Bytes) /\ Len(dest') = Len(dest) + BUFFER_SIZE
        BY <1>3, <2>3, ConcatProperties DEF ChildCopies, BufferInv
  <2>5. Whole(Len(dest'))
        BY <1>3, <2>4, WholeStep DEF ChildCopies, BufferInv
  <2>6. mypipe' \in Seq(Bytes)
    <3>1. CASE Len(mypipe) <= BUFFER_SIZE
          BY <1>3, <3>1 DEF ChildCopies
    <3>2. CASE ~(Len(mypipe) <= BUFFER_SIZE)
      <4>1. \A k \in BUFFER_SIZE + 1..Len(mypipe) : mypipe[k] \in Bytes
            BY <2>1
      <4>2. SubSeq(mypipe, BUFFER_SIZE + 1, Len(mypipe)) \in Seq(Bytes)
            BY <4>1, SubSeqProperties DEF BufferInv
      <4>3. QED
            BY <1>3, <3>2, <4>2 DEF ChildCopies
    <3>3. QED
          BY <3>1, <3>2
  <2>7. QED
        BY <1>3, <2>2, <2>4, <2>5, <2>6 DEF ChildCopies, BufferInv, Whole
<1>4. CASE \/ ParentBreaks \/ ParentCloses \/ ParentReturns \/ ChildOpens \/ ChildEnds
           \/ UNCHANGED vars
      BY <1>4 DEF ParentBreaks, ParentCloses, ParentReturns, ChildOpens, ChildEnds, vars,
                  BufferInv, Whole
<1>5. QED
      BY <1>1, <1>2, <1>3, <1>4 DEF Next, Parent, Child

(* The destination is made of whole buffers, whatever the reads return: a source whose      *)
(* length is not a multiple of the buffer is never copied exactly (Copy.c 78-80).           *)
THEOREM CopyInWholeBuffers == ASSUME CopyAssumption PROVE Spec => []WholeBuffers
<1>1. Init => BufferInv
      BY DEF CopyAssumption, Init, BufferInv, Whole
<1>2. BufferInv /\ [Next]_vars => BufferInv'
      BY NextBufferInv
<1>3. BufferInv => WholeBuffers
      BY DEF BufferInv, Whole, WholeBuffers
<1>4. QED
      BY <1>1, <1>2, <1>3, PTL DEF Spec
=============================================================================
