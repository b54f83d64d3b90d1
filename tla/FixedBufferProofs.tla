-------------------------- MODULE FixedBufferProofs --------------------------
(***************************************************************************)
(* Theorems about FixedBuffer, for any size of the buffer and any bytes.   *)
(***************************************************************************)
EXTENDS FixedBuffer, SequenceTheorems, TLAPS

USE BufferAssumption DEF BufferAssumption

BufferInv == BufferTypeOK /\ PointerOrder

\* A new buffer has its pointers in order.
LEMMA BufferInvInit == BufferInit => BufferInv
BY DEF BufferInit, BufferInv, BufferTypeOK, PointerOrder

\* Copying a string into the memory leaves it a memory.
LEMMA WrittenType ==
    ASSUME NEW m \in [Addresses -> Bytes], NEW a \in Nat, NEW n \in Nat, NEW s \in [1..n -> Bytes]
    PROVE  /\ Written(m, a, s) \in [Addresses -> Bytes]
           /\ \A i \in Addresses : Written(m, a, s)[i] =
                  IF i \in a..(a + n - 1) THEN s[i - a + 1] ELSE m[i]
<1>1. Len(s) = n
  OBVIOUS
<1>2. \A i \in Addresses : i \in a..(a + n - 1) => s[i - a + 1] \in Bytes
  BY DEF Addresses
<1> QED
  BY <1>1, <1>2 DEF Written

\* Compaction leaves a memory with the bytes in use in front.
LEMMA MovedType ==
    ASSUME BufferInv
    PROVE  /\ Moved \in [Addresses -> Bytes]
           /\ used \in Nat /\ used <= kBufferSize
           /\ \A i \in Addresses : i < used =>
                 mReadPtr + i \in Addresses /\ Moved[i] = mem[mReadPtr + i]
BY DEF BufferInv, BufferTypeOK, PointerOrder, Moved, used, Addresses

\* Every operation keeps the pointers in order.
LEMMA BufferInvStep == BufferInv /\ [BufferNext]_bufferVars => BufferInv'
<1> SUFFICES ASSUME BufferInv, [BufferNext]_bufferVars PROVE BufferInv'
  OBVIOUS
<1> USE DEF BufferInv, BufferTypeOK, PointerOrder, used, avail, room
<1>1. ASSUME NEW n \in 0..kBufferSize, n <= used, readPtrMove(n) PROVE BufferInv'
  BY <1>1 DEF readPtrMove
<1>2. ASSUME NEW n \in 0..kBufferSize, NEW s \in [1..n -> Bytes], append(s) PROVE BufferInv'
  BY <1>2, WrittenType, MovedType DEF append
<1>3. ASSUME NEW n \in 0..kBufferSize, NEW s \in [1..n -> Bytes], appendRefused(s)
      PROVE  BufferInv'
  BY <1>3 DEF appendRefused, bufferVars
<1>4. ASSUME NEW n \in 0..kBufferSize, NEW s \in [1..n -> Bytes], Fill(s) PROVE BufferInv'
  BY <1>4, WrittenType DEF Fill
<1>5. CASE MakeRoom
  BY <1>5, MovedType DEF MakeRoom
<1>6. CASE reset
  BY <1>6 DEF reset
<1>7. CASE clear
  BY <1>7 DEF clear
<1>8. ASSUME NEW n \in 0..kBufferSize, mReadPtr = 0, add(n) PROVE BufferInv'
  BY <1>8 DEF add
<1>9. CASE Copy
  BY <1>9 DEF Copy
<1>10. CASE UNCHANGED bufferVars
  BY <1>10 DEF bufferVars
<1> QED
  BY <1>1, <1>2, <1>3, <1>4, <1>5, <1>6, <1>7, <1>8, <1>9, <1>10 DEF BufferNext

\* The pointers stay in order and inside the block of memory.
THEOREM PointersInOrder == BufferSpec => []PointerOrder
<1>1. BufferSpec => []BufferInv
  BY BufferInvInit, BufferInvStep, PTL DEF BufferSpec
<1> QED
  BY <1>1, PTL DEF BufferInv

-----------------------------------------------------------------------------
ContentsOK ==
    /\ used \in 0..kBufferSize
    /\ Contents \in [1..used -> Bytes]
    /\ Contents \in Seq(Bytes)
    /\ Len(Contents) = used

\* What is in the buffer is a sequence of `used' bytes.
LEMMA ContentsType == BufferInv => ContentsOK
<1> SUFFICES ASSUME BufferInv PROVE ContentsOK
  OBVIOUS
<1> USE DEF BufferInv, BufferTypeOK, PointerOrder, used
<1>1. used \in 0..kBufferSize
  OBVIOUS
<1>2. \A i \in 1..used : mReadPtr + i - 1 \in Addresses
  BY DEF Addresses
<1>3. Contents \in [1..used -> Bytes]
  BY <1>2 DEF Contents
<1> HIDE DEF used
<1> QED
  BY <1>1, <1>3 DEF ContentsOK

\* Bytes written behind the contents are appended to them, if the contents are
\* otherwise where they were or have been moved.
LEMMA Appended ==
    ASSUME BufferInv, BufferInv', NEW n \in 0..kBufferSize, NEW s \in [1..n -> Bytes],
           used' = used + n,
           \A i \in 1..used : mem'[mReadPtr' + i - 1] = mem[mReadPtr + i - 1],
           \A i \in 1..n : mem'[mReadPtr' + used + i - 1] = s[i]
    PROVE  Contents' = Contents \o s
<1>C. ContentsOK'
  BY ContentsType, PTL
<1>1. /\ used \in Nat /\ mReadPtr' \in Nat
      /\ Contents \in Seq(Bytes) /\ Len(Contents) = used
      /\ s \in Seq(Bytes) /\ Len(s) = n
  BY ContentsType DEF ContentsOK, BufferInv, BufferTypeOK
<1>2. /\ Contents \o s \in Seq(Bytes)
      /\ Len(Contents \o s) = used + n
      /\ \A i \in 1..(used + n) :
            (Contents \o s)[i] = IF i <= used THEN Contents[i] ELSE s[i - used]
  <2>1. /\ Contents \o s \in Seq(Bytes)
        /\ Len(Contents \o s) = Len(Contents) + Len(s)
        /\ \A i \in 1..(Len(Contents) + Len(s)) : (Contents \o s)[i] =
               IF i <= Len(Contents) THEN Contents[i] ELSE s[i - Len(Contents)]
    BY <1>1, ConcatProperties, Zenon
  <2> QED
    BY <2>1, <1>1
<1>3. Contents' \in Seq(Bytes) /\ Len(Contents') = used + n
  BY <1>C DEF ContentsOK
<1>4. ASSUME NEW i \in 1..(used + n) PROVE Contents'[i] = (Contents \o s)[i]
  <2>1. Contents'[i] = mem'[mReadPtr' + i - 1]
    BY DEF Contents
  <2>2. CASE i <= used
    BY <2>1, <2>2, <1>1, <1>2 DEF Contents
  <2>3. CASE ~(i <= used)
    <3>1. PICK k \in 1..n : i = used + k
      BY <2>3, <1>1
    <3>2. mReadPtr' + used + k - 1 = mReadPtr' + i - 1 /\ i - used = k
      BY <3>1, <1>1
    <3> QED
      BY <2>1, <2>3, <3>2, <1>1, <1>2
  <2> QED
    BY <2>2, <2>3
<1> QED
  BY <1>2, <1>3, <1>4, SeqEqual

\* Moving mReadPtr by n takes the first n bytes out.
LEMMA Removed ==
    ASSUME BufferInv, BufferInv', NEW n \in 0..kBufferSize, n <= used, readPtrMove(n)
    PROVE  Contents' = SubSeq(Contents, n + 1, Len(Contents))
<1>C. ContentsOK'
  BY ContentsType, PTL
<1>1. /\ used \in Nat /\ mReadPtr \in Nat /\ mReadPtr' = mReadPtr + n /\ mem' = mem
      /\ used' = used - n /\ n <= used
      /\ Contents \in Seq(Bytes) /\ Len(Contents) = used
  BY ContentsType DEF ContentsOK, readPtrMove, BufferInv, BufferTypeOK, used
<1>2. \A i \in (n + 1)..used : Contents[i] \in Bytes
  BY <1>1, ElementOfSeq
<1>3. /\ SubSeq(Contents, n + 1, used) \in Seq(Bytes)
      /\ Len(SubSeq(Contents, n + 1, used)) = used - n
      /\ \A i \in 1..(used - n) : SubSeq(Contents, n + 1, used)[i] = Contents[n + i]
  BY <1>1, <1>2, SubSeqProperties
<1>4. Contents' \in Seq(Bytes) /\ Len(Contents') = used - n
  BY <1>1, <1>C DEF ContentsOK
<1>5. ASSUME NEW i \in 1..(used - n)
      PROVE  Contents'[i] = SubSeq(Contents, n + 1, used)[i]
  <2>1. n + i \in 1..used /\ mReadPtr + (n + i) - 1 = mReadPtr' + i - 1
    BY <1>1
  <2>2. Contents[n + i] = mem[mReadPtr + (n + i) - 1]
    BY <2>1 DEF Contents
  <2>3. Contents'[i] = mem'[mReadPtr' + i - 1]
    BY <1>1 DEF Contents
  <2> QED
    BY <1>1, <1>3, <2>1, <2>2, <2>3
<1> QED
  BY <1>1, <1>3, <1>4, <1>5, SeqEqual

\* An empty buffer after the step: all bytes are out.
LEMMA Emptied ==
    ASSUME BufferInv, mReadPtr' = mWritePtr', mReadPtr' \in Nat
    PROVE  Contents' = SubSeq(Contents, used + 1, Len(Contents))
<1>1. used \in Nat /\ Len(Contents) = used
  BY ContentsType DEF ContentsOK
<1>2. SubSeq(Contents, used + 1, used) = <<>>
  BY <1>1, SubSeqEmpty
<1>3. used' = 0
  <2>1. \A k \in Nat : k - k = 0
    OBVIOUS
  <2> QED
    BY <2>1 DEF used
<1>4. Contents' = <<>>
  BY <1>3 DEF Contents
<1> QED
  BY <1>1, <1>2, <1>4

\* Compacting the buffer changes nothing that can be seen.
LEMMA Compacted ==
    ASSUME BufferInv, BufferInv', mem' = Moved, mReadPtr' = 0, mWritePtr' = used
    PROVE  Contents' = Contents
<1>C. ContentsOK'
  BY ContentsType, PTL
<1>1. /\ used \in Nat /\ used' = used
      /\ Contents \in Seq(Bytes) /\ Len(Contents) = used
      /\ Contents' \in Seq(Bytes) /\ Len(Contents') = used
  <2>1. used \in Nat /\ used' = used
    BY ContentsType DEF ContentsOK, used
  <2> QED
    BY <2>1, ContentsType, <1>C DEF ContentsOK
<1>2. ASSUME NEW i \in 1..used PROVE Contents'[i] = Contents[i]
  <2>1. i - 1 \in Addresses /\ i - 1 < used
    BY <1>1, ContentsType DEF ContentsOK, Addresses
  <2>2. Moved[i - 1] = mem[mReadPtr + (i - 1)] /\ mReadPtr \in Nat
    BY <2>1, MovedType DEF BufferInv, BufferTypeOK
  <2>3. Contents[i] = mem[mReadPtr + i - 1] /\ Contents'[i] = mem'[0 + i - 1]
    BY <1>1 DEF Contents
  <2>4. 0 + i - 1 = i - 1 /\ mReadPtr + (i - 1) = mReadPtr + i - 1
    BY <1>1, <2>2
  <2> QED
    BY <2>2, <2>3, <2>4
<1> QED
  BY <1>1, <1>2, SeqEqual

\* recv appends what it writes behind mWritePtr.
LEMMA FillAppends ==
    ASSUME BufferInv, BufferInv', NEW n \in 0..kBufferSize, NEW s \in [1..n -> Bytes], Fill(s)
    PROVE  Contents' = Contents \o s /\ used + n <= kBufferSize
<1> USE DEF BufferInv, BufferTypeOK, PointerOrder
<1>1. /\ mem' = Written(mem, mWritePtr, s) /\ mReadPtr' = mReadPtr /\ mWritePtr' = mWritePtr + n
      /\ n <= kBufferSize - mWritePtr
  BY DEF Fill, room
<1>2. used \in Nat /\ used' = used + n /\ mReadPtr + used = mWritePtr
  BY <1>1 DEF used
<1>3. \A i \in Addresses : mem'[i] = IF i \in mWritePtr..(mWritePtr + n - 1)
                                     THEN s[i - mWritePtr + 1] ELSE mem[i]
  BY <1>1, WrittenType
<1>4. ASSUME NEW i \in 1..used PROVE mem'[mReadPtr' + i - 1] = mem[mReadPtr + i - 1]
  <2>1. mReadPtr + i - 1 \in Addresses /\ mReadPtr + i - 1 < mWritePtr
    BY <1>2 DEF Addresses
  <2> QED
    BY <2>1, <1>1, <1>3
<1>5. ASSUME NEW i \in 1..n PROVE mem'[mReadPtr' + used + i - 1] = s[i]
  <2>1. /\ mWritePtr + i - 1 \in Addresses
        /\ mWritePtr + i - 1 \in mWritePtr..(mWritePtr + n - 1)
        /\ (mWritePtr + i - 1) - mWritePtr + 1 = i
        /\ mReadPtr' + used + i - 1 = mWritePtr + i - 1
    BY <1>1, <1>2 DEF Addresses
  <2> QED
    BY <2>1, <1>3
<1> QED
  BY <1>1, <1>2, <1>4, <1>5, Appended

\* add appends what is in memory behind mWritePtr.
LEMMA AddAppends ==
    ASSUME BufferInv, BufferInv', NEW n \in 0..kBufferSize, mReadPtr = 0, add(n), n <= avail
    PROVE  \E s \in [1..n -> Bytes] : Contents' = Contents \o s /\ used + n <= kBufferSize
<1> USE DEF BufferInv, BufferTypeOK, PointerOrder
<1> DEFINE s == [i \in 1..n |-> mem[mWritePtr + i - 1]]
<1>1. /\ mem' = mem /\ mReadPtr' = mReadPtr /\ mWritePtr' = mWritePtr + n
      /\ used \in Nat /\ used' = used + n /\ mReadPtr + used = mWritePtr
      /\ used + n <= kBufferSize
  BY DEF add, avail, used
<1>2. \A i \in 1..n : mWritePtr + i - 1 \in Addresses
  BY <1>1 DEF Addresses
<1>3. s \in [1..n -> Bytes]
  BY <1>2
<1>4. \A i \in 1..used : mem'[mReadPtr' + i - 1] = mem[mReadPtr + i - 1]
  BY <1>1
<1>5. \A i \in 1..n : mem'[mReadPtr' + used + i - 1] = s[i]
  BY <1>1
<1> HIDE DEF s
<1> QED
  BY <1>1, <1>3, <1>4, <1>5, Appended

\* A copy has the same contents.
LEMMA CopyKeeps ==
    ASSUME BufferInv, Copy
    PROVE  Contents' = Contents
<1>1. used' = used
  BY DEF Copy, used
<1>2. ASSUME NEW i \in 1..used PROVE mem'[mReadPtr + i - 1] = mem[mReadPtr + i - 1]
  BY DEF Copy, used, BufferInv, BufferTypeOK, PointerOrder
<1> QED
  BY <1>1, <1>2 DEF Contents, Copy

\* append behind the contents, or behind the contents moved to the front.
LEMMA AppendAppends ==
    ASSUME BufferInv, BufferInv', NEW n \in 0..kBufferSize, NEW s \in [1..n -> Bytes], append(s)
    PROVE  Contents' = Contents \o s /\ used + n <= kBufferSize
<1>0. Len(s) = n
  OBVIOUS
<1>1. CASE room > n
  <2>1. /\ mem' = Written(mem, mWritePtr, s)
        /\ mWritePtr' = mWritePtr + Len(s)
        /\ mReadPtr' = mReadPtr
    BY <1>0, <1>1 DEF append
  <2>2. Len(s) <= room
    BY <1>0, <1>1 DEF room, BufferInv, BufferTypeOK
  <2>3. Fill(s)
    BY <2>1, <2>2 DEF Fill
  <2> QED
    BY <2>3, FillAppends
<1>2. CASE ~(room > n)
  <2> USE DEF BufferInv, BufferTypeOK, PointerOrder
  <2>1. /\ mem' = Written(Moved, used, s) /\ mReadPtr' = 0 /\ mWritePtr' = used + n
        /\ n <= kBufferSize - used
    BY <1>0, <1>2 DEF append, avail
  <2>2. used \in Nat /\ used' = used + n
    BY <2>1 DEF used
  <2>3. /\ Moved \in [Addresses -> Bytes]
        /\ \A i \in Addresses : i < used => Moved[i] = mem[mReadPtr + i]
    BY MovedType
  <2>4. \A i \in Addresses : mem'[i] = IF i \in used..(used + n - 1)
                                       THEN s[i - used + 1] ELSE Moved[i]
    BY <2>1, <2>2, <2>3, WrittenType
  <2>5. ASSUME NEW i \in 1..used PROVE mem'[mReadPtr' + i - 1] = mem[mReadPtr + i - 1]
    <3>1. i - 1 \in Addresses /\ i - 1 < used
      BY <2>1, <2>2 DEF Addresses
    <3>2. mem'[i - 1] = mem[mReadPtr + (i - 1)]
      BY <3>1, <2>2, <2>3, <2>4
    <3>3. mReadPtr' + i - 1 = i - 1 /\ mReadPtr + (i - 1) = mReadPtr + i - 1
      BY <2>1, <2>2
    <3> QED
      BY <3>2, <3>3
  <2>6. ASSUME NEW i \in 1..n PROVE mem'[mReadPtr' + used + i - 1] = s[i]
    <3>1. /\ used + i - 1 \in Addresses
          /\ used + i - 1 \in used..(used + n - 1)
          /\ (used + i - 1) - used + 1 = i
          /\ mReadPtr' + used + i - 1 = used + i - 1
      BY <2>1, <2>2 DEF Addresses
    <3> QED
      BY <3>1, <2>4
  <2> QED
    BY <2>1, <2>2, <2>5, <2>6, Appended
<1> QED
  BY <1>1, <1>2

-----------------------------------------------------------------------------
\* A new buffer is empty.
LEMMA RefinesInit == BufferInit => Queue!ByteQueueInit
BY DEF BufferInit, Queue!ByteQueueInit, Contents, used

\* Every operation of the buffer is one of the queue or changes nothing in it.
LEMMA RefinesStep ==
    ASSUME BufferInv, [BufferNext]_bufferVars
    PROVE  [Queue!ByteQueueNext]_Contents
<1>1. BufferInv'
  BY BufferInvStep
<1>2. used \in 0..kBufferSize /\ Len(Contents) = used
  BY ContentsType DEF ContentsOK
<1>3. ASSUME NEW n \in 0..kBufferSize, NEW s \in [1..n -> Bytes],
             Contents' = Contents \o s, used + n <= kBufferSize
      PROVE  Queue!ByteQueueNext
  <2>1. Len(s) = n
    OBVIOUS
  <2>2. Queue!Enqueue(s)
    BY <2>1, <1>2, <1>3 DEF Queue!Enqueue
  <2> QED
    BY <2>2 DEF Queue!ByteQueueNext
<1>4. ASSUME NEW n \in 0..kBufferSize, n <= used,
             Contents' = SubSeq(Contents, n + 1, Len(Contents))
      PROVE  Queue!ByteQueueNext
  BY <1>2, <1>4 DEF Queue!ByteQueueNext, Queue!Dequeue
<1>5. ASSUME NEW n \in 0..kBufferSize, n <= used, readPtrMove(n) PROVE Queue!ByteQueueNext
  BY <1>1, <1>4, <1>5, Removed
<1>6. ASSUME NEW n \in 0..kBufferSize, NEW s \in [1..n -> Bytes], append(s)
      PROVE  Queue!ByteQueueNext
  BY <1>1, <1>3, <1>6, AppendAppends
<1>7. ASSUME NEW n \in 0..kBufferSize, NEW s \in [1..n -> Bytes], appendRefused(s)
      PROVE  Contents' = Contents
  BY <1>7 DEF appendRefused, bufferVars, Contents, used
<1>8. ASSUME NEW n \in 0..kBufferSize, NEW s \in [1..n -> Bytes], Fill(s)
      PROVE  Queue!ByteQueueNext
  BY <1>1, <1>3, <1>8, FillAppends
<1>9. CASE MakeRoom
  BY <1>1, <1>9, Compacted DEF MakeRoom
<1>10. CASE reset
  BY <1>2, <1>4, <1>10, Emptied DEF reset
<1>11. CASE clear
  BY <1>2, <1>4, <1>11, Emptied DEF clear
<1>12. ASSUME NEW n \in 0..kBufferSize, mReadPtr = 0, add(n)
       PROVE  [Queue!ByteQueueNext]_Contents
  <2>1. CASE n <= avail
    BY <1>1, <1>3, <1>12, <2>1, AddAppends
  <2>2. CASE n > avail
    BY <1>12, <2>2 DEF add, Contents, used
  <2>3. avail \in Int
    BY DEF BufferInv, BufferTypeOK, avail, used
  <2> QED
    BY <2>1, <2>2, <2>3
<1>13. CASE Copy
  BY <1>13, CopyKeeps
<1>14. CASE UNCHANGED bufferVars
  BY <1>14 DEF bufferVars, Contents, used
<1> QED
  BY <1>5, <1>6, <1>7, <1>8, <1>9, <1>10, <1>11, <1>12, <1>13, <1>14 DEF BufferNext

\* Wherever the bytes are in memory, the buffer is a FIFO of bytes: append, the
\* moves in append and readFd, readPtrMove, add, copying, reset and clear are steps
\* of ByteQueue or change nothing in it.
THEOREM IsByteQueue == BufferSpec => ImplementsByteQueue
<1>1. BufferSpec => []BufferInv
  BY BufferInvInit, BufferInvStep, PTL DEF BufferSpec
<1> QED
  BY <1>1, RefinesInit, RefinesStep, PTL
     DEF BufferSpec, ImplementsByteQueue, Queue!ByteQueueSpec
=============================================================================
