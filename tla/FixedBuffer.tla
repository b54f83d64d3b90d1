----------------------------- MODULE FixedBuffer -----------------------------
(***************************************************************************)
(* base::FixedBuffer (base/Buffer.cpp, base/Buffer.h): a block of memory   *)
(* with a read and a write pointer.  When the room after the write pointer *)
(* does not do, what is in use is first moved to the front.                *)
(*                                                                         *)
(* Pointers are offsets from _buf.  The memcpy that moves the bytes may    *)
(* have overlapping operands; it is taken to copy them as memmove does,    *)
(* which is what the C library the server is built with (glibc on x86-64)  *)
(* does.                                                                   *)
(***************************************************************************)
EXTENDS Naturals, Sequences

CONSTANTS kBufferSize,
          Bytes,
          Nul        \* '\0'

ASSUME BufferAssumption == kBufferSize \in Nat \ {0} /\ Nul \in Bytes

VARIABLES mem,       \* the memory at _buf
          mReadPtr,
          mWritePtr

bufferVars == <<mem, mReadPtr, mWritePtr>>

Addresses == 0..(kBufferSize - 1)

BufferTypeOK ==
    /\ mem \in [Addresses -> Bytes]
    /\ mReadPtr \in Nat
    /\ mWritePtr \in Nat

\* The memory is not initialised.
BufferInit ==
    /\ mem \in [Addresses -> Bytes]
    /\ mReadPtr = 0
    /\ mWritePtr = 0

used == mWritePtr - mReadPtr

avail == kBufferSize - used

\* _end - mWritePtr.  (Mutant: avail, the free bytes of the whole block.)
room == kBufferSize - mWritePtr

\* The memory m after s has been copied to address a.
Written(m, a, s) ==
    [i \in Addresses |-> IF i \in a..(a + Len(s) - 1) THEN s[i - a + 1] ELSE m[i]]

\* Mutant: the bytes stay where they are.
Unmoved == mem

\* The memory after the bytes in use have been moved to _buf.
Moved == [i \in Addresses |-> IF i < used THEN mem[mReadPtr + i] ELSE mem[i]]

\* append of a string that fits.
append(s) ==
    IF room > Len(s)
    THEN /\ mem' = Written(mem, mWritePtr, s)
         /\ mWritePtr' = mWritePtr + Len(s)
         /\ UNCHANGED mReadPtr
    ELSE /\ avail >= Len(s)
         /\ mem' = Written(Moved, used, s)
         /\ mReadPtr' = 0
         /\ mWritePtr' = used + Len(s)

\* append of a string that does not: nothing is copied, 0 is returned.
appendRefused(s) ==
    /\ room <= Len(s) /\ avail < Len(s)
    /\ UNCHANGED bufferVars

\* readPtrMove moves before it looks: a move out of bounds is reported, not undone.
readPtrMove(n) ==
    /\ mReadPtr' = mReadPtr + n
    /\ UNCHANGED <<mem, mWritePtr>>

\* add, after bytes have been written at writePtr(): refused with -1 if they are
\* more than avail, which is not what is left after mWritePtr.
add(n) ==
    /\ mWritePtr' = IF n > avail THEN mWritePtr ELSE mWritePtr + n
    /\ UNCHANGED <<mem, mReadPtr>>

\* The copy constructor and operator=: a new block with the bytes in use at the
\* same offsets, the rest not initialised.
Copy ==
    /\ mem' \in {m \in [Addresses -> Bytes] :
                   \A i \in mReadPtr..(mWritePtr - 1) : m[i] = mem[i]}
    /\ UNCHANGED <<mReadPtr, mWritePtr>>

reset ==
    /\ mReadPtr' = 0
    /\ mWritePtr' = 0
    /\ UNCHANGED mem

clear ==
    /\ mem' = [i \in Addresses |-> Nul]
    /\ mReadPtr' = 0
    /\ mWritePtr' = 0

\* In readFd: there is room, but none after mWritePtr.
MakeRoom ==
    /\ room = 0 /\ avail > 0
    /\ mem' = Moved
    /\ mReadPtr' = 0
    /\ mWritePtr' = used

\* In readFd: recv has written the bytes s at mWritePtr.
Fill(s) ==
    /\ Len(s) <= room
    /\ mem' = Written(mem, mWritePtr, s)
    /\ mWritePtr' = mWritePtr + Len(s)
    /\ UNCHANGED mReadPtr

\* The callers of the repository move mReadPtr inside the bytes in use, and add
\* (LogStream does) only to a buffer they have never read from.
BufferNext ==
    \/ \E n \in 0..kBufferSize :
          \/ n <= used /\ readPtrMove(n)
          \/ mReadPtr = 0 /\ add(n)
          \/ \E s \in [1..n -> Bytes] : append(s) \/ appendRefused(s) \/ Fill(s)
    \/ MakeRoom \/ Copy \/ reset \/ clear

BufferSpec == BufferInit /\ [][BufferNext]_bufferVars

-----------------------------------------------------------------------------
\* The invariant the class states of its pointers (Buffer.h:97).
PointerOrder == mReadPtr <= mWritePtr /\ mWritePtr <= kBufferSize

\* The bytes in use, from readPtr() on.
Contents == [i \in 1..used |-> mem[mReadPtr + i - 1]]

\* Whatever moves in memory, the buffer is a FIFO of at most kBufferSize bytes.
Queue == INSTANCE ByteQueue WITH Capacity <- kBufferSize, contents <- Contents

ImplementsByteQueue == Queue!ByteQueueSpec
=============================================================================
