------------------------------ MODULE ByteQueue ------------------------------
(***************************************************************************)
(* What base::FixedBuffer promises its users: a FIFO of bytes of bounded   *)
(* length.  A string is appended whole or not at all, bytes leave in the   *)
(* order they came, and where they are in memory cannot be seen.           *)
(***************************************************************************)
EXTENDS Naturals, Sequences

CONSTANTS Bytes, Capacity

VARIABLE contents

ByteQueueInit == contents = <<>>

Enqueue(s) ==
    /\ Len(contents) + Len(s) <= Capacity
    /\ contents' = contents \o s

Dequeue(n) ==
    /\ n <= Len(contents)
    /\ contents' = SubSeq(contents, n + 1, Len(contents))

ByteQueueNext ==
    \E n \in 0..Capacity : Dequeue(n) \/ \E s \in [1..n -> Bytes] : Enqueue(s)

ByteQueueSpec == ByteQueueInit /\ [][ByteQueueNext]_contents
=============================================================================
