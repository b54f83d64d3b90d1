-------------------------- MODULE ConnectionProofs --------------------------
(***************************************************************************)
(* Theorems about Connection, for any size of its buffers and of the       *)
(* kernel's, and any number of bytes.                                      *)
(*                                                                         *)
(* The bytes on their way are numbered without a gap wherever they are, so *)
(* the invariant says of each place -- the kernel's queues, the two        *)
(* buffers, the file -- that what is there are consecutive numbers (a run) *)
(* and with which number it begins.                                        *)
(***************************************************************************)
EXTENDS Connection, SequenceTheorems, TLAPS

\* The sequence s is a run: i + 1, i + 2, and so on.
IsRun(s, i) == s \in Seq(Nat) /\ \A k \in 1..Len(s) : s[k] = i + k

\* So are the bytes of m from address r up to address w.
HoldsRun(m, r, w, i) == \A a \in r..(w - 1) : m[a] = i + 1 + (a - r)

\* What the peer has sent and the callbacks have not taken.
Input ==
    /\ HoldsRun(rMem, rRead, rWrite, taken)
    /\ IsRun(kin, taken + In!used)
    /\ IF peer = "reset"
       THEN kin = <<>> /\ taken + In!used <= sent
       ELSE taken + In!used + Len(kin) = sent

\* Nothing that was handed over to be sent has been thrown away.
Sending == peer # "reset" /\ mapped /\ ~(Closed /\ kin # <<>>)

\* What has been handed over to be sent.
Output ==
    /\ delivered \in Seq(Nat)
    /\ IF Sending
       THEN /\ IsRun(delivered, 0)
            /\ IsRun(kout, Len(delivered))
            /\ HoldsRun(wMem, wRead, wWrite, Len(delivered) + Len(kout))
            /\ iov_len > 0 => iov_base = Len(delivered) + Len(kout) + Out!used + 1
            /\ Len(delivered) + Len(kout) + pending = queued
       ELSE kout \in Seq(Nat) /\ Len(delivered) + Len(kout) <= queued

\* readFd is called when something has arrived, and so does not find the socket
\* empty before its first byte.  A hangup is reported of a peer that is gone.
SomethingThere ==
    /\ pc = "readFd" => last_used <= In!used
    /\ pc \in {"called", "recv"} \/ (pc = "readFd" /\ last_used = In!used) =>
           peer # "open" \/ kin # <<>>
    /\ pc = "hangup" => peer # "open"

\* After a file that is not mapped the connection has nothing to do but to close.
LastAnswer ==
    ~mapped => pc \in {"out", "writable", "hangup", "send", "close", "closed"}

\* The inductive invariant.
ConnectionInv ==
    /\ TypeOK /\ Input /\ Output
    /\ ReturnsPending /\ SomethingThere /\ LastAnswer /\ ClosedOnlyWhenDue

-----------------------------------------------------------------------------
(* Runs.                                                                     *)

LEMMA EmptyRun == ASSUME NEW i \in Int PROVE IsRun(<<>>, i)
BY DEF IsRun

\* The next numbers behind a run make a run.
LEMMA RunConcat ==
    ASSUME NEW i \in Int, NEW s, NEW t, IsRun(s, i), IsRun(t, i + Len(s))
    PROVE  IsRun(s \o t, i) /\ Len(s \o t) = Len(s) + Len(t)
<1>0. s \in Seq(Nat) /\ t \in Seq(Nat) /\ Len(s) \in Nat /\ Len(t) \in Nat
  BY DEF IsRun
<1>1. /\ s \o t \in Seq(Nat)
      /\ Len(s \o t) = Len(s) + Len(t)
      /\ \A k \in 1..(Len(s) + Len(t)) :
            (s \o t)[k] = IF k <= Len(s) THEN s[k] ELSE t[k - Len(s)]
  BY <1>0, ConcatProperties, Zenon
<1>2. ASSUME NEW k \in 1..(Len(s) + Len(t)) PROVE (s \o t)[k] = i + k
  <2>1. CASE k <= Len(s)
    BY <2>1, <1>0, <1>1 DEF IsRun
  <2>2. CASE ~(k <= Len(s))
    <3>1. k - Len(s) \in 1..Len(t) /\ i + Len(s) + (k - Len(s)) = i + k
      BY <2>2, <1>0
    <3>2. t[k - Len(s)] = i + Len(s) + (k - Len(s))
      BY <3>1 DEF IsRun
    <3> QED
      BY <2>2, <3>1, <3>2, <1>1
  <2> QED
    BY <2>1, <2>2
<1> QED
  BY <1>1, <1>2 DEF IsRun

\* A run is cut into two.
LEMMA RunCut ==
    ASSUME NEW i \in Int, NEW s, IsRun(s, i), NEW n \in 0..Len(s)
    PROVE  /\ IsRun(SubSeq(s, 1, n), i) /\ Len(SubSeq(s, 1, n)) = n
           /\ IsRun(SubSeq(s, n + 1, Len(s)), i + n)
           /\ Len(SubSeq(s, n + 1, Len(s))) = Len(s) - n
<1>0. s \in Seq(Nat) /\ Len(s) \in Nat /\ n \in Nat /\ n <= Len(s)
  BY DEF IsRun
<1>a. \A k \in 1..n : k \in 1..Len(s)
  BY <1>0
<1>b. \A k \in (n + 1)..Len(s) : k \in 1..Len(s)
  BY <1>0
<1>1. /\ SubSeq(s, 1, n) \in Seq(Nat) /\ Len(SubSeq(s, 1, n)) = n
      /\ \A k \in 1..n : SubSeq(s, 1, n)[k] = s[k]
  BY <1>0, <1>a
<1>2. /\ SubSeq(s, n + 1, Len(s)) \in Seq(Nat) /\ Len(SubSeq(s, n + 1, Len(s))) = Len(s) - n
      /\ \A k \in 1..(Len(s) - n) : SubSeq(s, n + 1, Len(s))[k] = s[n + k]
  BY <1>0, <1>b
<1>3. \A k \in 1..(Len(s) - n) : s[n + k] = i + n + k
  BY <1>0 DEF IsRun
<1> QED
  BY <1>0, <1>1, <1>2, <1>3, <1>a DEF IsRun

\* The numbers from i + 1 to i + n.
LEMMA StreamIsRun ==
    ASSUME NEW i \in Nat, NEW n \in Nat
    PROVE  IsRun(Stream(i + 1, i + n), i) /\ Len(Stream(i + 1, i + n)) = n
<1>1. i + n - (i + 1) + 1 = n
  OBVIOUS
<1>2. Stream(i + 1, i + n) = [k \in 1..n |-> i + 1 + k - 1]
  BY <1>1 DEF Stream
<1> QED
  BY <1>2 DEF IsRun

\* A run is what Stream makes of its first and last number.
LEMMA RunIsStream ==
    ASSUME NEW i \in Nat, NEW s, IsRun(s, i)
    PROVE  s = Stream(i + 1, i + Len(s))
<1>0. s \in Seq(Nat) /\ Len(s) \in Nat
  BY DEF IsRun
<1>1. IsRun(Stream(i + 1, i + Len(s)), i) /\ Len(Stream(i + 1, i + Len(s))) = Len(s)
  BY <1>0, StreamIsRun
<1> DEFINE t == Stream(i + 1, i + Len(s))
<1>2. t \in Seq(Nat) /\ Len(t) = Len(s) /\ \A k \in 1..Len(s) : s[k] = t[k]
  BY <1>1 DEF IsRun
<1> HIDE DEF t
<1>3. s = t
  BY <1>0, <1>2, SeqEqual, Zenon
<1> QED
  BY <1>3 DEF t

-----------------------------------------------------------------------------
(* The memory of a buffer with its pointers at r and w.                      *)

LEMMA Constants ==
    /\ kBufferSize \in Nat /\ kBufferSize > 0 /\ Nul \in Bytes
    /\ SocketBuffer \in Nat /\ SocketBuffer > 0 /\ MaxSent \in Nat /\ MaxQueued \in Nat
    /\ \A k \in Nat : k > 0 /\ (k <= MaxSent \/ k <= MaxQueued) => k \in Bytes
<1>1. \A k \in Nat : k > 0 /\ (k <= MaxSent \/ k <= MaxQueued) =>
          k \in 1..MaxSent \cup 1..MaxQueued
  BY ConnectionAssumption DEF ConnectionAssumption
<1> QED
  BY <1>1, ConnectionAssumption DEF ConnectionAssumption

Memory == [0..(kBufferSize - 1) -> Bytes]

\* Writing the next numbers behind a run makes a longer one.
LEMMA WrittenRun ==
    ASSUME NEW m \in Memory, NEW r \in Nat, NEW w \in Nat, r <= w,
           NEW i \in Nat, HoldsRun(m, r, w, i),
           NEW s, IsRun(s, i + (w - r)), w + Len(s) <= kBufferSize,
           i + (w - r) + Len(s) <= MaxSent \/ i + (w - r) + Len(s) <= MaxQueued
    PROVE  /\ In!Written(m, w, s) \in Memory
           /\ Out!Written(m, w, s) = In!Written(m, w, s)
           /\ HoldsRun(In!Written(m, w, s), r, w + Len(s), i)
<1>0. s \in Seq(Nat) /\ Len(s) \in Nat
  BY DEF IsRun
<1> DEFINE W == In!Written(m, w, s)
<1>1. \A a \in w..(w + Len(s) - 1) : a - w + 1 \in 1..Len(s)
  BY <1>0
<1>2. ASSUME NEW a \in w..(w + Len(s) - 1)
      PROVE  s[a - w + 1] = i + 1 + (a - r) /\ s[a - w + 1] \in Bytes
  <2>1. a - w + 1 \in 1..Len(s) /\ i + (w - r) + (a - w + 1) = i + 1 + (a - r)
    BY <1>0
  <2>2. s[a - w + 1] = i + 1 + (a - r)
    BY <2>1 DEF IsRun
  <2>3. /\ i + 1 + (a - r) \in Nat /\ i + 1 + (a - r) > 0
        /\ i + 1 + (a - r) <= i + (w - r) + Len(s)
    BY <1>0
  <2> QED
    BY <2>2, <2>3, <1>0, Constants
<1>3. W = [a \in 0..(kBufferSize - 1) |->
              IF a \in w..(w + Len(s) - 1) THEN s[a - w + 1] ELSE m[a]]
  BY DEF In!Written, In!Addresses
<1>4. Out!Written(m, w, s) = W
  BY DEF In!Written, In!Addresses, Out!Written, Out!Addresses
<1> HIDE DEF W
<1>5. W \in Memory
  BY <1>2, <1>3 DEF Memory
<1>6. ASSUME NEW a \in r..(w + Len(s) - 1) PROVE W[a] = i + 1 + (a - r)
  <2>1. a \in 0..(kBufferSize - 1)
    BY <1>0, Constants
  <2>2. CASE a \in w..(w + Len(s) - 1)
    BY <2>1, <2>2, <1>2, <1>3
  <2>3. CASE a \notin w..(w + Len(s) - 1)
    <3>1. a \in r..(w - 1)
      BY <2>3, <1>0
    <3>2. m[a] = i + 1 + (a - r)
      BY <3>1 DEF HoldsRun
    <3> QED
      BY <2>1, <2>3, <3>2, <1>3
  <2> QED
    BY <2>2, <2>3
<1>7. HoldsRun(W, r, w + Len(s), i)
  BY <1>6 DEF HoldsRun
<1> QED
  BY <1>4, <1>5, <1>7 DEF W

\* Compaction moves the run to the front.
LEMMA MovedRun ==
    ASSUME NEW m \in Memory, NEW r \in Nat, NEW w \in Nat, r <= w, w <= kBufferSize,
           NEW i \in Nat, HoldsRun(m, r, w, i),
           NEW m2, m2 = [a \in 0..(kBufferSize - 1) |-> IF a < w - r THEN m[r + a] ELSE m[a]]
    PROVE  m2 \in Memory /\ HoldsRun(m2, 0, w - r, i)
<1>1. ASSUME NEW a \in 0..(w - r - 1)
      PROVE  /\ a \in 0..(kBufferSize - 1) /\ r + a \in 0..(kBufferSize - 1)
             /\ m[r + a] = i + 1 + (a - 0)
  <2>1. a \in 0..(kBufferSize - 1) /\ r + a \in 0..(kBufferSize - 1) /\ r + a \in r..(w - 1)
    BY Constants
  <2>2. m[r + a] = i + 1 + (r + a - r)
    BY <2>1 DEF HoldsRun
  <2> QED
    BY <2>1, <2>2
<1>2. \A a \in 0..(kBufferSize - 1) : a < w - r => r + a \in 0..(kBufferSize - 1)
  BY Constants
<1>3. m2 \in Memory
  BY <1>2 DEF Memory
<1>4. ASSUME NEW a \in 0..(w - r - 1) PROVE m2[a] = i + 1 + (a - 0)
  <2>1. m2[a] = IF a < w - r THEN m[r + a] ELSE m[a]
    BY <1>1
  <2> QED
    BY <2>1, <1>1
<1> QED
  BY <1>3, <1>4 DEF HoldsRun

\* The bytes in use of a buffer that holds a run.
LEMMA HeldIsRun ==
    ASSUME NEW m \in Memory, NEW r \in Nat, NEW w \in Nat, r <= w, w <= kBufferSize,
           NEW i \in Nat, HoldsRun(m, r, w, i)
    PROVE  /\ IsRun([k \in 1..(w - r) |-> m[r + k - 1]], i)
           /\ Len([k \in 1..(w - r) |-> m[r + k - 1]]) = w - r
<1>1. ASSUME NEW k \in 1..(w - r) PROVE m[r + k - 1] = i + k
  <2>1. r + k - 1 \in r..(w - 1) /\ i + 1 + (r + k - 1 - r) = i + k
    OBVIOUS
  <2> QED
    BY <2>1 DEF HoldsRun
<1>2. \A k \in 1..(w - r) : m[r + k - 1] \in Nat
  BY <1>1
<1> DEFINE c == [k \in 1..(w - r) |-> m[r + k - 1]]
<1>3. w - r \in Nat
  OBVIOUS
<1>4. c \in Seq(Nat) /\ Len(c) = w - r
  BY <1>2, <1>3
<1>5. \A k \in 1..(w - r) : c[k] = i + k
  BY <1>1
<1> HIDE DEF c
<1>6. IsRun(c, i)
  BY <1>4, <1>5 DEF IsRun
<1> QED
  BY <1>4, <1>6 DEF c

-----------------------------------------------------------------------------
(* The inductive invariant in three parts: the way in, the way out, and      *)
(* where handleRead and handleWrite are.                                     *)

InSide ==
    /\ rMem \in Memory /\ rRead \in Nat /\ rWrite \in Nat
    /\ rRead <= rWrite /\ rWrite <= kBufferSize
    /\ sent \in 0..MaxSent /\ taken \in 0..sent /\ Len(kin) <= SocketBuffer
    /\ peer \in {"open", "closed", "reset"}
    /\ Input

OutSide ==
    /\ wMem \in Memory /\ wRead \in Nat /\ wWrite \in Nat
    /\ wRead <= wWrite /\ wWrite <= kBufferSize
    /\ iov_base \in Nat /\ iov_len \in 0..MaxQueued /\ mapped \in BOOLEAN
    /\ queued \in 0..MaxQueued /\ Len(delivered) <= queued /\ Len(kout) <= SocketBuffer
    /\ Output

Control ==
    /\ pc \in {"accepted", "in", "out", "called", "writable", "hangup", "recv", "readFd",
              "handler", "send", "close", "closed", "finished"}
    /\ last_used \in 0..kBufferSize
    /\ ret \in -1..kBufferSize
    /\ ReturnsPending /\ SomethingThere /\ LastAnswer /\ ClosedOnlyWhenDue

LEMMA Parts == ConnectionInv <=> InSide /\ OutSide /\ Control
<1>1. In!BufferTypeOK /\ In!PointerOrder <=>
          /\ rMem \in Memory /\ rRead \in Nat /\ rWrite \in Nat
          /\ rRead <= rWrite /\ rWrite <= kBufferSize
  BY DEF In!BufferTypeOK, In!PointerOrder, In!Addresses, Memory
<1>2. Out!BufferTypeOK /\ Out!PointerOrder <=>
          /\ wMem \in Memory /\ wRead \in Nat /\ wWrite \in Nat
          /\ wRead <= wWrite /\ wWrite <= kBufferSize
  BY DEF Out!BufferTypeOK, Out!PointerOrder, Out!Addresses, Memory
<1> QED
  BY <1>1, <1>2, Zenon DEF ConnectionInv, TypeOK, InSide, OutSide, Control

LEMMA PartsAfter == InSide' /\ OutSide' /\ Control' => ConnectionInv'
BY Parts, PTL

\* How many bytes are where.
LEMMA InCounts ==
    ASSUME InSide
    PROVE  /\ In!used = rWrite - rRead /\ In!used \in 0..kBufferSize
           /\ In!room = kBufferSize - rWrite /\ In!avail = kBufferSize - In!used
           /\ In!avail \in 0..kBufferSize /\ In!room \in 0..kBufferSize
           /\ kin \in Seq(Nat) /\ Len(kin) \in Nat
           /\ taken \in Nat /\ sent \in Nat /\ sent <= MaxSent
           /\ taken + In!used + Len(kin) <= sent
           /\ IsRun(kin, taken + In!used) /\ HoldsRun(rMem, rRead, rWrite, taken)
<1>1. IsRun(kin, taken + In!used) /\ HoldsRun(rMem, rRead, rWrite, taken)
  BY DEF InSide, Input
<1>2. kin \in Seq(Nat) /\ Len(kin) \in Nat
  BY <1>1 DEF IsRun
<1>3. /\ In!used = rWrite - rRead /\ In!used \in 0..kBufferSize
      /\ In!room = kBufferSize - rWrite /\ In!avail = kBufferSize - In!used
      /\ In!avail \in 0..kBufferSize /\ In!room \in 0..kBufferSize
  BY Constants DEF InSide, In!used, In!avail, In!room
<1>4. taken \in Nat /\ sent \in Nat /\ sent <= MaxSent
  BY Constants DEF InSide
<1>5. taken + In!used + Len(kin) <= sent
  BY <1>2, <1>3, <1>4 DEF InSide, Input
<1> QED
  BY <1>1, <1>2, <1>3, <1>4, <1>5

LEMMA OutCounts ==
    ASSUME OutSide
    PROVE  /\ Out!used = wWrite - wRead /\ Out!used \in 0..kBufferSize
           /\ Out!room = kBufferSize - wWrite /\ Out!avail = kBufferSize - Out!used
           /\ pending = Out!used + iov_len /\ pending \in Nat /\ iov_len \in Nat
           /\ delivered \in Seq(Nat) /\ Len(delivered) \in Nat
           /\ kout \in Seq(Nat) /\ Len(kout) \in Nat
           /\ queued \in Nat /\ queued <= MaxQueued
           /\ Len(delivered) <= queued /\ Len(kout) <= SocketBuffer
           /\ Len(delivered) + Len(kout) <= queued
<1>1. /\ Out!used = wWrite - wRead /\ Out!used \in 0..kBufferSize
      /\ Out!room = kBufferSize - wWrite /\ Out!avail = kBufferSize - Out!used
      /\ iov_len \in Nat /\ queued \in Nat /\ queued <= MaxQueued
  BY Constants DEF OutSide, Out!used, Out!room, Out!avail
<1>2. delivered \in Seq(Nat) /\ (IsRun(kout, Len(delivered)) \/ kout \in Seq(Nat))
  BY DEF OutSide, Output
<1>3. kout \in Seq(Nat)
  BY <1>2, Zenon DEF IsRun
<1>4. Len(delivered) \in Nat /\ Len(kout) \in Nat
  BY <1>2, <1>3
<1>5. Len(delivered) <= queued /\ Len(kout) <= SocketBuffer
  BY DEF OutSide
<1>6. Len(delivered) + Len(kout) <= queued
  <2>1. Sending => Len(delivered) + Len(kout) + pending = queued /\ pending \in Nat
    BY <1>1 DEF OutSide, Output, pending
  <2>2. ~Sending => Len(delivered) + Len(kout) <= queued
    BY DEF OutSide, Output
  <2> QED
    BY <1>1, <1>4, <2>1, <2>2
<1> QED
  BY <1>1, <1>2, <1>3, <1>4, <1>5, <1>6 DEF pending

-----------------------------------------------------------------------------
(* What the steps that are about one side do to the other.                   *)

LEMMA InKept ==
    ASSUME InSide, UNCHANGED <<rbuf, sent, taken, kin, peer>>
    PROVE  InSide' /\ In!used' = In!used /\ In!avail' = In!avail
<1>1. In!used' = In!used /\ In!avail' = In!avail
  BY DEF rbuf, In!used, In!avail
<1> QED
  BY <1>1 DEF rbuf, InSide, Input

LEMMA OutKept ==
    ASSUME OutSide, UNCHANGED <<wbuf, iov, queued, kout, delivered>>, Sending' <=> Sending
    PROVE  OutSide' /\ pending' = pending
<1>1. Out!used' = Out!used /\ pending' = pending
  BY DEF wbuf, iov, Out!used, pending
<1> QED
  BY <1>1 DEF wbuf, iov, OutSide, Output

\* A step inside a callback, or into another one, throws nothing away.
LEMMA SendingKept ==
    ASSUME ~Closed, ~Closed', peer' = peer, UNCHANGED iov
    PROVE  Sending' <=> Sending
BY DEF Sending, iov

\* Closing a socket that has not been read empty throws away what it has not sent.
LEMMA OutLeft ==
    ASSUME OutSide, ~Closed, UNCHANGED <<wbuf, mapped, queued, peer, kin, delivered>>,
           kout' = IF Closed' /\ kin # <<>> THEN <<>> ELSE kout,
           \/ UNCHANGED iov
           \/ iov_base' = 0 /\ iov_len' = 0 /\ (~Sending \/ iov_len = 0)
    PROVE  OutSide'
<1>1. UNCHANGED <<mapped, queued, peer, kin, delivered>>
  OBVIOUS
<1>2. Out!used' = Out!used
  BY DEF wbuf, Out!used
<1>3. CASE Closed' /\ kin # <<>>
  <2>1. kout' = <<>> /\ ~Sending'
    BY <1>1, <1>3 DEF Sending
  <2>2. iov_base' \in Nat /\ iov_len' \in 0..MaxQueued
    BY Constants DEF OutSide, iov
  <2>3. /\ kout' \in Seq(Nat) /\ Len(kout') = 0
        /\ delivered' \in Seq(Nat) /\ Len(delivered') <= queued' /\ Len(delivered') \in Nat
    BY <1>1, <2>1, OutCounts
  <2>4. Output'
    BY <2>1, <2>3 DEF Output
  <2> QED
    BY <1>1, <2>2, <2>3, <2>4, Constants DEF OutSide, wbuf
<1>4. CASE ~(Closed' /\ kin # <<>>)
  <2>1. kout' = kout /\ (Sending' <=> Sending)
    BY <1>1, <1>4 DEF Sending
  <2>2. CASE UNCHANGED iov
    BY <2>1, <2>2, <1>1, OutKept
  <2>3. CASE iov_base' = 0 /\ iov_len' = 0 /\ (~Sending \/ iov_len = 0)
    <3>1. Sending => pending' = pending
      BY <2>3, <1>2 DEF pending
    <3> QED
      BY <2>1, <2>3, <3>1, <1>1, <1>2, Constants DEF OutSide, Output, wbuf
  <2> QED
    BY <2>2, <2>3
<1> QED
  BY <1>3, <1>4

-----------------------------------------------------------------------------
(* The steps on the way in.                                                  *)

LEMMA PeerSendIn ==
    ASSUME InSide, NEW n \in 1..SocketBuffer, PeerSend(n)
    PROVE  InSide' /\ In!used' = In!used /\ In!avail' = In!avail
<1>0. /\ peer = "open" /\ sent + n <= MaxSent /\ Len(kin) + n <= SocketBuffer
      /\ kin' = kin \o Stream(sent + 1, sent + n) /\ sent' = sent + n
      /\ UNCHANGED <<rMem, rRead, rWrite, taken, peer>>
  BY DEF PeerSend, rbuf
<1>1. n \in Nat
  BY Constants
<1>2. In!used' = In!used /\ In!avail' = In!avail
  BY <1>0 DEF In!used, In!avail
<1>3. taken + In!used + Len(kin) = sent
  BY <1>0 DEF InSide, Input
<1>4. IsRun(Stream(sent + 1, sent + n), sent) /\ Len(Stream(sent + 1, sent + n)) = n
  BY <1>1, InCounts, StreamIsRun
<1>5. IsRun(kin', taken + In!used) /\ Len(kin') = Len(kin) + n
  <2>1. taken + In!used \in Int /\ IsRun(Stream(sent + 1, sent + n), taken + In!used + Len(kin))
    BY <1>3, <1>4, InCounts
  <2> QED
    BY <2>1, <1>0, <1>4, InCounts, RunConcat
<1>6. Input'
  BY <1>0, <1>1, <1>2, <1>3, <1>5, InCounts DEF Input
<1>7. sent' \in 0..MaxSent /\ taken' \in 0..sent' /\ Len(kin') <= SocketBuffer
  BY <1>0, <1>1, <1>5, InCounts
<1> QED
  BY <1>0, <1>2, <1>6, <1>7 DEF InSide

LEMMA PeerCloseIn ==
    ASSUME InSide, PeerClose
    PROVE  InSide' /\ In!used' = In!used /\ In!avail' = In!avail
<1>1. In!used' = In!used /\ In!avail' = In!avail
  BY DEF PeerClose, rbuf, In!used, In!avail
<1> QED
  BY <1>1 DEF PeerClose, rbuf, InSide, Input

LEMMA PeerResetIn ==
    ASSUME InSide, PeerReset
    PROVE  InSide' /\ In!used' = In!used /\ In!avail' = In!avail
<1>0. peer' = "reset" /\ kin' = <<>> /\ UNCHANGED <<rMem, rRead, rWrite, taken, sent>>
  BY DEF PeerReset, rbuf
<1>1. In!used' = In!used /\ In!avail' = In!avail
  BY <1>0 DEF In!used, In!avail
<1>2. Len(kin') = 0 /\ IsRun(kin', taken + In!used)
  BY <1>0, InCounts, EmptyRun
<1>3. Input'
  BY <1>0, <1>1, <1>2, InCounts DEF Input
<1>4. Len(kin') <= SocketBuffer
  BY <1>2, Constants
<1> QED
  BY <1>0, <1>1, <1>3, <1>4 DEF InSide

LEMMA RecvCompactIn ==
    ASSUME InSide, RecvCompact
    PROVE  InSide' /\ In!used' = In!used
<1>0. /\ rMem' = In!Moved /\ rRead' = 0 /\ rWrite' = In!used
      /\ UNCHANGED <<taken, sent, peer, kin>>
  BY DEF RecvCompact, In!MakeRoom, net
<1>1. In!used' = In!used
  BY <1>0, InCounts DEF In!used
<1>2. In!Moved = [a \in 0..(kBufferSize - 1) |->
                     IF a < rWrite - rRead THEN rMem[rRead + a] ELSE rMem[a]]
  BY DEF In!Moved, In!used, In!Addresses
<1>3. /\ rMem \in Memory /\ rRead \in Nat /\ rWrite \in Nat
      /\ rRead <= rWrite /\ rWrite <= kBufferSize
  BY DEF InSide
<1>4. In!Moved \in Memory /\ HoldsRun(In!Moved, 0, rWrite - rRead, taken)
  BY <1>2, <1>3, InCounts, MovedRun
<1>5. rMem' \in Memory /\ HoldsRun(rMem', rRead', rWrite', taken)
  BY <1>0, <1>4, InCounts
<1>6. Input'
  BY <1>0, <1>1, <1>5 DEF Input, InSide
<1>7. rRead' \in Nat /\ rWrite' \in Nat /\ rRead' <= rWrite' /\ rWrite' <= kBufferSize
  BY <1>0, InCounts, Constants
<1> QED
  BY <1>0, <1>1, <1>5, <1>6, <1>7 DEF InSide

LEMMA RecvBytesIn ==
    ASSUME InSide, NEW n \in 1..SocketBuffer, RecvBytes(n)
    PROVE  InSide' /\ In!used' = In!used + n /\ peer # "reset"
<1> DEFINE s == SubSeq(kin, 1, n)
           t == SubSeq(kin, n + 1, Len(kin))
<1>0. /\ n <= Len(kin) /\ Len(s) <= In!room
      /\ rMem' = In!Written(rMem, rWrite, s) /\ rWrite' = rWrite + Len(s) /\ rRead' = rRead
      /\ kin' = t
      /\ UNCHANGED <<taken, sent, peer>>
  BY DEF RecvBytes, In!Fill
<1>1. n \in 0..Len(kin) /\ n \in Nat /\ n > 0
  BY <1>0, Constants, InCounts
<1>2. peer # "reset"
  <2>1. Len(<<>>) = 0
    OBVIOUS
  <2> QED
    BY <2>1, <1>0, <1>1 DEF InSide, Input
<1>3. /\ IsRun(s, taken + In!used) /\ Len(s) = n
      /\ IsRun(t, taken + In!used + n) /\ Len(t) = Len(kin) - n
  BY <1>1, InCounts, RunCut
<1> HIDE DEF s, t
<1>4. /\ rMem \in Memory /\ rRead \in Nat /\ rWrite \in Nat
      /\ rRead <= rWrite /\ rWrite <= kBufferSize
  BY DEF InSide
<1>5. /\ rWrite + Len(s) <= kBufferSize
      /\ taken + (rWrite - rRead) + Len(s) <= MaxSent
      /\ IsRun(s, taken + (rWrite - rRead))
  <2>1. /\ In!used = rWrite - rRead /\ In!room = kBufferSize - rWrite
        /\ taken + In!used + Len(kin) <= sent /\ sent <= MaxSent
        /\ taken \in Nat /\ sent \in Nat /\ Len(kin) \in Nat
    BY InCounts
  <2>2. IsRun(s, taken + (rWrite - rRead))
    BY <1>3, <2>1
  <2>3. kBufferSize \in Nat /\ MaxSent \in Nat
    BY Constants
  <2> HIDE DEF In!used, In!room
  <2> QED
    BY <1>0, <1>1, <1>3, <1>4, <2>1, <2>2, <2>3
<1>6. rMem' \in Memory /\ HoldsRun(rMem', rRead', rWrite', taken')
  BY <1>0, <1>4, <1>5, InCounts, WrittenRun
<1>7. In!used' = In!used + n
  BY <1>0, <1>1, <1>3, <1>4 DEF In!used
<1>8. rRead' \in Nat /\ rWrite' \in Nat /\ rRead' <= rWrite' /\ rWrite' <= kBufferSize
  <2>1. rWrite' = rWrite + n /\ rRead' = rRead /\ rWrite + n <= kBufferSize
    BY <1>0, <1>3, <1>5
  <2> QED
    BY <1>1, <1>4, <2>1
<1>9. IsRun(kin', taken' + In!used') /\ Len(kin') = Len(kin) - n
  BY <1>0, <1>3, <1>7, InCounts
<1>10. taken' + In!used' + Len(kin') = sent'
  <2>1. taken + In!used + Len(kin) = sent
    BY <1>2 DEF InSide, Input
  <2>2. /\ taken' = taken /\ sent' = sent /\ In!used' = In!used + n /\ Len(kin') = Len(kin) - n
        /\ taken \in Nat /\ In!used \in Int /\ Len(kin) \in Nat /\ n \in Nat
    BY <1>0, <1>1, <1>7, <1>9, InCounts
  <2> QED
    BY <2>1, <2>2
<1>11. Input'
  BY <1>0, <1>2, <1>6, <1>9, <1>10 DEF Input
<1>12. Len(kin') <= SocketBuffer
  BY <1>1, <1>9, InCounts, Constants DEF InSide
<1> QED
  BY <1>0, <1>2, <1>6, <1>7, <1>8, <1>11, <1>12 DEF InSide

\* Bytes are taken out at the front; a buffer taken empty starts over.
LEMMA TakenIn ==
    ASSUME InSide, NEW n \in 0..In!used, taken' = taken + n,
           UNCHANGED <<rMem, sent, kin, peer>>,
           \/ rRead' = rRead + n /\ rWrite' = rWrite
           \/ rRead' = 0 /\ rWrite' = 0 /\ n = In!used
    PROVE  InSide' /\ In!used' = In!used - n
<1>1. rMem \in Memory /\ rRead \in Nat /\ rWrite \in Nat /\ rRead <= rWrite
      /\ rWrite <= kBufferSize /\ kBufferSize \in Nat /\ n \in Nat /\ n <= In!used
  BY InCounts, Constants DEF InSide
<1>2. In!used' = In!used - n
  BY <1>1, InCounts DEF In!used
<1>3. rRead' \in Nat /\ rWrite' \in Nat /\ rRead' <= rWrite' /\ rWrite' <= kBufferSize
  <2>1. n <= rWrite - rRead
    BY <1>1, InCounts
  <2> QED
    BY <1>1, <2>1
<1>4. HoldsRun(rMem', rRead', rWrite', taken')
  <2>1. CASE rRead' = rRead + n /\ rWrite' = rWrite
    <3>1. ASSUME NEW a \in (rRead + n)..(rWrite - 1)
          PROVE  rMem[a] = taken + n + 1 + (a - (rRead + n))
      <4>1. /\ taken \in Nat /\ n \in Nat /\ rRead \in Nat /\ rWrite \in Nat
            /\ HoldsRun(rMem, rRead, rWrite, taken)
        BY <1>1, InCounts
      <4>2. a \in rRead..(rWrite - 1) /\ taken + n + 1 + (a - (rRead + n)) = taken + 1 + (a - rRead)
        BY <4>1
      <4> QED
        BY <4>1, <4>2 DEF HoldsRun
    <3> QED
      BY <2>1, <3>1 DEF HoldsRun
  <2>2. CASE rRead' = 0 /\ rWrite' = 0
    BY <2>2 DEF HoldsRun
  <2> QED
    BY <2>1, <2>2
<1>5. taken' + In!used' = taken + In!used /\ taken' \in 0..sent'
  <2>1. /\ taken \in Nat /\ In!used \in Int /\ Len(kin) \in Nat /\ sent \in Nat
        /\ taken + In!used + Len(kin) <= sent
    BY InCounts
  <2> QED
    BY <1>1, <1>2, <2>1
<1>6. Input'
  BY <1>4, <1>5 DEF Input, InSide
<1> QED
  BY <1>1, <1>2, <1>3, <1>5, <1>6 DEF InSide

LEMMA ReadIn ==
    ASSUME InSide, NEW len \in 1..kBufferSize, Read(len) \/ TakeLine(len)
    PROVE  InSide'
<1>1. len \in Nat
  BY Constants
<1>2. CASE Read(len)
  <2>1. taken' = taken + ReadLen(len) /\ UNCHANGED <<rMem, sent, kin, peer>>
    BY <1>2 DEF Read, net, In!readPtrMove, In!reset
  <2>2. ReadLen(len) \in 0..In!used
    BY <1>1, InCounts DEF ReadLen
  <2>3. \/ rRead' = rRead + ReadLen(len) /\ rWrite' = rWrite
        \/ rRead' = 0 /\ rWrite' = 0 /\ ReadLen(len) = In!used
    BY <1>2 DEF Read, ReadLen, In!readPtrMove, In!reset
  <2> QED
    BY <2>1, <2>2, <2>3, TakenIn
<1>3. CASE TakeLine(len)
  <2>1. /\ taken' = taken + len /\ UNCHANGED <<rMem, sent, kin, peer>>
        /\ rRead' = rRead + len /\ rWrite' = rWrite /\ len <= In!used
    BY <1>3 DEF TakeLine, net, In!readPtrMove
  <2>2. len \in 0..In!used
    BY <1>1, <2>1, InCounts
  <2> QED
    BY <2>1, <2>2, TakenIn
<1> QED
  BY <1>2, <1>3

-----------------------------------------------------------------------------
(* The steps on the way out.                                                 *)

LEMMA PeerResetOut ==
    ASSUME OutSide, PeerReset
    PROVE  OutSide' /\ pending' = pending
<1>0. peer' = "reset" /\ kout' = <<>> /\ UNCHANGED <<wMem, wRead, wWrite, iov, queued, delivered>>
  BY DEF PeerReset, wbuf
<1>1. ~Sending' /\ pending' = pending
  BY <1>0 DEF Sending, iov, pending, Out!used
<1>2. /\ delivered \in Seq(Nat) /\ kout' \in Seq(Nat) /\ Len(kout') <= SocketBuffer
      /\ Len(delivered') + Len(kout') <= queued'
  BY <1>0, Constants, OutCounts
<1>3. Output'
  BY <1>0, <1>1, <1>2 DEF Output
<1> QED
  BY <1>0, <1>1, <1>2, <1>3 DEF OutSide, iov

LEMMA DeliverOut ==
    ASSUME OutSide, NEW n \in 1..SocketBuffer, Deliver(n)
    PROVE  OutSide' /\ pending' = pending
<1>0. /\ n <= Len(kout)
      /\ delivered' = delivered \o SubSeq(kout, 1, n)
      /\ kout' = SubSeq(kout, n + 1, Len(kout))
      /\ UNCHANGED <<wMem, wRead, wWrite, iov_base, iov_len, mapped, queued, pc, peer, kin>>
  BY DEF Deliver, wbuf, iov, calls
<1>1. /\ n \in Nat /\ n > 0
      /\ delivered \in Seq(Nat) /\ Len(delivered) \in Nat
      /\ kout \in Seq(Nat) /\ Len(kout) \in Nat /\ Len(kout) <= SocketBuffer
      /\ pending \in Nat /\ queued \in Nat /\ Len(delivered) + Len(kout) <= queued
  BY Constants, OutCounts
<1>2. Sending' = Sending /\ pending' = pending /\ Out!used' = Out!used
  BY <1>0 DEF Sending, Closed, pending, Out!used
<1>3. /\ Len(SubSeq(kout, 1, n)) = n /\ SubSeq(kout, 1, n) \in Seq(Nat)
      /\ kout' \in Seq(Nat) /\ Len(kout') = Len(kout) - n
  <2>1. \A k \in 1..n : k \in 1..Len(kout)
    BY <1>0, <1>1
  <2>2. \A k \in (n + 1)..Len(kout) : k \in 1..Len(kout)
    BY <1>0, <1>1
  <2>3. SubSeq(kout, 1, n) \in Seq(Nat) /\ Len(SubSeq(kout, 1, n)) = n
    BY <1>0, <1>1, <2>1
  <2>4. /\ SubSeq(kout, n + 1, Len(kout)) \in Seq(Nat)
        /\ Len(SubSeq(kout, n + 1, Len(kout))) = Len(kout) - n
    BY <1>0, <1>1, <2>2
  <2> QED
    BY <1>0, <2>3, <2>4
<1>4. delivered' \in Seq(Nat) /\ Len(delivered') = Len(delivered) + n
  BY <1>0, <1>1, <1>3, ConcatProperties
<1>5. Len(delivered') + Len(kout') = Len(delivered) + Len(kout)
  BY <1>1, <1>3, <1>4
<1>6. ASSUME Sending PROVE Output'
  <2>1. /\ IsRun(delivered, 0) /\ IsRun(kout, Len(delivered))
        /\ HoldsRun(wMem, wRead, wWrite, Len(delivered) + Len(kout))
        /\ iov_len > 0 => iov_base = Len(delivered) + Len(kout) + Out!used + 1
        /\ Len(delivered) + Len(kout) + pending = queued
    BY <1>6 DEF OutSide, Output
  <2>2. n \in 0..Len(kout)
    BY <1>0, <1>1
  <2>3. IsRun(SubSeq(kout, 1, n), Len(delivered)) /\ IsRun(kout', Len(delivered'))
    BY <2>1, <2>2, <1>0, <1>1, <1>4, RunCut
  <2>4. IsRun(SubSeq(kout, 1, n), 0 + Len(delivered))
    BY <2>3, <1>1
  <2>5. IsRun(delivered', 0)
    BY <1>0, <2>1, <2>4, RunConcat
  <2> QED
    BY <1>0, <1>2, <1>4, <1>5, <1>6, <2>1, <2>3, <2>5 DEF Output
<1>7. ASSUME ~Sending PROVE Output'
  BY <1>0, <1>2, <1>3, <1>4, <1>5, <1>7 DEF OutSide, Output
<1>8. Len(delivered') <= queued' /\ Len(kout') <= SocketBuffer
  BY <1>0, <1>1, <1>3, <1>4, Constants
<1>9. Output'
  BY <1>6, <1>7
<1> QED
  BY <1>0, <1>2, <1>8, <1>9 DEF OutSide

LEMMA RespondOut ==
    ASSUME OutSide, NEW n \in 1..kBufferSize, NEW f \in 0..MaxQueued, Respond(n, f),
           pending = 0, mapped
    PROVE  OutSide' /\ pending' > 0
<1> DEFINE s == Stream(queued + 1, queued + n)
<1>0. /\ pc = "handler" /\ pc' = "out" /\ queued + n + f <= MaxQueued /\ queued' = queued + n + f
      /\ Out!append(s)
      /\ IF f = 0 THEN UNCHANGED <<iov_base, iov_len>>
                  ELSE iov_base' = queued + n + 1 /\ iov_len' = f
      /\ mapped' \in BOOLEAN /\ UNCHANGED <<peer, kin, kout, delivered>>
  BY DEF Respond, net
<1>1. n \in Nat /\ n > 0 /\ f \in Nat
  BY Constants
<1>2. Out!used = 0 /\ iov_len = 0 /\ wRead = wWrite
  BY OutCounts DEF OutSide
<1>3. IsRun(s, queued) /\ Len(s) = n
  BY <1>1, OutCounts, StreamIsRun
<1> HIDE DEF s
<1>4. /\ wMem \in Memory /\ wRead \in Nat /\ wWrite \in Nat
      /\ wRead <= wWrite /\ wWrite <= kBufferSize
  BY DEF OutSide
<1>5. /\ wMem' \in Memory /\ wRead' \in Nat /\ wRead' + n = wWrite' /\ wWrite' <= kBufferSize
      /\ HoldsRun(wMem', wRead', wWrite', queued)
  <2>1. HoldsRun(wMem, wRead, wWrite, queued)
    BY <1>2, <1>4 DEF HoldsRun
  <2>2. queued + n <= MaxQueued
    BY <1>0, <1>1, OutCounts, Constants
  <2>3. CASE Out!room > Len(s)
    <3>1. /\ wMem' = Out!Written(wMem, wWrite, s) /\ wWrite' = wWrite + n /\ wRead' = wRead
      BY <1>0, <1>3, <2>3 DEF Out!append
    <3>2. IsRun(s, queued + (wWrite - wRead)) /\ wWrite + Len(s) <= kBufferSize
          /\ queued + (wWrite - wRead) + Len(s) <= MaxQueued
      BY <2>2, <2>3, <1>1, <1>2, <1>3, <1>4, OutCounts, Constants
    <3>3. queued \in Nat
      BY OutCounts
    <3>4. /\ In!Written(wMem, wWrite, s) \in Memory
          /\ Out!Written(wMem, wWrite, s) = In!Written(wMem, wWrite, s)
          /\ HoldsRun(In!Written(wMem, wWrite, s), wRead, wWrite + Len(s), queued)
      BY <2>1, <3>2, <3>3, <1>4, WrittenRun
    <3> QED
      BY <3>1, <3>2, <3>4, <1>1, <1>2, <1>3, <1>4
  <2>4. CASE ~(Out!room > Len(s))
    <3>1. /\ wMem' = Out!Written(Out!Moved, 0, s) /\ wWrite' = n /\ wRead' = 0
          /\ n <= kBufferSize
      BY <1>0, <1>1, <1>2, <1>3, <2>4, OutCounts, Constants DEF Out!append
    <3>2. Out!Moved = [a \in 0..(kBufferSize - 1) |->
                          IF a < wWrite - wRead THEN wMem[wRead + a] ELSE wMem[a]]
      BY DEF Out!Moved, Out!used, Out!Addresses
    <3>3. queued \in Nat
      BY OutCounts
    <3>4. Out!Moved \in Memory /\ HoldsRun(Out!Moved, 0, wWrite - wRead, queued)
      BY <2>1, <3>2, <3>3, <1>4, MovedRun
    <3> DEFINE m == Out!Moved
    <3> HIDE DEF m
    <3>5. m \in Memory /\ HoldsRun(m, 0, 0, queued) /\ wMem' = Out!Written(m, 0, s)
      BY <3>1, <3>4, <1>2, <1>4 DEF m
    <3>6. /\ IsRun(s, queued + (0 - 0)) /\ 0 + Len(s) <= kBufferSize
          /\ queued + (0 - 0) + Len(s) <= MaxQueued
      BY <2>2, <3>1, <3>3, <1>3
    <3>7. /\ In!Written(m, 0, s) \in Memory
          /\ Out!Written(m, 0, s) = In!Written(m, 0, s)
          /\ HoldsRun(In!Written(m, 0, s), 0, 0 + Len(s), queued)
      BY <3>3, <3>5, <3>6, WrittenRun
    <3> QED
      BY <3>1, <3>5, <3>7, <1>1, <1>3
  <2> QED
    BY <2>3, <2>4
<1>6. Out!used' = n
  BY <1>1, <1>5 DEF Out!used
<1>7. /\ iov_len' \in Nat /\ iov_len' <= MaxQueued /\ iov_base' \in Nat /\ iov_len' = f
      /\ iov_len' > 0 => iov_base' = queued + n + 1
  BY <1>0, <1>1, <1>2, OutCounts, Constants DEF OutSide
<1>8. pending' = n + f /\ pending' > 0
  BY <1>1, <1>6, <1>7 DEF pending
<1>9. Sending' => Sending
  BY <1>0 DEF Sending, Closed
<1>10. Sending => Len(delivered) + Len(kout) = queued
  BY OutCounts DEF OutSide, Output, pending
<1>11. Output'
  <2>1. ASSUME Sending' PROVE Output'
    <3>0. Sending
      BY <2>1, <1>9
    <3>1. /\ IsRun(delivered', 0) /\ IsRun(kout', Len(delivered'))
          /\ HoldsRun(wMem', wRead', wWrite', Len(delivered') + Len(kout'))
      BY <3>0, <1>0, <1>5, <1>10 DEF OutSide, Output
    <3>2. /\ iov_len' > 0 => iov_base' = Len(delivered') + Len(kout') + Out!used' + 1
          /\ Len(delivered') + Len(kout') + pending' = queued'
      <4>1. /\ Len(delivered) \in Nat /\ Len(kout) \in Nat /\ queued \in Nat
            /\ Len(delivered) + Len(kout) = queued
        BY <3>0, <1>10, OutCounts
      <4>2. UNCHANGED <<delivered, kout>> /\ queued' = queued + n + f
        BY <1>0
      <4> QED
        BY <4>1, <4>2, <1>1, <1>6, <1>7, <1>8
    <3> QED
      BY <2>1, <3>1, <3>2, <1>0, OutCounts DEF Output
  <2>2. ASSUME ~Sending' PROVE Output'
    <3>1. /\ delivered' \in Seq(Nat) /\ kout' \in Seq(Nat)
          /\ Len(delivered') + Len(kout') <= queued /\ queued \in Nat
          /\ Len(delivered') \in Nat /\ Len(kout') \in Nat
      BY <1>0, OutCounts
    <3>2. Len(delivered') + Len(kout') <= queued'
      BY <3>1, <1>0, <1>1
    <3> QED
      BY <2>2, <3>1, <3>2 DEF Output
  <2> QED
    BY <2>1, <2>2
<1>12. /\ wWrite' \in Nat /\ wRead' <= wWrite' /\ queued' \in 0..MaxQueued
       /\ Len(delivered') <= queued'
  <2>1. wWrite' \in Nat /\ wRead' <= wWrite'
    BY <1>1, <1>5
  <2>2. Len(delivered) \in Nat /\ Len(delivered) <= queued /\ queued \in Nat
    BY OutCounts
  <2>3. queued' = queued + n + f /\ queued' <= MaxQueued /\ delivered' = delivered
    BY <1>0, <1>1
  <2>4. n \in Nat /\ f \in Nat
    BY <1>1
  <2>5. queued' \in 0..MaxQueued /\ Len(delivered') <= queued'
    BY <2>2, <2>3, <2>4, Constants
  <2> QED
    BY <2>1, <2>5
<1> QED
  BY <1>0, <1>5, <1>7, <1>8, <1>11, <1>12, Constants DEF OutSide

\* The two iovecs, one after the other, hold what comes after the kernel's bytes.
LEMMA GatherRun ==
    ASSUME OutSide, Sending
    PROVE  IsRun(Gather, Len(delivered) + Len(kout)) /\ Len(Gather) = pending
<1> DEFINE d == Len(delivered) + Len(kout)
           c == Out!Contents
           s == Stream(iov_base, iov_base + iov_len - 1)
<1>1. /\ d \in Nat /\ Out!used \in Nat /\ iov_len \in Nat /\ pending = Out!used + iov_len
      /\ wMem \in Memory /\ wRead \in Nat /\ wWrite \in Nat /\ Out!used = wWrite - wRead
      /\ wRead <= wWrite /\ wWrite <= kBufferSize /\ iov_base \in Nat
  BY OutCounts, Constants DEF OutSide
<1>2. /\ HoldsRun(wMem, wRead, wWrite, d)
      /\ iov_len > 0 => iov_base = d + Out!used + 1
  BY DEF OutSide, Output
<1> HIDE DEF d
<1>3. IsRun(c, d) /\ Len(c) = Out!used
  <2>1. c = [k \in 1..(wWrite - wRead) |-> wMem[wRead + k - 1]]
    BY DEF Out!Contents, Out!used
  <2> QED
    BY <2>1, <1>1, <1>2, HeldIsRun
<1> HIDE DEF c
<1>4. IsRun(s, d + Out!used) /\ Len(s) = iov_len
  <2>1. CASE iov_len > 0
    <3>1. iov_base = (d + Out!used) + 1 /\ iov_base + iov_len - 1 = (d + Out!used) + iov_len
          /\ d + Out!used \in Nat
      BY <2>1, <1>1, <1>2
    <3> QED
      BY <3>1, <1>1, StreamIsRun
  <2>2. CASE iov_len = 0
    <3>1. s = [k \in 1..0 |-> iov_base + k - 1]
      BY <2>2, <1>1 DEF Stream
    <3> HIDE DEF s
    <3>2. s = <<>>
      BY <3>1
    <3> QED
      BY <3>2, <2>2, <1>1, EmptyRun
  <2> QED
    BY <2>1, <2>2, <1>1
<1>5. Gather = c \o s
  BY DEF Gather, c
<1> HIDE DEF s
<1>6. IsRun(s, d + Len(c)) /\ d \in Int
  BY <1>1, <1>3, <1>4
<1>7. IsRun(c \o s, d) /\ Len(c \o s) = Len(c) + Len(s)
  BY <1>3, <1>6, RunConcat
<1> QED
  BY <1>1, <1>3, <1>4, <1>5, <1>7 DEF d

LEMMA WritevOut ==
    ASSUME OutSide, NEW n \in 1..SocketBuffer, Writev(n)
    PROVE  OutSide'
<1>0. /\ pc = "send" /\ pc' = "send" /\ peer # "reset" /\ n <= pending
      /\ Len(kout) + n <= SocketBuffer
      /\ kout' = kout \o SubSeq(Gather, 1, n)
      /\ IF n > Out!used
         THEN /\ iov_base' = iov_base + OfFile(n) /\ iov_len' = iov_len - OfFile(n)
              /\ wRead' = 0 /\ wWrite' = 0
         ELSE /\ wRead' = wRead + n /\ wWrite' = wWrite
              /\ UNCHANGED <<iov_base, iov_len>>
      /\ mapped /\ mapped' /\ UNCHANGED <<wMem, mapped, queued, peer, kin, delivered>>
  BY DEF Writev, calls, iov, Out!reset, Out!readPtrMove
<1> DEFINE d == Len(delivered) + Len(kout)
<1>1. /\ n \in Nat /\ n > 0 /\ d \in Nat /\ Out!used \in Nat /\ iov_len \in Nat
      /\ pending = Out!used + iov_len
      /\ wMem \in Memory /\ wRead \in Nat /\ wWrite \in Nat /\ Out!used = wWrite - wRead
      /\ wRead <= wWrite /\ wWrite <= kBufferSize /\ iov_base \in Nat /\ iov_len <= MaxQueued
      /\ OfFile(n) = n - Out!used
      /\ MaxQueued \in Nat
  BY OutCounts, Constants DEF OutSide, OfFile
<1>2. Sending /\ Sending'
  BY <1>0 DEF Sending, Closed
<1>3. /\ IsRun(delivered, 0) /\ IsRun(kout, Len(delivered))
      /\ HoldsRun(wMem, wRead, wWrite, d)
      /\ iov_len > 0 => iov_base = d + Out!used + 1
      /\ d + pending = queued
  BY <1>2 DEF OutSide, Output
<1>4. IsRun(kout', Len(delivered)) /\ Len(kout') = Len(kout) + n
  <2>1. IsRun(Gather, d) /\ Len(Gather) = pending
    BY <1>2, GatherRun
  <2>2. IsRun(SubSeq(Gather, 1, n), d) /\ Len(SubSeq(Gather, 1, n)) = n
    <3>1. n \in 0..Len(Gather) /\ d \in Int
      BY <2>1, <1>0, <1>1, OutCounts
    <3> HIDE DEF d
    <3> QED
      BY <3>1, <2>1, RunCut
  <2> QED
    BY <2>2, <1>0, <1>3, OutCounts, RunConcat
<1>5. Len(delivered') + Len(kout') = d + n
  BY <1>0, <1>1, <1>4, OutCounts
<1> HIDE DEF d
<1>6. CASE n > Out!used
  <2>1. /\ iov_base' = iov_base + (n - Out!used) /\ iov_len' = iov_len - (n - Out!used)
        /\ wRead' = 0 /\ wWrite' = 0
    BY <1>0, <1>1, <1>6
  <2>2. /\ iov_base' \in Nat /\ iov_len' \in Nat /\ iov_len' <= MaxQueued
        /\ wRead' \in Nat /\ wWrite' \in Nat /\ wRead' <= wWrite' /\ wWrite' <= kBufferSize
    BY <2>1, <1>0, <1>1, <1>6, Constants
  <2>3. Out!used' = 0
    BY <2>1 DEF Out!used
  <2>4. d + n + pending' = queued'
    BY <2>1, <2>3, <1>0, <1>1, <1>3 DEF pending
  <2>5. iov_len' > 0 => iov_base' = d + n + Out!used' + 1
    <3>1. iov_len' > 0 => iov_base = d + Out!used + 1
      BY <2>1, <1>1, <1>3, <1>6
    <3> QED
      BY <3>1, <2>1, <2>3, <1>1
  <2>6. HoldsRun(wMem', wRead', wWrite', d + n)
    BY <2>1 DEF HoldsRun
  <2> QED
    BY <2>2, <2>4, <2>5, <2>6, <1>0, <1>2, <1>3, <1>4, <1>5, OutCounts DEF OutSide, Output
<1>7. CASE ~(n > Out!used)
  <2>1. wRead' = wRead + n /\ wWrite' = wWrite /\ UNCHANGED <<iov_base, iov_len>>
    BY <1>0, <1>7
  <2>2. wRead' \in Nat /\ wWrite' \in Nat /\ wRead' <= wWrite' /\ wWrite' <= kBufferSize
    BY <2>1, <1>1, <1>7
  <2>3. Out!used' = Out!used - n
    BY <2>1, <1>1 DEF Out!used
  <2>4. d + n + pending' = queued'
    BY <2>1, <2>3, <1>0, <1>1, <1>3 DEF pending
  <2>5. iov_len' > 0 => iov_base' = d + n + Out!used' + 1
    BY <2>1, <2>3, <1>1, <1>3
  <2>6. HoldsRun(wMem', wRead', wWrite', d + n)
    <3>1. ASSUME NEW a \in (wRead + n)..(wWrite - 1)
          PROVE  wMem[a] = d + n + 1 + (a - (wRead + n))
      <4>1. a \in wRead..(wWrite - 1) /\ d + n + 1 + (a - (wRead + n)) = d + 1 + (a - wRead)
        BY <1>1
      <4> QED
        BY <4>1, <1>3 DEF HoldsRun
    <3> QED
      BY <2>1, <3>1, <1>0 DEF HoldsRun
  <2>7. iov_base' \in Nat /\ iov_len' \in 0..MaxQueued
    BY <2>1, <1>1
  <2> QED
    BY <2>2, <2>4, <2>5, <2>6, <2>7, <1>0, <1>2, <1>3, <1>4, <1>5, OutCounts DEF OutSide, Output
<1> QED
  BY <1>6, <1>7

-----------------------------------------------------------------------------
(* Every step keeps the invariant.                                           *)

LEMMA ControlKept ==
    ASSUME Control, UNCHANGED calls, pending' = pending,
           In!used' = In!used, In!avail' = In!avail, UNCHANGED iov,
           UNCHANGED <<peer, kin>> \/ peer' # "open" \/ (peer' = peer /\ kin' # <<>>)
    PROVE  Control'
BY DEF calls, iov, Control, ReturnsPending, SomethingThere, LastAnswer, ClosedOnlyWhenDue

LEMMA PeerSteps ==
    ASSUME ConnectionInv,
           \/ \E n \in 1..SocketBuffer : PeerSend(n)
           \/ PeerClose \/ PeerReset
    PROVE  ConnectionInv'
<1>0. InSide /\ OutSide /\ Control
  BY Parts
<1>1. ASSUME NEW n \in 1..SocketBuffer, PeerSend(n) PROVE ConnectionInv'
  <2>1. InSide' /\ In!used' = In!used /\ In!avail' = In!avail
    BY <1>0, <1>1, PeerSendIn
  <2>2. OutSide' /\ pending' = pending
    <3>1. Sending' <=> Sending
      BY <1>1 DEF PeerSend, calls, iov, Closed, Sending
    <3> QED
      BY <3>1, <1>0, <1>1, OutKept DEF PeerSend
  <2>3. peer' = peer /\ kin' # <<>>
    <3>1. sent' = sent + n /\ peer = "open" /\ peer' = peer /\ taken' = taken
      BY <1>1 DEF PeerSend
    <3>2. taken' + In!used' + Len(kin') = sent' /\ taken + In!used + Len(kin) = sent
      BY <3>1, <2>1, <1>0 DEF InSide, Input
    <3>3. n \in Nat /\ n > 0
      BY Constants
    <3>4. Len(kin') > 0
      <4>1. Len(kin') \in Nat
        <5>1. kin' \in Seq(Nat)
          BY <2>1 DEF InSide, Input, IsRun
        <5> QED
          BY <5>1
      <4> QED
        BY <3>1, <3>2, <3>3, <2>1, <4>1, <1>0, InCounts
    <3>5. Len(<<>>) = 0
      OBVIOUS
    <3> QED
      BY <3>1, <3>4, <3>5
  <2>4. Control'
    BY <2>1, <2>2, <2>3, <1>0, <1>1, ControlKept DEF PeerSend
  <2> QED
    BY <2>1, <2>2, <2>4, PartsAfter
<1>2. CASE PeerClose
  <2>1. InSide' /\ In!used' = In!used /\ In!avail' = In!avail
    BY <1>0, <1>2, PeerCloseIn
  <2>2. OutSide' /\ pending' = pending
    <3>1. Sending' <=> Sending
      BY <1>2 DEF PeerClose, calls, iov, Closed, Sending
    <3> QED
      BY <3>1, <1>0, <1>2, OutKept DEF PeerClose
  <2>3. Control'
    BY <2>1, <2>2, <1>0, <1>2, ControlKept DEF PeerClose
  <2> QED
    BY <2>1, <2>2, <2>3, PartsAfter
<1>3. CASE PeerReset
  <2>1. InSide' /\ In!used' = In!used /\ In!avail' = In!avail
    BY <1>0, <1>3, PeerResetIn
  <2>2. OutSide' /\ pending' = pending
    BY <1>0, <1>3, PeerResetOut
  <2>3. Control'
    BY <2>1, <2>2, <1>0, <1>3, ControlKept DEF PeerReset
  <2> QED
    BY <2>1, <2>2, <2>3, PartsAfter
<1> QED
  BY <1>1, <1>2, <1>3

LEMMA NetworkSteps == ASSUME ConnectionInv, Network PROVE ConnectionInv'
<1>0. InSide /\ OutSide /\ Control
  BY Parts
<1>1. PICK n \in 1..SocketBuffer : Deliver(n)
  BY DEF Network
<1>2. OutSide' /\ pending' = pending
  BY <1>0, <1>1, DeliverOut
<1>3. InSide' /\ In!used' = In!used /\ In!avail' = In!avail
  BY <1>0, <1>1, InKept DEF Deliver
<1>4. Control'
  BY <1>0, <1>1, <1>2, <1>3, ControlKept DEF Deliver
<1> QED
  BY <1>2, <1>3, <1>4, PartsAfter

\* A step that only moves the connection on, and does not close it, moves no byte.
LEMMA BecomesKeeps ==
    ASSUME InSide, OutSide, NEW from, NEW to, Becomes(from, to),
           from \notin {"closed", "finished"}, to \notin {"closed", "finished"}
    PROVE  /\ InSide' /\ In!used' = In!used /\ In!avail' = In!avail
           /\ OutSide' /\ pending' = pending
           /\ pc = from /\ pc' = to /\ UNCHANGED <<last_used, ret, mapped, peer, kin>>
<1>1. /\ pc = from /\ pc' = to
      /\ UNCHANGED <<rbuf, wbuf, iov, last_used, ret, taken, queued,
                     peer, sent, kin, kout, delivered>>
  BY DEF Becomes, net
<1>2. InSide' /\ In!used' = In!used /\ In!avail' = In!avail
  BY <1>1, InKept
<1>3. Sending' <=> Sending
  BY <1>1, SendingKept DEF Closed
<1>4. OutSide' /\ pending' = pending
  BY <1>1, <1>3, OutKept
<1> QED
  BY <1>1, <1>2, <1>4 DEF iov

\* It keeps the invariant if what has to hold at the new place does.
LEMMA BecomesStep ==
    ASSUME ConnectionInv, NEW from, NEW to, Becomes(from, to), from \notin {"closed", "finished"},
           to \in {"in", "out", "called", "writable", "hangup", "recv", "send", "close"},
           to \in {"in", "called", "recv"} => pending = 0,
           to \in {"out", "writable"} => pending > 0,
           to \in {"called", "recv"} => peer # "open" \/ kin # <<>>,
           to \in {"hangup", "close"} => peer # "open",
           to \in {"in", "called", "recv"} => mapped
    PROVE  ConnectionInv'
<1>0. InSide /\ OutSide /\ Control
  BY Parts
<1>1. /\ InSide' /\ In!used' = In!used /\ In!avail' = In!avail
      /\ OutSide' /\ pending' = pending
      /\ pc' = to /\ UNCHANGED <<last_used, ret, mapped, peer, kin>>
  BY <1>0, BecomesKeeps
<1>2. ReturnsPending'
  BY <1>1 DEF ReturnsPending
<1>3. SomethingThere'
  BY <1>1 DEF SomethingThere
<1>4. ClosedOnlyWhenDue'
  BY <1>1 DEF ClosedOnlyWhenDue
<1>a. LastAnswer'
  BY <1>1 DEF LastAnswer
<1>5. Control'
  BY <1>0, <1>1, <1>2, <1>3, <1>4, <1>a DEF Control
<1> QED
  BY <1>1, <1>5, PartsAfter

LEMMA LoopSteps == ASSUME ConnectionInv, Loop PROVE ConnectionInv'
<1>0. InSide /\ OutSide /\ Control
  BY Parts
<1>a. /\ pc \in {"accepted", "in"} => pending = 0
      /\ pc = "out" => pending > 0
      /\ pc \in {"accepted", "in"} => mapped
  BY <1>0 DEF Control, ReturnsPending, LastAnswer, OutSide
<1>1. CASE EpollAdd
  <2>1. Becomes("accepted", "in") /\ pc = "accepted"
    BY <1>1 DEF EpollAdd, Becomes
  <2> QED
    BY <2>1, <1>a, BecomesStep
<1>2. CASE Report
  <2>1. CASE kin # <<>> /\ Becomes("in", "called")
    <3>1. pc = "in"
      BY <2>1 DEF Becomes
    <3> QED
      BY <2>1, <3>1, <1>a, BecomesStep
  <2>2. CASE Becomes("out", "writable")
    <3>1. pc = "out"
      BY <2>2 DEF Becomes
    <3> QED
      BY <2>2, <3>1, <1>a, BecomesStep
  <2> QED
    BY <1>2, <2>1, <2>2 DEF Report
<1>3. CASE Hangup
  <2>1. PICK from \in {"in", "out"} : Becomes(from, "hangup") /\ peer # "open"
    BY <1>3 DEF Hangup
  <2> QED
    BY <2>1, BecomesStep
<1> QED
  BY <1>1, <1>2, <1>3 DEF Loop

LEMMA TurnSteps == ASSUME ConnectionInv, Turn PROVE ConnectionInv'
<1>0. InSide /\ OutSide /\ Control
  BY Parts
<1>1. CASE Becomes("called", "recv")
  <2>1. pending = 0 /\ (peer # "open" \/ kin # <<>>) /\ mapped
    BY <1>0, <1>1 DEF Becomes, Control, ReturnsPending, SomethingThere, LastAnswer, OutSide
  <2> QED
    BY <1>1, <2>1, BecomesStep
<1>2. CASE Becomes("writable", "send")
  BY <1>2, BecomesStep
<1>3. CASE Becomes("hangup", "close")
  <2>1. peer # "open"
    BY <1>0, <1>3 DEF Becomes, Control, SomethingThere
  <2> QED
    BY <1>3, <2>1, BecomesStep
<1>4. CASE CloseConn
  <2>0. /\ pc = "close" /\ pc' = "closed"
        /\ kout' = IF kin # <<>> THEN <<>> ELSE kout
        /\ UNCHANGED <<rbuf, wbuf, iov, last_used, ret, taken, queued, peer, sent, kin, delivered>>
    BY <1>4 DEF CloseConn, CloseAs
  <2>1. InSide' /\ In!used' = In!used /\ In!avail' = In!avail
    BY <2>0, <1>0, InKept
  <2>2. OutSide'
    BY <2>0, <1>0, OutLeft DEF Closed, iov
  <2>3. Control'
    BY <2>0, <2>1, <1>0
    DEF Control, ReturnsPending, SomethingThere, LastAnswer, ClosedOnlyWhenDue, iov
  <2> QED
    BY <2>1, <2>2, <2>3, PartsAfter
<1> QED
  BY <1>1, <1>2, <1>3, <1>4 DEF Turn, Handle

\* recv returns to its caller with r: what has arrived, or the reason to close.
LEMMA ReadFdReturns ==
    ASSUME InSide, OutSide, Control, pc \in {"recv", "readFd"},
           NEW r \in -1..kBufferSize, readFdReturns(r),
           r <= 0 => peer # "open" \/ (r = 0 /\ In!avail = 0)
    PROVE  ConnectionInv'
<1>0. /\ ret' = r /\ pc' = ReadBack(r)
      /\ UNCHANGED <<rbuf, wbuf, iov, last_used, taken, queued, peer, sent, kin, kout, delivered>>
  BY DEF readFdReturns, net
<1>1. InSide' /\ In!used' = In!used /\ In!avail' = In!avail
  BY <1>0, InKept
<1>2. OutSide' /\ pending' = pending
  BY <1>0, OutKept, SendingKept DEF Closed, ReadBack
<1>3. pending = 0
  BY DEF Control, ReturnsPending
<1>4. CASE r <= 0
  <2>1. pc' = "close"
    BY <1>0, <1>4 DEF ReadBack
  <2>2. Control'
    BY <2>1, <1>0, <1>1, <1>4
    DEF Control, ReturnsPending, SomethingThere, LastAnswer, ClosedOnlyWhenDue, iov
  <2> QED
    BY <2>2, <1>1, <1>2, PartsAfter
<1>5. CASE ~(r <= 0)
  <2>1. pc' = "handler"
    BY <1>0, <1>5 DEF ReadBack
  <2>2. Control'
    BY <2>1, <1>0, <1>1, <1>2, <1>3
    DEF Control, ReturnsPending, SomethingThere, LastAnswer, ClosedOnlyWhenDue, iov
  <2> QED
    BY <2>2, <1>1, <1>2, PartsAfter
<1> QED
  BY <1>4, <1>5

LEMMA ReadFdSteps == ASSUME ConnectionInv, ReadFd PROVE ConnectionInv'
<1>0. InSide /\ OutSide /\ Control
  BY Parts
<1>a. /\ In!used \in Nat /\ In!used <= kBufferSize /\ In!avail \in Nat
      /\ In!avail = kBufferSize - In!used
  BY <1>0, InCounts, Constants
<1>b. last_used \in Nat /\ (pc = "readFd" => received \in Nat /\ received <= kBufferSize)
  BY <1>0, <1>a, Constants DEF Control, SomethingThere, received
<1>1. CASE Recv /\ In!avail = 0
  <2>1. 0 \in -1..kBufferSize /\ readFdReturns(0) /\ pc \in {"recv", "readFd"}
    BY <1>1, Constants DEF Recv
  <2> QED
    BY <2>1, <1>0, <1>1, ReadFdReturns
<1>2. CASE Recv /\ In!avail # 0
  <2>0. /\ pc = "recv" /\ pc' = "readFd" /\ last_used' = In!used
        /\ UNCHANGED <<rbuf, wbuf, iov, ret, taken, queued, peer, sent, kin, kout, delivered>>
    BY <1>2 DEF Recv, net
  <2>1. InSide' /\ In!used' = In!used /\ In!avail' = In!avail
    BY <2>0, <1>0, InKept
  <2>2. OutSide' /\ pending' = pending
    BY <2>0, <1>0, OutKept, SendingKept DEF Closed
  <2>3. last_used' \in 0..kBufferSize /\ last_used' = In!used'
    BY <2>0, <2>1, <1>a
  <2>4. Control'
    BY <2>0, <2>1, <2>2, <2>3, <1>0, <1>a
    DEF Control, ReturnsPending, SomethingThere, LastAnswer, ClosedOnlyWhenDue, iov
  <2> QED
    BY <2>1, <2>2, <2>4, PartsAfter
<1>3. CASE RecvFull
  <2>1. /\ pc = "readFd" /\ In!avail = 0 /\ readFdReturns(received)
        /\ received \in -1..kBufferSize /\ received >= 0
    BY <1>3, <1>b, Constants DEF RecvFull
  <2>2. received <= 0 => received = 0
    BY <2>1, <1>b
  <2> QED
    BY <2>1, <2>2, <1>0, ReadFdReturns
<1>4. CASE RecvCompact
  <2>0. /\ pc = "readFd"
        /\ UNCHANGED <<wbuf, iov, pc, last_used, ret, queued, peer, sent, kin, kout, delivered>>
    BY <1>4 DEF RecvCompact, calls, net
  <2>1. InSide' /\ In!used' = In!used
    BY <1>0, <1>4, RecvCompactIn
  <2>2. In!avail' = In!avail
    BY <2>1 DEF In!avail
  <2>3. OutSide' /\ pending' = pending
    BY <2>0, <1>0, OutKept, SendingKept DEF Closed
  <2>4. Control'
    BY <2>0, <2>1, <2>2, <2>3, <1>0, ControlKept DEF calls
  <2> QED
    BY <2>1, <2>3, <2>4, PartsAfter
<1>5. ASSUME NEW n \in 1..SocketBuffer, RecvBytes(n) PROVE ConnectionInv'
  <2>0. /\ pc = "readFd"
        /\ UNCHANGED <<wbuf, iov, pc, last_used, ret, queued, peer, kout, delivered>>
    BY <1>5 DEF RecvBytes, calls
  <2>1. InSide' /\ In!used' = In!used + n
    BY <1>0, <1>5, RecvBytesIn
  <2>2. OutSide' /\ pending' = pending
    BY <2>0, <1>0, OutKept, SendingKept DEF Closed
  <2>3. last_used' < In!used'
    <3>1. last_used <= In!used /\ n \in Nat /\ n > 0
      BY <2>0, <1>0, Constants DEF Control, SomethingThere
    <3> QED
      BY <3>1, <2>0, <2>1, <1>a, <1>b
  <2>4. SomethingThere'
    <3>1. last_used' <= In!used' /\ last_used' # In!used'
      <4>1. last_used' \in Nat /\ In!used' \in Nat
        BY <2>0, <2>1, <1>a, <1>b, Constants
      <4> QED
        BY <4>1, <2>3
    <3> QED
      BY <3>1, <2>0 DEF SomethingThere
  <2>5. Control'
    BY <2>0, <2>2, <2>4, <1>0
    DEF Control, ReturnsPending, LastAnswer, ClosedOnlyWhenDue, iov
  <2> QED
    BY <2>1, <2>2, <2>5, PartsAfter
<1>6. CASE RecvEmpty
  <2>1. /\ pc = "readFd" /\ kin = <<>>
        /\ readFdReturns(IF peer = "open" THEN received ELSE -1)
    BY <1>6 DEF RecvEmpty
  <2>2. CASE peer = "open"
    <3>1. last_used # In!used
      BY <2>1, <2>2, <1>0 DEF Control, SomethingThere
    <3>2. received > 0 /\ received \in -1..kBufferSize
      <4>1. last_used <= In!used
        BY <2>1, <1>0 DEF Control, SomethingThere
      <4>2. received > 0
        BY <3>1, <4>1, <1>a, <1>b DEF received
      <4> QED
        BY <4>2, <2>1, <1>b, Constants
    <3>3. ~(received <= 0)
      BY <3>2
    <3> QED
      BY <2>1, <2>2, <3>2, <3>3, <1>0, ReadFdReturns
  <2>3. CASE peer # "open"
    <3>1. -1 \in -1..kBufferSize
      BY Constants
    <3>2. readFdReturns(-1)
      BY <2>1, <2>3
    <3> QED
      BY <2>1, <2>3, <3>1, <3>2, <1>0, ReadFdReturns
  <2> QED
    BY <2>2, <2>3
<1> QED
  BY <1>1, <1>2, <1>3, <1>4, <1>5, <1>6 DEF ReadFd

LEMMA CallbackSteps ==
    ASSUME ConnectionInv,
           \/ \E len \in 1..kBufferSize : Read(len) \/ TakeLine(len)
           \/ AwaitMore \/ Answer
    PROVE  ConnectionInv'
<1>0. InSide /\ OutSide /\ Control
  BY Parts
<1>1. ASSUME NEW len \in 1..kBufferSize, Read(len) \/ TakeLine(len) PROVE ConnectionInv'
  <2>0. /\ pc = "handler"
        /\ UNCHANGED <<wbuf, iov, pc, last_used, ret, queued, peer, kin, kout, delivered>>
    BY <1>1 DEF Read, TakeLine, calls, net
  <2>1. InSide'
    BY <1>0, <1>1, ReadIn
  <2>2. OutSide' /\ pending' = pending
    BY <2>0, <1>0, OutKept, SendingKept DEF Closed
  <2>3. Control'
    BY <2>0, <2>2, <1>0
    DEF Control, ReturnsPending, SomethingThere, LastAnswer, ClosedOnlyWhenDue, iov
  <2> QED
    BY <2>1, <2>2, <2>3, PartsAfter
<1>2. CASE AwaitMore
  <2>1. Becomes("handler", "in") /\ pending = 0 /\ mapped
    BY <1>2, <1>0 DEF AwaitMore, Becomes, Control, ReturnsPending, LastAnswer, OutSide
  <2> QED
    BY <2>1, BecomesStep
<1>3. CASE Answer
  <2>0. PICK n \in 1..kBufferSize, f \in 0..MaxQueued : Respond(n, f)
    BY <1>3 DEF Answer
  <2>1. /\ pc = "handler" /\ pc' = "out"
        /\ UNCHANGED <<rbuf, last_used, ret, taken, peer, sent, kin>>
    BY <2>0 DEF Respond, net
  <2>2. InSide'
    BY <2>1, <1>0, InKept
  <2>3. pending = 0 /\ mapped
    BY <2>1, <1>0 DEF Control, ReturnsPending, LastAnswer, OutSide
  <2>4. OutSide' /\ pending' > 0
    BY <2>0, <2>3, <1>0, RespondOut
  <2>5. Control'
    BY <2>1, <2>4, <1>0
    DEF Control, ReturnsPending, SomethingThere, LastAnswer, ClosedOnlyWhenDue, iov
  <2> QED
    BY <2>2, <2>4, <2>5, PartsAfter
<1> QED
  BY <1>1, <1>2, <1>3

LEMMA SendSteps == ASSUME ConnectionInv, Send PROVE ConnectionInv'
<1>0. InSide /\ OutSide /\ Control
  BY Parts
<1>1. CASE WritevAgain
  <2>1. pending > 0 /\ Becomes("send", "out")
    BY <1>1, <1>0, OutCounts DEF WritevAgain, unsent
  <2> QED
    BY <2>1, BecomesStep
<1>2. CASE SendEnds
  <2>1. /\ pc = "send" /\ pc' \in {"in", "finished", "close"}
        /\ IF pc' = "close" THEN peer = "reset" \/ ~mapped ELSE pending = 0 /\ mapped
        /\ kout' = IF pc' = "finished" /\ kin # <<>> THEN <<>> ELSE kout
        /\ iov_base' = 0 /\ iov_len' = 0 /\ UNCHANGED mapped
        /\ UNCHANGED <<rbuf, wbuf, last_used, ret, taken, queued, peer, sent, kin, delivered>>
    BY <1>2 DEF SendEnds, WritevFails, CloseAs, net
  <2>2. /\ pending = 0 => iov_len = 0 /\ Out!used = 0
        /\ peer = "reset" \/ ~mapped => ~Sending
    BY <1>0, OutCounts DEF Sending
  <2>3. InSide'
    BY <2>1, <1>0, InKept
  <2>4. OutSide'
    BY <2>1, <2>2, <1>0, OutLeft DEF Closed
  <2>5. pending = 0 => pending' = 0
    BY <2>1, <2>2 DEF pending, wbuf, Out!used
  <2>6. Control'
    BY <2>1, <2>5, <1>0
    DEF Control, ReturnsPending, SomethingThere, LastAnswer, ClosedOnlyWhenDue, iov
  <2> QED
    BY <2>3, <2>4, <2>6, PartsAfter
<1>3. ASSUME NEW n \in 1..SocketBuffer, Writev(n) PROVE ConnectionInv'
  <2>0. /\ pc = "send"
        /\ UNCHANGED <<rbuf, pc, last_used, ret, taken, peer, sent, kin>>
    BY <1>3 DEF Writev, calls
  <2>1. InSide'
    BY <2>0, <1>0, InKept
  <2>2. OutSide'
    BY <1>0, <1>3, WritevOut
  <2>3. Control'
    BY <2>0, <1>0
    DEF Control, ReturnsPending, SomethingThere, LastAnswer, ClosedOnlyWhenDue, iov
  <2> QED
    BY <2>1, <2>2, <2>3, PartsAfter
<1> QED
  BY <1>1, <1>2, <1>3 DEF Send

LEMMA ConnectionInvInit == Init => ConnectionInv
<1> SUFFICES ASSUME Init PROVE ConnectionInv
  OBVIOUS
<1>0. /\ rMem = [a \in In!Addresses |-> Nul] /\ rRead = 0 /\ rWrite = 0
      /\ wMem = rMem /\ wRead = 0 /\ wWrite = 0 /\ iov_base = 0 /\ iov_len = 0 /\ mapped = TRUE
      /\ pc = "accepted" /\ last_used = 0 /\ ret = 0 /\ taken = 0 /\ queued = 0
      /\ peer = "open" /\ sent = 0 /\ kin = <<>> /\ kout = <<>> /\ delivered = <<>>
  BY DEF Init
<1>1. rMem \in Memory
  BY <1>0, Constants DEF Memory, In!Addresses
<1>2. /\ In!used = 0 /\ Out!used = 0 /\ pending = 0
      /\ Len(kin) = 0 /\ Len(kout) = 0 /\ Len(delivered) = 0
  BY <1>0 DEF In!used, Out!used, pending
<1>3. IsRun(kin, 0) /\ IsRun(kout, 0) /\ IsRun(delivered, 0) /\ delivered \in Seq(Nat)
  <2>1. IsRun(<<>>, 0)
    BY EmptyRun
  <2> QED
    BY <2>1, <1>0 DEF IsRun
<1>4. HoldsRun(rMem, 0, 0, 0) /\ HoldsRun(wMem, 0, 0, 0)
  BY DEF HoldsRun
<1>5. InSide
  BY <1>0, <1>1, <1>2, <1>3, <1>4, Constants DEF InSide, Input
<1>6. OutSide
  <2>1. Output
    BY <1>0, <1>2, <1>3, <1>4 DEF Output, Sending, Closed
  <2> QED
    BY <2>1, <1>0, <1>1, <1>2, Constants DEF OutSide
<1>7. Control
  BY <1>0, <1>2, Constants
  DEF Control, ReturnsPending, SomethingThere, LastAnswer, ClosedOnlyWhenDue, iov
<1> QED
  BY <1>5, <1>6, <1>7, Parts

LEMMA ConnectionInvStep == ConnectionInv /\ [Next]_vars => ConnectionInv'
<1> SUFFICES ASSUME ConnectionInv, [Next]_vars PROVE ConnectionInv'
  OBVIOUS
<1>1. CASE Loop \/ Turn
  BY <1>1, LoopSteps, TurnSteps
<1>2. CASE ReadFd
  BY <1>2, ReadFdSteps
<1>3. CASE AwaitMore \/ Answer \/ \E len \in 1..kBufferSize : Read(len) \/ TakeLine(len)
  BY <1>3, CallbackSteps
<1>4. CASE Send
  BY <1>4, SendSteps
<1>5. CASE Network
  BY <1>5, NetworkSteps
<1>6. CASE PeerClose \/ PeerReset \/ \E n \in 1..SocketBuffer : PeerSend(n)
  BY <1>6, PeerSteps
<1>7. CASE UNCHANGED vars
  <2>0. InSide /\ OutSide /\ Control
    BY Parts
  <2>1. InSide' /\ In!used' = In!used /\ In!avail' = In!avail
    BY <2>0, <1>7, InKept DEF vars, net
  <2>2. OutSide' /\ pending' = pending
    <3>1. Sending' <=> Sending
      BY <1>7 DEF vars, net, calls, iov, Closed, Sending
    <3> QED
      BY <3>1, <2>0, <1>7, OutKept DEF vars, net
  <2>3. Control'
    BY <2>0, <2>1, <2>2, <1>7, ControlKept DEF vars, net
  <2> QED
    BY <2>1, <2>2, <2>3, PartsAfter
<1> QED
  BY <1>1, <1>2, <1>3, <1>4, <1>5, <1>6, <1>7 DEF Next

LEMMA ConnectionInvAlways == Spec => []ConnectionInv
BY ConnectionInvInit, ConnectionInvStep, PTL DEF Spec

-----------------------------------------------------------------------------
(* The theorems.                                                             *)

\* The pointers of both buffers stay in order and inside their blocks, and every
\* count inside its bounds.
THEOREM ConnectionTypes == Spec => []TypeOK
BY ConnectionInvAlways, PTL DEF ConnectionInv

LEMMA InputIsStream == ConnectionInv => StreamIntact
<1> SUFFICES ASSUME ConnectionInv PROVE StreamIntact
  OBVIOUS
<1>0. InSide
  BY Parts
<1>1. /\ taken \in Nat /\ In!used \in Nat /\ kin \in Seq(Nat) /\ Len(kin) \in Nat
      /\ taken + In!used + Len(kin) <= sent /\ sent \in Nat
  BY <1>0, InCounts, Constants
<1>2. IsRun(In!Contents, taken) /\ Len(In!Contents) = In!used
  <2>1. In!Contents = [k \in 1..(rWrite - rRead) |-> rMem[rRead + k - 1]]
    BY DEF In!Contents, In!used
  <2>2. /\ rMem \in Memory /\ rRead \in Nat /\ rWrite \in Nat
        /\ rRead <= rWrite /\ rWrite <= kBufferSize /\ HoldsRun(rMem, rRead, rWrite, taken)
    BY <1>0, InCounts DEF InSide
  <2>3. In!used = rWrite - rRead
    BY DEF In!used
  <2> QED
    BY <2>1, <2>2, <2>3, <1>1, HeldIsRun
<1>3. /\ IsRun(In!Contents \o kin, taken)
      /\ Len(In!Contents \o kin) = In!used + Len(kin)
  <2>1. IsRun(kin, taken + Len(In!Contents)) /\ taken \in Int
    BY <1>0, <1>1, <1>2, InCounts
  <2> QED
    BY <2>1, <1>2, RunConcat
<1>4. In!Contents \o kin = Stream(taken + 1, taken + In!used + Len(kin))
  <2>1. In!Contents \o kin = Stream(taken + 1, taken + (In!used + Len(kin)))
    BY <1>1, <1>3, RunIsStream
  <2>2. taken + (In!used + Len(kin)) = taken + In!used + Len(kin)
    BY <1>1
  <2> QED
    BY <2>1, <2>2
<1>5. taken + In!used + Len(kin) \in taken..sent
  BY <1>1
<1>6. peer # "reset" => taken + In!used + Len(kin) = sent
  BY <1>0 DEF InSide, Input
<1> QED
  BY <1>4, <1>5, <1>6 DEF StreamIntact

\* Nothing the peer has sent is lost, duplicated or reordered on its way to the
\* callback, for buffers of any size.
THEOREM NothingLost == Spec => []StreamIntact
BY ConnectionInvAlways, InputIsStream, PTL

LEMMA OutputIsStream == ConnectionInv => ResponseIntact
<1> SUFFICES ASSUME ConnectionInv, Sending PROVE delivered \o kout \o Gather = Stream(1, queued)
  BY DEF ResponseIntact, Sending
<1>0. OutSide
  BY Parts
<1>1. /\ Len(delivered) \in Nat /\ Len(kout) \in Nat /\ pending \in Nat /\ queued \in Nat
  BY <1>0, OutCounts, Constants
<1>2. /\ IsRun(delivered, 0) /\ IsRun(kout, Len(delivered))
      /\ Len(delivered) + Len(kout) + pending = queued
  BY <1>0 DEF OutSide, Output
<1>3. IsRun(Gather, Len(delivered) + Len(kout)) /\ Len(Gather) = pending
  BY <1>0, GatherRun
<1>4. IsRun(delivered \o kout, 0) /\ Len(delivered \o kout) = Len(delivered) + Len(kout)
  <2>1. 0 \in Int /\ IsRun(kout, 0 + Len(delivered))
    BY <1>1, <1>2
  <2> QED
    BY <2>1, <1>2, RunConcat
<1>5. /\ IsRun(delivered \o kout \o Gather, 0)
      /\ Len(delivered \o kout \o Gather) = Len(delivered) + Len(kout) + pending
  <2> DEFINE two == delivered \o kout
  <2>1. IsRun(two, 0) /\ Len(two) = Len(delivered) + Len(kout)
    BY <1>4
  <2> HIDE DEF two
  <2>2. 0 \in Int /\ IsRun(Gather, 0 + Len(two))
    BY <1>1, <1>3, <2>1
  <2>3. IsRun(two \o Gather, 0) /\ Len(two \o Gather) = Len(two) + Len(Gather)
    BY <2>1, <2>2, RunConcat
  <2> QED
    BY <1>3, <2>1, <2>3 DEF two
<1> DEFINE all == delivered \o kout \o Gather
<1>6. IsRun(all, 0) /\ Len(all) = queued
  BY <1>2, <1>5
<1> HIDE DEF all
<1>7. all = Stream(0 + 1, 0 + Len(all))
  BY <1>6, RunIsStream
<1>8. 0 + 1 = 1 /\ 0 + Len(all) = queued
  BY <1>1, <1>6
<1>9. all = Stream(1, queued)
  BY <1>7, <1>8
<1> QED
  BY <1>9 DEF all

\* Every byte of an answer is sent once and in order, wherever writev stops in the
\* header or in the file.
THEOREM AnswersAreWhole == Spec => []ResponseIntact
BY ConnectionInvAlways, OutputIsStream, PTL

\* send reports what is left: a callback that answers finds the last answer sent.
THEOREM SendReportsTheRest == Spec => []ReturnsPending
BY ConnectionInvAlways, PTL DEF ConnectionInv

\* The server closes on a peer that is there only when mReadBuffer is left full or the
\* file of the answer is not mapped.
THEOREM ClosesForCause == Spec => []ClosedOnlyWhenDue
BY ConnectionInvAlways, PTL DEF ConnectionInv

\* What a step makes of the connection's life, as ConnectionLife has it.
LEMMA LifeMoves ==
    ASSUME TypeOK, [Next]_vars
    PROVE  Lives!LifeNext
<1> DEFINE Same == Life' = Life
           Moved(from, to) == Life = from /\ Life' = to
<1>1. Same \/ Moved("held", "waiting") \/ Moved("waiting", "reported")
           \/ Moved("reported", "held") \/ Moved("held", "closed")
  <2> USE DEF Life, Closed
  <2>1. CASE UNCHANGED pc
    BY <2>1
  <2>2. CASE EpollAdd
    BY <2>2 DEF EpollAdd, Becomes
  <2>3. CASE Report
    BY <2>3 DEF Report, Becomes
  <2>4. CASE Hangup
    BY <2>4 DEF Hangup, Becomes
  <2>5. CASE Handle
    BY <2>5 DEF Handle, Becomes
  <2>6. CASE CloseConn
    BY <2>6 DEF CloseConn, CloseAs
  <2>7. CASE ReadFd
    BY <2>7 DEF ReadFd, Recv, RecvFull, RecvCompact, RecvBytes, RecvEmpty, readFdReturns,
                ReadBack, calls
  <2>8. CASE AwaitMore
    BY <2>8 DEF AwaitMore, Becomes
  <2>9. CASE Answer
    BY <2>9 DEF Answer, Respond
  <2>10. CASE WritevAgain
    BY <2>10 DEF WritevAgain, Becomes
  <2>11. CASE SendEnds
    BY <2>11 DEF SendEnds, CloseAs
  <2>12. ASSUME \/ \E n \in 1..SocketBuffer : PeerSend(n) \/ Deliver(n) \/ Writev(n)
                \/ PeerClose \/ PeerReset
                \/ \E len \in 1..kBufferSize : Read(len) \/ TakeLine(len)
                \/ UNCHANGED vars
         PROVE  UNCHANGED pc
    BY <2>12 DEF PeerSend, Deliver, Writev, PeerClose, PeerReset, Read, TakeLine, vars, calls
  <2> QED
    BY <2>1, <2>2, <2>3, <2>4, <2>5, <2>6, <2>7, <2>8, <2>9, <2>10, <2>11, <2>12
       DEF Next, Loop, Turn, Send, Network
<1> HIDE DEF Life
<1> QED
  BY <1>1 DEF Lives!LifeNext, Lives!Step, Lives!Open, Lives!Wait, Lives!Report, Lives!Handle,
              Lives!Close, Lives!Free, Lives!Move

\* A Connection goes through the life that Server keeps for it (Server!ImplementsConnectionLife).
THEOREM LivesOneLife == Spec => ImplementsConnectionLife
<1>1. Init => Life = "held"
  BY DEF Init, Life, Closed
<1> QED
  BY <1>1, LifeMoves, ConnectionTypes, PTL DEF Spec, ImplementsConnectionLife, Lives!LifeRuns
=============================================================================
