----------------------------- MODULE Connection -----------------------------
(***************************************************************************)
(* One net::Connection between its peer and its callbacks: recv(), which   *)
(* is FixedBuffer::readFd on the non-blocking socket, the read callback,   *)
(* which takes bytes out of mReadBuffer and may answer, send(), and the    *)
(* write callback, which keeps the connection or closes it.  One worker at *)
(* a time is in them (OneHandler of Server.tla); the peer and the kernel   *)
(* run between any two of its system calls.                                *)
(*                                                                         *)
(* Bytes are numbered: the k-th byte the peer sends, and the k-th byte the *)
(* callbacks hand over to be sent, is the number k.  The bytes of a file   *)
(* have consecutive numbers, and m_iv[1].iov_base is the next one's.       *)
(***************************************************************************)
EXTENDS Integers, Sequences

CONSTANTS kBufferSize, Bytes, Nul,
          SocketBuffer,   \* the bytes the kernel keeps for each direction
          MaxSent,        \* bound: the bytes the peer sends
          MaxQueued       \* bound: the bytes of all answers

ASSUME ConnectionAssumption ==
    /\ kBufferSize \in Nat \ {0} /\ Nul \in Bytes
    /\ SocketBuffer \in Nat \ {0} /\ MaxSent \in Nat /\ MaxQueued \in Nat
    /\ 1..MaxSent \cup 1..MaxQueued \subseteq Bytes

VARIABLES rMem, rRead, rWrite,   \* mReadBuffer
          wMem, wRead, wWrite,   \* mWriteBuffer
          iov_base, iov_len,     \* m_iv[1]
          mapped,      \* whether m_iv[1] is memory: FileSystem.cpp does not look at what
                       \* open and mmap return
          pc,          \* "accepted" (until epoll_add), "in", "out" (armed for EPOLLIN,
                       \* EPOLLOUT), "called", "writable", "hangup" (on its way to
                       \* handleRead, handleWrite, CloseConn), "recv", "readFd" (before
                       \* and in its loop), "handler" (the read callback), "send" (in its
                       \* loop), "close" (CloseConn), "closed" by the server, "finished":
                       \* closed by the write callback
          last_used,   \* readFd's local variable
          ret,         \* what the last call of readFd returned
          taken,       \* how many bytes have left mReadBuffer
          queued,      \* how many bytes have been handed over to be sent
          peer,        \* "open", "closed" (it sends no more), or "reset"
          sent,        \* how many bytes the peer has sent
          kin, kout,   \* the bytes that wait in the kernel, in and out
          delivered    \* the bytes that have reached the peer, in their order

In == INSTANCE FixedBuffer WITH mem <- rMem, mReadPtr <- rRead, mWritePtr <- rWrite
Out == INSTANCE FixedBuffer WITH mem <- wMem, mReadPtr <- wRead, mWritePtr <- wWrite

rbuf == <<rMem, rRead, rWrite>>
wbuf == <<wMem, wRead, wWrite>>
iov == <<iov_base, iov_len, mapped>>
calls == <<pc, last_used, ret>>
net == <<peer, sent, kin, kout, delivered>>
vars == <<rbuf, wbuf, iov, calls, taken, queued, net>>

\* The bytes numbered from i to j.
Stream(i, j) == [k \in 1..(j - i + 1) |-> i + k - 1]

\* The bytes that send() has to send: the two iovecs, one after the other.
pending == Out!used + iov_len
Gather == Out!Contents \o Stream(iov_base, iov_base + iov_len - 1)

Closed == pc \in {"closed", "finished"}

TypeOK ==
    /\ In!BufferTypeOK /\ In!PointerOrder /\ Out!BufferTypeOK /\ Out!PointerOrder
    /\ iov_base \in Nat /\ iov_len \in 0..MaxQueued /\ mapped \in BOOLEAN
    /\ pc \in {"accepted", "in", "out", "called", "writable", "hangup", "recv", "readFd",
              "handler", "send", "close", "closed", "finished"}
    /\ last_used \in 0..kBufferSize
    /\ ret \in -1..kBufferSize
    /\ sent \in 0..MaxSent /\ taken \in 0..sent
    /\ queued \in 0..MaxQueued /\ Len(delivered) <= queued
    /\ peer \in {"open", "closed", "reset"}
    /\ Len(kin) <= SocketBuffer /\ Len(kout) <= SocketBuffer

\* What is in a new buffer does not matter (IsByteQueue of FixedBufferProofs).
Init ==
    /\ rMem = [a \in In!Addresses |-> Nul] /\ rRead = 0 /\ rWrite = 0
    /\ wMem = rMem /\ wRead = 0 /\ wWrite = 0
    /\ iov_base = 0 /\ iov_len = 0 /\ mapped = TRUE
    /\ pc = "accepted" /\ last_used = 0 /\ ret = 0
    /\ taken = 0 /\ queued = 0
    /\ peer = "open" /\ sent = 0 /\ kin = <<>> /\ kout = <<>> /\ delivered = <<>>

-----------------------------------------------------------------------------
(* The peer and the kernel.                                                  *)

PeerSend(n) ==
    /\ peer = "open" /\ ~Closed
    /\ sent + n <= MaxSent /\ Len(kin) + n <= SocketBuffer
    /\ kin' = kin \o Stream(sent + 1, sent + n)
    /\ sent' = sent + n
    /\ UNCHANGED <<rbuf, wbuf, iov, calls, taken, queued, peer, kout, delivered>>

\* It may still read what it is sent.
PeerClose ==
    /\ peer = "open"
    /\ peer' = "closed"
    /\ UNCHANGED <<rbuf, wbuf, iov, calls, taken, queued, sent, kin, kout, delivered>>

\* What waits in the kernel is lost.
PeerReset ==
    /\ peer # "reset"
    /\ peer' = "reset" /\ kin' = <<>> /\ kout' = <<>>
    /\ UNCHANGED <<rbuf, wbuf, iov, calls, taken, queued, sent, delivered>>

Deliver(n) ==
    /\ n <= Len(kout)
    /\ delivered' = delivered \o SubSeq(kout, 1, n)
    /\ kout' = SubSeq(kout, n + 1, Len(kout))
    /\ UNCHANGED <<rbuf, wbuf, iov, calls, taken, queued, peer, sent, kin>>

-----------------------------------------------------------------------------
(* The event loop: a hangup closes the connection, whatever is unread or     *)
(* unsent.                                                                   *)

\* A step that only moves the connection on.
Becomes(from, to) ==
    /\ pc = from /\ pc' = to
    /\ UNCHANGED <<rbuf, wbuf, iov, last_used, ret, taken, queued, net>>

EpollAdd == Becomes("accepted", "in")

Report ==
    /\ peer = "open"
    /\ \/ kin # <<>> /\ Becomes("in", "called")
       \/ Len(kout) < SocketBuffer /\ Becomes("out", "writable")

Hangup == peer # "open" /\ (Becomes("in", "hangup") \/ Becomes("out", "hangup"))

\* The handler of the event begins, in a worker or, for a hangup, in the event loop.
Handle == Becomes("called", "recv") \/ Becomes("writable", "send") \/ Becomes("hangup", "close")

\* A socket that is closed before all its input has been read is reset, and what it
\* has not sent yet is lost.
CloseAs(label) ==
    /\ pc' = label
    /\ kout' = IF kin # <<>> THEN <<>> ELSE kout
    /\ UNCHANGED <<rbuf, wbuf, last_used, ret, taken, queued, peer, sent, kin, delivered>>

CloseConn == pc = "close" /\ CloseAs("closed") /\ UNCHANGED iov

-----------------------------------------------------------------------------
(* handleRead: recv, one action per system call or turn of readFd's loop.    *)

\* Mutant: only an error closes the connection.
ReadBackOnError(r) == IF r < 0 THEN "close" ELSE "handler"

\* Mutant: a call that brought nothing is queued again.
ReadBackRequeued(r) == IF r <= 0 THEN "called" ELSE "handler"

\* The caller closes the connection unless bytes were received.
ReadBack(r) == IF r <= 0 THEN "close" ELSE "handler"

\* Mutant: an empty socket is an error, whatever was read before.
receivedNothing == -1

received == In!used - last_used

readFdReturns(r) ==
    /\ ret' = r
    /\ pc' = ReadBack(r)
    /\ UNCHANGED <<rbuf, wbuf, iov, last_used, taken, queued, net>>

Recv ==
    /\ pc = "recv"
    /\ IF In!avail = 0
       THEN readFdReturns(0)
       ELSE /\ pc' = "readFd" /\ last_used' = In!used
            /\ UNCHANGED <<rbuf, wbuf, iov, ret, taken, queued, net>>

RecvFull == pc = "readFd" /\ In!avail = 0 /\ readFdReturns(received)

RecvCompact ==
    /\ pc = "readFd"
    /\ In!MakeRoom
    /\ UNCHANGED <<wbuf, iov, calls, taken, queued, net>>

\* recv asks for what fits after mWritePtr, and may get less.
RecvBytes(n) ==
    /\ pc = "readFd"
    /\ n <= Len(kin)
    /\ In!Fill(SubSeq(kin, 1, n))
    /\ kin' = SubSeq(kin, n + 1, Len(kin))
    /\ UNCHANGED <<wbuf, iov, calls, taken, queued, peer, sent, kout, delivered>>

\* EAGAIN when the socket has been read empty; 0 or an error at the end of the
\* stream, whatever was read before in this call.
RecvEmpty ==
    /\ pc = "readFd" /\ In!room > 0
    /\ kin = <<>>
    /\ readFdReturns(IF peer = "open" THEN received ELSE -1)

-----------------------------------------------------------------------------
(* The read callback.                                                        *)

\* Mutant: Read reports len bytes also when it had fewer.
ReadLenAll(len) == len

\* The result of Connection::Read.
ReadLen(len) == IF len < In!used THEN len ELSE In!used

Read(len) ==
    /\ pc = "handler"
    /\ IF len < In!used THEN In!readPtrMove(len) ELSE In!reset
    /\ taken' = taken + ReadLen(len)
    /\ UNCHANGED <<wbuf, iov, calls, queued, net>>

\* HttpRequest::processRead is done with a line, which it has found in the buffer.
TakeLine(len) ==
    /\ pc = "handler"
    /\ len <= In!used
    /\ In!readPtrMove(len)
    /\ taken' = taken + len
    /\ UNCHANGED <<wbuf, iov, calls, queued, net>>

\* enableConnRead: the request is not complete.
AwaitMore == Becomes("handler", "in")

\* An answer of n bytes in mWriteBuffer (Write, appendToBuffer) and f of a file
\* (setFile), then enableConnWrite.  The file may not be there to be read: its
\* length is announced, and its address is MAP_FAILED.
Respond(n, f) ==
    /\ pc = "handler"
    /\ queued + n + f <= MaxQueued
    /\ Out!append(Stream(queued + 1, queued + n))
    /\ IF f = 0
       THEN UNCHANGED <<iov_base, iov_len>>
       ELSE iov_base' = queued + n + 1 /\ iov_len' = f
    /\ mapped' \in BOOLEAN
    /\ queued' = queued + n + f
    /\ pc' = "out"
    /\ UNCHANGED <<rbuf, last_used, ret, taken, net>>

-----------------------------------------------------------------------------
(* handleWrite: send, one action per writev.                                 *)

\* Mutant: after a write across the two iovecs the file is sent from n bytes on.
OfFileAll(n) == n

\* How many of n bytes written are of the file.
OfFile(n) == n - Out!used

Writev(n) ==
    /\ pc = "send" /\ peer # "reset" /\ mapped
    /\ n <= pending /\ Len(kout) + n <= SocketBuffer
    /\ kout' = kout \o SubSeq(Gather, 1, n)
    /\ IF n > Out!used
       THEN iov_base' = iov_base + OfFile(n) /\ iov_len' = iov_len - OfFile(n) /\ Out!reset
       ELSE Out!readPtrMove(n) /\ UNCHANGED <<iov_base, iov_len>>
    /\ UNCHANGED <<rbuf, calls, mapped, taken, queued, peer, sent, kin, delivered>>

\* Mutants: what is left of the file is not counted; EAGAIN is an error.
unsentHeader == Out!used
unsentFails == -1

unsent == pending

\* EAGAIN: the caller asks for EPOLLOUT again.
WritevAgain ==
    /\ peer # "reset" /\ mapped
    /\ pending > 0 /\ Len(kout) = SocketBuffer
    /\ Becomes("send", IF unsent > 0 THEN "out" ELSE IF unsent = 0 THEN "in" ELSE "close")

\* Any other error: EFAULT at once for a file that is not mapped.  (On the second
\* write to a peer that is gone the process dies of SIGPIPE; Server.tla has that
\* outcome.)
WritevFails == ~mapped \/ (peer = "reset" /\ pending > 0)

\* An error closes the connection; or all has been sent, writev has nothing to write
\* and returns 0, and the write callback keeps the connection or closes it.
SendEnds ==
    /\ pc = "send"
    /\ iov_base' = 0 /\ iov_len' = 0 /\ UNCHANGED mapped
    /\ \/ /\ IF WritevFails THEN pc' = "close" ELSE pending = 0 /\ pc' = "in"
          /\ UNCHANGED <<rbuf, wbuf, last_used, ret, taken, queued, net>>
       \/ ~WritevFails /\ pending = 0 /\ CloseAs("finished")

-----------------------------------------------------------------------------
Loop == EpollAdd \/ Report \/ Hangup
Turn == Handle \/ CloseConn
ReadFd == Recv \/ RecvFull \/ RecvCompact \/ RecvEmpty \/ \E n \in 1..SocketBuffer : RecvBytes(n)
Answer == \E n \in 1..kBufferSize, f \in 0..MaxQueued : Respond(n, f)
Send == WritevAgain \/ SendEnds \/ \E n \in 1..SocketBuffer : Writev(n)
Network == \E n \in 1..SocketBuffer : Deliver(n)

Next ==
    \/ Loop \/ Turn \/ ReadFd \/ AwaitMore \/ Answer \/ Send \/ Network
    \/ \E len \in 1..kBufferSize : Read(len) \/ TakeLine(len)
    \/ \E n \in 1..SocketBuffer : PeerSend(n)
    \/ PeerClose \/ PeerReset

Spec == Init /\ [][Next]_vars

\* The event loop and the worker go on, callbacks return, and the network delivers
\* to a peer that takes what it is sent.
FairSpec ==
    /\ Spec
    /\ WF_vars(Loop) /\ WF_vars(Turn) /\ WF_vars(ReadFd) /\ WF_vars(AwaitMore \/ Answer)
    /\ WF_vars(Send) /\ WF_vars(Network)

-----------------------------------------------------------------------------
\* No byte is lost, duplicated or reordered on its way from the peer through
\* the kernel and mReadBuffer to the callback, however recv splits the stream,
\* wherever the pointers are, and whenever the buffer is compacted.  A reset
\* loses what is still in the kernel, and nothing else.
StreamIntact ==
    IF peer = "reset"
    THEN \E k \in taken..sent : In!Contents \o kin = Stream(taken + 1, k)
    ELSE In!Contents \o kin = Stream(taken + 1, sent)

\* Each byte a callback handed over is, once and in order, delivered, in the
\* kernel, in mWriteBuffer or in what is left of the file, wherever a writev
\* stopped: inside the header, at its end, or inside the file.  The answer with a
\* file that is not mapped is the only one the server drops.
ResponseIntact ==
    peer # "reset" /\ mapped /\ ~(Closed /\ kin # <<>>) =>
        delivered \o kout \o Gather = Stream(1, queued)

\* What send() promises of its result (Connection.cpp:40): 0, all has been sent;
\* positive, something is left.  On that word alone the caller takes a connection
\* back to reading, closes it or waits for EPOLLOUT; so a callback that answers
\* finds mWriteBuffer and m_iv[1] empty, and answers do not mix.
ReturnsPending ==
    /\ pc \in {"accepted", "in", "called", "recv", "readFd", "handler", "finished"} => pending = 0
    /\ pc \in {"out", "writable"} => pending > 0

\* The server closes a connection whose peer is there for two reasons only: its
\* callback has left mReadBuffer full, or handed over a file that is not mapped.  In
\* particular EAGAIN never comes before the first byte, and input is thrown away
\* unread only after a hangup or for one of these.
ClosedOnlyWhenDue ==
    pc \in {"close", "closed"} => peer # "open" \/ ~mapped \/ (ret = 0 /\ In!avail = 0)

\* Where the connection is in its life.
Life ==
    CASE pc \in {"in", "out"} -> "waiting"
      [] pc \in {"called", "writable", "hangup"} -> "reported"
      [] Closed -> "closed"
      [] OTHER -> "held"

Lives == INSTANCE ConnectionLife WITH Conns <- {"this"}, life <- [c \in {"this"} |-> Life]

\* From its construction in the accept branch a connection goes through the life that
\* Server keeps: handlers run only after an event it has waited for, one after each,
\* and end by waiting again or by closing.
ImplementsConnectionLife == Life = "held" /\ Lives!LifeRuns

\* Whatever the peer sends gets into mReadBuffer, or the connection is closed:
\* readFd's loop ends, its `continue' after a compaction included, what it leaves in
\* the socket is reported once EPOLLIN is asked for again, and answers do not keep
\* the connection from reading for ever.
BytesReceived == \A k \in 1..MaxSent : sent >= k ~> taken + In!used >= k \/ Closed

\* An answer reaches a peer that stays, in whatever portions the kernel takes it,
\* also if the connection is closed behind it, unless there was input left unread or
\* its file is not mapped.
ResponseDelivered ==
    \A k \in 1..MaxQueued :
        queued >= k ~>
            Len(delivered) >= k \/ peer # "open" \/ ~mapped \/ (Closed /\ kin # <<>>)
=============================================================================
