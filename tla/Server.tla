------------------------------- MODULE Server -------------------------------
(***************************************************************************)
(* net::Server (net/Server.cpp) with the life of its net::Connection       *)
(* objects: the event loop of the main thread, the handlers the pool's     *)
(* workers run, the connection table they share, and the epoll instance    *)
(* whose EPOLLONESHOT registrations pass each connection from one to the   *)
(* other.  The pool is TaskQueue, which ThreadPool implements.             *)
(*                                                                         *)
(* The read and write callbacks are those of HttpServer (and of the echo   *)
(* example) as far as the connection is concerned: the read callback ends  *)
(* by choosing what to wait for next, the write callback may close the     *)
(* connection.  What is in the buffers is not modelled here.               *)
(***************************************************************************)
EXTENDS Integers, Sequences, FiniteSets, FiniteSetsExt, Functions

CONSTANTS Workers,    \* the pool's threads
          Main,       \* the thread in EventLoop
          Fds,        \* the descriptors the process may have open
          ListenFd,   \* mListenFd
          Conns,      \* identities of Connection objects, reused after destruction;
                      \* enough for one object per descriptor, the one a failed
                      \* accept left in connMap, and the next one
          MaxBacklog, \* bound on the connections waiting in the listen queue
          qSize,      \* the pool's queue capacity, 2 * work_nums
          NoConn,     \* a null ConnPtr, also "no thread"
          NoTask

Threads == Workers \cup {Main}

Tasks == [kind : {"in", "out"}, conn : Conns]

ASSUME ServerAssumption ==
    /\ IsFiniteSet(Workers) /\ Workers # {} /\ Main \notin Workers
    /\ Fds \subseteq Nat /\ IsFiniteSet(Fds) /\ ListenFd \in Nat \ Fds
    /\ IsFiniteSet(Conns) => Cardinality(Conns) > Cardinality(Fds) + 1
    /\ NoConn \notin Conns \cup Threads
    /\ MaxBacklog \in Nat \ {0}
    /\ qSize \in Nat \ {0}
    /\ NoTask \notin Tasks

BadFd == -1   \* what a failed accept returns

VARIABLES
    backlog,   \* connections completed by the kernel and not accepted yet
    conn,      \* the Connection object, and the socket, of each identity
    interest,  \* the epoll registration of each descriptor
    batch,     \* the part of epollEvent[] the loop has not come to
    connMap,
    mapLock,   \* the thread holding mapLock, or NoConn
    mTasks, running, \* the pool: see TaskQueue
    pc,        \* where each thread is
    cur,       \* main: the connection being accepted, closed or queued
    todo,      \* main: the task AddTask is about to queue
    mode,      \* mode[w]: the event a handler is going to wait for, if any
    crashed    \* the process has died

sockets == <<backlog, conn, interest>>
table == <<connMap, mapLock>>
pool == <<mTasks, running>>
loop == <<batch, cur, todo>>
vars == <<sockets, loop, table, pool, pc, mode, crashed>>

Pool == INSTANCE TaskQueue WITH Capacity <- qSize, queue <- mTasks, serving <- TRUE

\* A Connection: its descriptor, whether its socket has data to read, whether
\* the peer's end is closed or broken (or SHUT_RD was called), and whether
\* O_NONBLOCK is set.
NoObject == [fd |-> BadFd, exists |-> FALSE, data |-> FALSE, hup |-> FALSE,
             nonblock |-> FALSE]

NewObject(fd) == [NoObject EXCEPT !.fd = fd, !.exists = TRUE]

MainStates == {"epoll_wait", "next", "accept_lock", "accept_insert", "accept_add",
               "accept_nonblock", "add_task", "shutdown", "close_lock", "close_del",
               "close_erase"}
WorkerStates == {"idle", "recv", "send", "read_cb", "write_cb", "shutdown", "close_lock",
                 "close_del", "close_erase", "rearm", "return"}

TypeOK ==
    /\ backlog \in 0..MaxBacklog
    /\ conn \in [Conns -> [fd : Fds \cup {BadFd}, exists : BOOLEAN, data : BOOLEAN,
                           hup : BOOLEAN, nonblock : BOOLEAN]]
    /\ interest \in [Fds -> {"none", "off", "in", "out"}]
    /\ batch \subseteq [fd : Fds \cup {ListenFd}, kind : {"in", "out", "hup"}]
    /\ connMap \in UNION {[F -> Conns] : F \in SUBSET (Fds \cup {BadFd})}
    /\ mapLock \in Threads \cup {NoConn}
    /\ mTasks \in Seq(Tasks)
    /\ running \in [Workers -> Tasks \cup {NoTask}]
    /\ pc \in [Threads -> MainStates \cup WorkerStates]
    /\ pc[Main] \in MainStates /\ \A w \in Workers : pc[w] \in WorkerStates
    /\ cur \in Conns \cup {NoConn}
    /\ todo \in Tasks \cup {NoTask}
    /\ mode \in [Workers -> {"none", "in", "out"}]
    /\ crashed \in BOOLEAN

Init ==
    /\ backlog = 0
    /\ conn = [c \in Conns |-> NoObject]
    /\ interest = [f \in Fds |-> "none"]
    /\ batch = {}
    /\ connMap = <<>>
    /\ mapLock = NoConn
    /\ mTasks = <<>>
    /\ running = [w \in Workers |-> NoTask]
    /\ pc = [x \in Threads |-> IF x = Main THEN "epoll_wait" ELSE "idle"]
    /\ cur = NoConn
    /\ todo = NoTask
    /\ mode = [w \in Workers |-> "none"]
    /\ crashed = FALSE

Goto(x, label) == pc' = [pc EXCEPT ![x] = label]

-----------------------------------------------------------------------------
(* shared_ptr<Connection>: an object lives as long as a ConnPtr to it does.  *)

TaskConns == {mTasks[i].conn : i \in DOMAIN mTasks}
                 \cup {running[w].conn : w \in {v \in Workers : running[v] # NoTask}}
                 \cup (IF todo = NoTask THEN {} ELSE {todo.conn})

\* The local ConnPtr of the accept branch.
Accepting == IF pc[Main] \in {"accept_lock", "accept_insert", "accept_add",
                              "accept_nonblock"} THEN {cur} ELSE {}

\* Mutant: a task holds a plain pointer to its Connection.
ReferencedByMap == Range(connMap) \cup Accepting

Referenced == Range(connMap) \cup TaskConns \cup Accepting

\* ~Connection closes the descriptor of an object nobody points to any more;
\* the kernel drops the registration of a closed descriptor.
Destroy ==
    /\ conn' = [c \in Conns |-> IF c \in Referenced' THEN conn[c] ELSE NoObject]
    /\ interest' = [f \in Fds |->
                       IF \E c \in Conns : conn'[c].exists /\ conn'[c].fd = f
                       THEN interest[f] ELSE "none"]

OpenFds == {conn[c].fd : c \in {d \in Conns : conn[d].exists}}

\* The open socket with descriptor f.
SocketOf(f) == CHOOSE c \in Conns : conn[c].exists /\ conn[c].fd = f

-----------------------------------------------------------------------------
(* The peers.                                                                *)

PeerConnect ==
    /\ backlog < MaxBacklog
    /\ backlog' = backlog + 1
    /\ UNCHANGED <<conn, interest, loop, table, pool, pc, mode, crashed>>

PeerSend(c) ==
    /\ conn[c].fd \in Fds /\ ~conn[c].hup /\ ~conn[c].data
    /\ conn' = [conn EXCEPT ![c].data = TRUE]
    /\ UNCHANGED <<backlog, interest, loop, table, pool, pc, mode, crashed>>

PeerClose(c) ==
    /\ conn[c].fd \in Fds /\ ~conn[c].hup
    /\ conn' = [conn EXCEPT ![c].hup = TRUE]
    /\ UNCHANGED <<backlog, interest, loop, table, pool, pc, mode, crashed>>

-----------------------------------------------------------------------------
(* EventLoop.                                                                *)

Ready(f) ==
    /\ interest[f] \in {"in", "out"}
    /\ \/ conn[SocketOf(f)].hup
       \/ interest[f] = "in" /\ conn[SocketOf(f)].data

Event(f) == [fd |-> f, kind |-> IF conn[SocketOf(f)].hup THEN "hup" ELSE interest[f]]

\* Mutant: connections are registered without EPOLLONESHOT.
HarvestedArmed(fired) == interest

\* The registrations after those in fired have been reported: EPOLLONESHOT disarms
\* them.
Harvested(fired) == [f \in Fds |-> IF f \in fired THEN "off" ELSE interest[f]]

\* epoll_wait returns every ready registration (there are fewer than
\* MAX_EVENT_NUM).  Whether a socket is writable is up to its peer.
EpollWait ==
    /\ pc[Main] = "epoll_wait"
    /\ \E writable \in SUBSET {f \in Fds : interest[f] = "out"} :
          LET fired == {f \in Fds : Ready(f)} \cup writable
          IN  /\ fired # {} \/ backlog > 0
              /\ batch' = {Event(f) : f \in fired} \cup
                          (IF backlog > 0 THEN {[fd |-> ListenFd, kind |-> "in"]} ELSE {})
              /\ interest' = Harvested(fired)
    /\ Goto(Main, "next")
    /\ UNCHANGED <<backlog, conn, cur, todo, table, pool, mode, crashed>>

BatchDone ==
    /\ pc[Main] = "next"
    /\ batch = {}
    /\ Goto(Main, "epoll_wait")
    /\ UNCHANGED <<sockets, loop, table, pool, mode, crashed>>

\* accept takes a connection from the backlog and returns the lowest free
\* descriptor, or fails with -1 when the process has none left; the result is not
\* examined.  Which identity the new Connection gets does not matter.
Accept(e) ==
    /\ pc[Main] = "next"
    /\ e \in batch /\ e.fd = ListenFd
    /\ LET free == Fds \ OpenFds
           c == CHOOSE d \in Conns : ~conn[d].exists
       IN  /\ IF free = {}
              THEN conn' = [conn EXCEPT ![c] = NewObject(BadFd)] /\ UNCHANGED backlog
              ELSE conn' = [conn EXCEPT ![c] = NewObject(Min(free))] /\ backlog' = backlog - 1
           /\ cur' = c
    /\ batch' = batch \ {e}
    /\ Goto(Main, "accept_lock")
    /\ UNCHANGED <<interest, todo, table, pool, mode, crashed>>

Lock(x) == mapLock = NoConn /\ mapLock' = x

\* Mutant: the lock is not released.
UnlockNot == UNCHANGED mapLock

Unlock == mapLock' = NoConn

AcceptLock ==
    /\ pc[Main] = "accept_lock"
    /\ Lock(Main)
    /\ Goto(Main, "accept_insert")
    /\ UNCHANGED <<sockets, loop, connMap, pool, mode, crashed>>

\* connMap[connfd] = conn, then Unlock and the connected callback.
AcceptInsert ==
    /\ pc[Main] = "accept_insert"
    /\ connMap' = [f \in DOMAIN connMap \cup {conn[cur].fd} |->
                      IF f = conn[cur].fd THEN cur ELSE connMap[f]]
    /\ Unlock
    /\ Goto(Main, "accept_add")
    /\ UNCHANGED <<backlog, loop, pool, mode, crashed>>
    /\ Destroy

\* epoll_add registers the descriptor; EPOLL_CTL_ADD fails for -1.
AcceptAdd ==
    /\ pc[Main] = "accept_add"
    /\ interest' = [f \in Fds |-> IF f = conn[cur].fd THEN "in" ELSE interest[f]]
    /\ Goto(Main, "accept_nonblock")
    /\ UNCHANGED <<backlog, conn, loop, table, pool, mode, crashed>>

\* setnonblocking fails for -1.
setnonblocking(c) == [conn EXCEPT ![c].nonblock = conn[c].fd # BadFd]

\* The end of epoll_add, and of the accept branch.
AcceptNonblock ==
    /\ pc[Main] = "accept_nonblock"
    /\ conn' = setnonblocking(cur)
    /\ cur' = NoConn
    /\ Goto(Main, "next")
    /\ UNCHANGED <<backlog, interest, batch, todo, table, pool, mode, crashed>>

\* std::bind(&Server::handleRead or handleWrite, this, connMap[fd]).
Bound(e) == [kind |-> e.kind, conn |-> connMap[e.fd]]

\* The event of a connection: connMap[fd] is read without mapLock, and closed on
\* the spot or bound to a task.
Lookup(e) ==
    /\ pc[Main] = "next"
    /\ e \in batch /\ e.fd \in DOMAIN connMap
    /\ batch' = batch \ {e}
    /\ cur' = connMap[e.fd]
    /\ IF e.kind = "hup"
       THEN todo' = NoTask /\ Goto(Main, "shutdown")
       ELSE todo' = Bound(e) /\ Goto(Main, "add_task")
    /\ UNCHANGED <<sockets, table, pool, mode, crashed>>

\* A missing entry would be created with a null ConnPtr, which CloseConn or the
\* handler dereferences.  A read that overlaps a worker's erase is a data race: it
\* may find a broken tree.
LookupCrash(e) ==
    /\ pc[Main] = "next"
    /\ e \in batch /\ e.fd # ListenFd
    /\ e.fd \notin DOMAIN connMap \/ \E w \in Workers : pc[w] = "close_erase"
    /\ crashed' = TRUE
    /\ UNCHANGED <<sockets, loop, table, pool, pc, mode>>

\* AddTask returns once the queue had room for the task.
AddTask ==
    /\ pc[Main] = "add_task"
    /\ Pool!Put(todo)
    /\ todo' = NoTask
    /\ cur' = NoConn
    /\ Goto(Main, "next")
    /\ UNCHANGED <<sockets, batch, table, mode, crashed>>

-----------------------------------------------------------------------------
(* CloseConn, run by main for a connection its peer has closed and by the    *)
(* workers.                                                                  *)

Closing(x) == IF x = Main THEN cur ELSE running[x].conn

\* Mutant: the descriptor is closed instead of shut down.
ClosedFd(c) == [conn EXCEPT ![c].fd = BadFd]

ShutRd(c) == [conn EXCEPT ![c].hup = TRUE]

Shutdown(x) ==
    /\ pc[x] = "shutdown"
    /\ conn' = ShutRd(Closing(x))
    /\ Goto(x, "close_lock")
    /\ UNCHANGED <<backlog, interest, loop, table, pool, mode, crashed>>

CloseLock(x) ==
    /\ pc[x] = "close_lock"
    /\ Lock(x)
    /\ Goto(x, "close_del")
    /\ UNCHANGED <<sockets, loop, connMap, pool, mode, crashed>>

\* Mutant: the registration is left alone.
DeletedNot(fd) == interest

\* EPOLL_CTL_DEL.
Deleted(fd) == [f \in Fds |-> IF f = fd THEN "none" ELSE interest[f]]

CloseDel(x) ==
    /\ pc[x] = "close_del"
    /\ interest' = Deleted(conn[Closing(x)].fd)
    /\ Goto(x, "close_erase")
    /\ UNCHANGED <<backlog, conn, loop, table, pool, mode, crashed>>

\* connMap.erase(connfd), then Unlock.  CloseConn called by WriteCb is followed
\* by the rest of handleWrite.
CloseErase(x) ==
    /\ pc[x] = "close_erase"
    /\ connMap' = Restrict(connMap, DOMAIN connMap \ {conn[Closing(x)].fd})
    /\ Unlock
    /\ Goto(x, IF x = Main THEN "next" ELSE IF mode[x] = "none" THEN "return" ELSE "rearm")
    /\ cur' = IF x = Main THEN NoConn ELSE cur
    /\ UNCHANGED <<backlog, batch, todo, pool, mode, crashed>>
    /\ Destroy

-----------------------------------------------------------------------------
(* The workers: handleRead and handleWrite.                                  *)

TakeTask(w) ==
    /\ pc[w] = "idle"
    /\ Pool!Take(w)
    /\ Goto(w, IF Head(mTasks).kind = "in" THEN "recv" ELSE "send")
    /\ mode' = [mode EXCEPT ![w] = "none"]
    /\ UNCHANGED <<sockets, loop, table, crashed>>

\* recv reads until the socket or the room in mReadBuffer is exhausted, and returns
\* the number of bytes read.  What closes the connection is a result <= 0: there was
\* nothing to read, the end of the stream came after the data, or mReadBuffer was
\* full already.
Recv(w) ==
    /\ pc[w] = "recv"
    /\ LET c == running[w].conn
       IN  \/ /\ conn[c].data
              /\ \E left \in BOOLEAN : conn' = [conn EXCEPT ![c].data = left]
              /\ Goto(w, "read_cb")
          \/ /\ ~conn[c].data \/ conn[c].hup
             /\ conn' = [conn EXCEPT ![c].data = FALSE]
             /\ Goto(w, "shutdown")
          \/ /\ conn[c].data
             /\ Goto(w, "shutdown")
             /\ UNCHANGED conn
    /\ UNCHANGED <<backlog, interest, loop, table, pool, mode, crashed>>

\* Mutant: the callback of an incomplete request forgets enableConnRead.
ThenForgets(m) == IF m = "in" THEN "return" ELSE "rearm"

\* Both ways out of the callback ask for an event.
Then(m) == "rearm"

\* rCallBack: an incomplete request waits for more input, a complete or a bad one
\* waits for the socket to be writable.  A negative Content-Length makes the parser
\* throw, and nothing catches what a worker's task throws (HttpRequest).
ReadCb(w) ==
    /\ pc[w] = "read_cb"
    /\ \/ /\ \E m \in {"in", "out"} : mode' = [mode EXCEPT ![w] = m] /\ Goto(w, Then(m))
          /\ UNCHANGED crashed
       \/ crashed' = TRUE /\ UNCHANGED <<mode, pc>>
    /\ UNCHANGED <<sockets, loop, table, pool>>

\* send returns -1 (the peer is gone), > 0 (the socket is full) or 0 (done).  The
\* writev to a peer that is gone raises SIGPIPE, which nothing ignores.
Send(w) ==
    /\ pc[w] = "send"
    /\ \/ conn[running[w].conn].hup /\ Goto(w, "shutdown") /\ UNCHANGED <<mode, crashed>>
       \/ conn[running[w].conn].hup /\ crashed' = TRUE /\ UNCHANGED <<mode, pc>>
       \/ mode' = [mode EXCEPT ![w] = "out"] /\ Goto(w, "rearm") /\ UNCHANGED crashed
       \/ Goto(w, "write_cb") /\ UNCHANGED <<mode, crashed>>
    /\ UNCHANGED <<sockets, loop, table, pool>>

\* wCallBack closes the connection or keeps it alive; handleWrite goes on to
\* enableConnRead either way.
WriteCb(w) ==
    /\ pc[w] = "write_cb"
    /\ mode' = [mode EXCEPT ![w] = "in"]
    /\ Goto(w, "rearm") \/ Goto(w, "shutdown")
    /\ UNCHANGED <<sockets, loop, table, pool, crashed>>

\* epoll_mod on the connection's descriptor; it fails on one that is not
\* registered.
Rearm(w) ==
    /\ pc[w] = "rearm"
    /\ interest' = [f \in Fds |->
                      IF f = conn[running[w].conn].fd /\ interest[f] # "none"
                      THEN mode[w] ELSE interest[f]]
    /\ Goto(w, "return")
    /\ UNCHANGED <<backlog, conn, loop, table, pool, mode, crashed>>

\* The handler has returned and the task, with its ConnPtr, is destroyed.
Return(w) ==
    /\ pc[w] = "return"
    /\ Pool!Finish(w)
    /\ Goto(w, "idle")
    /\ UNCHANGED <<backlog, loop, table, mode, crashed>>
    /\ Destroy

-----------------------------------------------------------------------------
Peer == PeerConnect \/ \E c \in Conns : PeerSend(c) \/ PeerClose(c)

MainStep ==
    \/ EpollWait \/ BatchDone
    \/ \E e \in batch : Accept(e) \/ Lookup(e) \/ LookupCrash(e)
    \/ AcceptLock \/ AcceptInsert \/ AcceptAdd \/ AcceptNonblock
    \/ AddTask
    \/ Shutdown(Main) \/ CloseLock(Main) \/ CloseDel(Main) \/ CloseErase(Main)

WorkerStep(w) ==
    \/ TakeTask(w) \/ Recv(w) \/ ReadCb(w) \/ Send(w) \/ WriteCb(w) \/ Rearm(w) \/ Return(w)
    \/ Shutdown(w) \/ CloseLock(w) \/ CloseDel(w) \/ CloseErase(w)

Next == ~crashed /\ (Peer \/ MainStep \/ \E w \in Workers : WorkerStep(w))

Spec == Init /\ [][Next]_vars

\* The kernel schedules every thread, and no handler blocks but on mapLock; a
\* worker that waits for mapLock obtains it if it is free again and again (the
\* event loop leaves it free during epoll_wait and accept).  The peers owe
\* nothing, and a process that has died takes no step.
Fairness ==
    /\ WF_vars(~crashed /\ MainStep)
    /\ \A w \in Workers : WF_vars(~crashed /\ WorkerStep(w))
                          /\ SF_vars(~crashed /\ CloseLock(w))

FairSpec == Spec /\ Fairness

-----------------------------------------------------------------------------
\* The places from which connection c can be handled next, or is being handled: an
\* armed registration, a harvested event, the event loop, a task queued or running.
\* A handler that has rearmed its connection has only its return to do.
Handlers(c) ==
    {<<"armed", f>> : f \in {g \in Fds : g = conn[c].fd /\ interest[g] \in {"in", "out"}}}
    \cup {<<"event", e.fd>> : e \in {b \in batch : b.fd = conn[c].fd}}
    \cup {<<"main", x>> : x \in {y \in {cur} : y = c /\ pc[Main] # "accept_nonblock"}}
    \cup {<<"queued", i>> : i \in {j \in DOMAIN mTasks : mTasks[j].conn = c}}
    \cup {<<"running", w>> : w \in {v \in Workers : /\ running[v] # NoTask
                                                    /\ running[v].conn = c
                                                    /\ pc[v] # "return"}}

\* An event for connection c has been taken, and no handler has come to it yet.
IsReported(c) ==
    \/ \E e \in batch : e.fd = conn[c].fd
    \/ c = cur /\ pc[Main] = "add_task"
    \/ \E i \in DOMAIN mTasks : mTasks[i].conn = c

\* Where connection c is in its life.  (The object of a failed accept has none.)
Life(c) ==
    IF ~conn[c].exists \/ conn[c].fd = BadFd THEN "none"
    ELSE IF c \notin Range(connMap) \cup Accepting THEN "closed"
    ELSE IF interest[conn[c].fd] \in {"in", "out"} THEN "waiting"
    ELSE IF IsReported(c) THEN "reported" ELSE "held"

Lives == INSTANCE ConnectionLife WITH life <- [c \in Conns |-> Life(c)]

\* A connection is passed from the kernel to one thread and back: only an event takes
\* it out of its wait, only the thread that has it closes it, and one that is closed
\* is never handled again.
ImplementsConnectionLife == Lives!LifeSpec

\* EPOLLONESHOT with a rearm as the last thing a handler does: no two threads ever
\* handle one connection, and none does while an event for it can still arrive.
OneHandler == \A c \in Conns : Cardinality(Handlers(c)) <= 1

\* No connection is forgotten: one that is in connMap is armed or has a handler.
\* (The object made for a failed accept, with descriptor -1, is forgotten.)
NoOrphan == \A f \in DOMAIN connMap \ {BadFd} : Handlers(connMap[f]) # {}

\* The event loop reads connMap without mapLock (Server.cpp:128,134,137): the entry
\* it looks for is there, and is not the one a worker is erasing.
EventHasEntry ==
    \A e \in batch : e.fd # ListenFd =>
        /\ e.fd \in DOMAIN connMap
        /\ \A w \in Workers : pc[w] \in {"close_lock", "close_del", "close_erase"} =>
                               conn[running[w].conn].fd # e.fd

\* connMap maps an open descriptor to the object that closes it, so a descriptor
\* that accept returns again is never still in the table.
MapMatchesObjects ==
    /\ \A f \in DOMAIN connMap : conn[connMap[f]].exists /\ conn[connMap[f]].fd = f
    /\ pc[Main] = "accept_insert" => conn[cur].fd \notin DOMAIN connMap \ {BadFd}

\* The enableConnRead that handleWrite runs after CloseConn (Server.cpp:88), like
\* any rearm, finds its Connection alive, and on its descriptor no registration but
\* that of the same connection.
RearmsOwn ==
    \A w \in Workers : pc[w] = "rearm" =>
        LET c == running[w].conn
        IN  /\ conn[c].exists
            /\ interest[conn[c].fd] # "none" => c \in Range(connMap)

\* A handler comes to its system call when that can do something: the descriptor,
\* which epoll_add registers before it makes it non-blocking (Server.cpp:161,167), does
\* not block the worker, and there is something to read, since a recv that finds
\* nothing makes handleRead close a healthy connection (Server.cpp:64).
HandlerReady ==
    \A w \in Workers :
        /\ pc[w] \in {"recv", "send"} => conn[running[w].conn].nonblock
        /\ pc[w] = "recv" => conn[running[w].conn].data

\* Thread x cannot go on before another thread has.
Blocked(x) ==
    \/ pc[x] \in {"accept_lock", "close_lock"} /\ mapLock # NoConn
    \/ pc[x] = "add_task" /\ Len(mTasks) >= qSize
    \/ pc[x] = "idle" /\ mTasks = <<>>

\* Whoever is waited for can go on: the holder of mapLock, for which any thread may
\* wait, and one of the workers, for which the event loop waits before a full queue.
\* So the two things to wait for never close a circle.
NoCircle ==
    /\ mapLock # NoConn => ~Blocked(mapLock)
    /\ pc[Main] = "add_task" /\ Blocked(Main) => \E w \in Workers : ~Blocked(w)

\* The event loop always returns to epoll_wait: neither a full queue nor mapLock
\* holds it for ever.
LoopReturns == pc[Main] # "epoll_wait" ~> pc[Main] = "epoll_wait" \/ crashed

\* The descriptor of a connection whose peer is gone is eventually released.
HangupReleased ==
    \A c \in Conns : conn[c].fd # BadFd /\ conn[c].hup ~> ~conn[c].exists \/ crashed

=============================================================================
