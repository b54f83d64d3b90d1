---------------------------- MODULE ServerProofs ----------------------------
(***************************************************************************)
(* Theorems about Server, for any number of workers, of descriptors and of *)
(* connections, and any capacity of the pool's queue.                      *)
(*                                                                         *)
(* No property of Server is inductive alone.  That one thread handles a    *)
(* connection rests on EPOLLONESHOT: what has a handler is disarmed, so    *)
(* the proof follows a registration through its life, and with it the      *)
(* entry in connMap and the object the entry keeps alive.  ServerInv says  *)
(* where each of the three is at every place of every thread.              *)
(***************************************************************************)
EXTENDS Server, FiniteSetTheorems, Induction

-----------------------------------------------------------------------------
(* The inductive invariant.                                                  *)

\* An object exists as long as something refers to it, and has its descriptor for
\* itself.
Objects ==
    /\ \A c \in Conns : conn[c].exists => c \in Referenced
    /\ \A c \in Conns : c \in Referenced => conn[c].exists
    /\ \A c \in Conns : ~conn[c].exists => conn[c] = NoObject
    /\ \A c, d \in Conns :
          conn[c].exists /\ conn[d].exists /\ conn[c].fd = conn[d].fd /\ conn[c].fd \in Fds
          => c = d

\* connMap is keyed by the descriptor of the object, and only what is in connMap is
\* registered.
Table ==
    /\ \A f \in DOMAIN connMap : conn[connMap[f]].fd = f
    /\ \A f \in Fds : interest[f] # "none" => f \in DOMAIN connMap

\* Connection c is in connMap; its registration is i.
InTable(c) == conn[c].fd \in DOMAIN connMap /\ connMap[conn[c].fd] = c

Registered(c, i) == conn[c].fd \in Fds /\ InTable(c) /\ interest[conn[c].fd] = i

\* What the event loop has, by the place it is at.
MainPlace ==
    /\ pc[Main] = "epoll_wait" => batch = {}
    /\ cur = NoConn <=> pc[Main] \in {"epoll_wait", "next"}
    /\ todo # NoTask <=> pc[Main] = "add_task"
    /\ pc[Main] \in {"accept_lock", "accept_insert"} =>
          cur \notin Range(connMap) /\ cur \notin TaskConns
    /\ pc[Main] \in {"accept_add", "accept_nonblock"} => InTable(cur)
    /\ pc[Main] = "accept_add" /\ conn[cur].fd \in Fds => interest[conn[cur].fd] = "none"
    /\ pc[Main] = "accept_nonblock" /\ conn[cur].fd \in Fds => interest[conn[cur].fd] = "in"
    /\ pc[Main] \in {"add_task", "shutdown", "close_lock", "close_del"} =>
          Registered(cur, "off")
    /\ pc[Main] = "close_erase" => Registered(cur, "none")
    /\ pc[Main] = "add_task" => todo.conn = cur /\ (todo.kind = "in" => conn[cur].data)

\* What worker w has.  One that closed its connection in the write callback comes to
\* its rearm with a descriptor that is registered no more.
WorkerPlace(w) ==
    LET c == running[w].conn
    IN  /\ running[w] = NoTask <=> pc[w] = "idle"
        /\ running[w] # NoTask => conn[c].fd \in Fds
        /\ pc[w] \in {"recv", "send", "read_cb", "write_cb", "shutdown", "close_lock",
                      "close_del"} => Registered(c, "off")
        /\ pc[w] = "close_erase" => Registered(c, "none")
        /\ pc[w] = "rearm" =>
              /\ mode[w] \in {"in", "out"}
              /\ \/ Registered(c, "off")
                 \/ interest[conn[c].fd] = "none" /\ conn[c].fd \notin DOMAIN connMap
        /\ pc[w] = "recv" => conn[c].data

\* An event the loop has not come to yet: its registration is disarmed, it is the only
\* one, and nothing else has the connection.
EventPlace(e) ==
    /\ e.fd \in DOMAIN connMap
    /\ interest[e.fd] = "off"
    /\ e.kind = "in" => conn[connMap[e.fd]].data
    /\ \A d \in batch : d.fd = e.fd => d = e
    /\ cur # connMap[e.fd]

\* A queued task.
TaskPlace(i) ==
    LET c == mTasks[i].conn
    IN  /\ Registered(c, "off")
        /\ mTasks[i].kind = "in" => conn[c].data
        /\ \A j \in DOMAIN mTasks : mTasks[j].conn = c => j = i
        /\ cur # c
        /\ \A e \in batch : e.fd # conn[c].fd

\* Worker w has a connection and has not given it up by rearming or closing it.
Serves(w) == running[w] # NoTask /\ pc[w] # "return"

\* Nothing else has the connection worker w serves.
Apart(w) ==
    LET c == running[w].conn
    IN  /\ cur # c
        /\ \A e \in batch : e.fd # conn[c].fd
        /\ \A i \in DOMAIN mTasks : mTasks[i].conn # c
        /\ \A v \in Workers : Serves(v) /\ running[v].conn = c => v = w

\* Descriptor f of connMap is armed or has one that handles it.
Kept(f) ==
    \/ interest[f] \in {"in", "out"}
    \/ \E e \in batch : e.fd = f
    \/ cur = connMap[f]
    \/ \E i \in DOMAIN mTasks : mTasks[i].conn = connMap[f]
    \/ \E w \in Workers : Serves(w) /\ running[w].conn = connMap[f]

\* Only the connection being accepted may still block.
Unblocked(f) ==
    \/ conn[connMap[f]].nonblock
    \/ cur = connMap[f] /\ pc[Main] \in {"accept_add", "accept_nonblock"}

Events == \A e \in batch : IF e.fd = ListenFd THEN e.kind = "in" /\ backlog > 0 ELSE EventPlace(e)
Queued == \A i \in DOMAIN mTasks : TaskPlace(i)
AtWork == \A w \in Workers : WorkerPlace(w)
AllApart == \A w \in Workers : Serves(w) => Apart(w)
AllKept == \A f \in DOMAIN connMap \ {BadFd} : Kept(f)
AllUnblocked == \A f \in DOMAIN connMap \ {BadFd} : Unblocked(f)

Placed ==
    /\ Objects /\ Table /\ MainPlace
    /\ AtWork /\ Events /\ Queued /\ AllApart /\ AllKept /\ AllUnblocked

ServerInv == TypeOK /\ Placed

-----------------------------------------------------------------------------
(* Lemmas about the operators of Server.                                     *)

\* A nonempty set of natural numbers has a least element, which Min returns: what
\* accept takes is a free descriptor.
LEMMA MinElement ==
    ASSUME NEW S \in SUBSET Nat, S # {}
    PROVE  Min(S) \in S
<1>1. S \subseteq Nat
  OBVIOUS
<1>2. PICK x \in S : \A y \in S : x <= y
  BY <1>1, Least
<1> QED BY <1>2 DEF Min

\* The constants that stand for nothing are none of what there is.
LEMMA Constants ==
    /\ BadFd \notin Fds /\ ListenFd \notin Fds /\ ListenFd # BadFd
    /\ Main \in Threads /\ Main \notin Workers /\ Workers \subseteq Threads
    /\ NoConn \notin Conns /\ NoConn \notin Threads
    /\ NoTask \notin Tasks
BY ServerAssumption DEF ServerAssumption, BadFd, Threads

\* The table as a function, from the type invariant and to it.
LEMMA TableType ==
    ASSUME NEW m, m \in UNION {[F -> Conns] : F \in SUBSET (Fds \cup {BadFd})}
    PROVE  /\ m = [f \in DOMAIN m |-> m[f]]
           /\ DOMAIN m \subseteq Fds \cup {BadFd}
           /\ \A f \in DOMAIN m : m[f] \in Conns
<1>1. PICK F \in SUBSET (Fds \cup {BadFd}) : m \in [F -> Conns]
  OBVIOUS
<1> QED BY <1>1

LEMMA TableTypeBack ==
    ASSUME NEW D \in SUBSET (Fds \cup {BadFd}), NEW m \in [D -> Conns]
    PROVE  m \in UNION {[F -> Conns] : F \in SUBSET (Fds \cup {BadFd})}
OBVIOUS

\* What is in the table is in Referenced, and so is what a task holds.
LEMMA References ==
    /\ \A f \in DOMAIN connMap : connMap[f] \in Referenced
    /\ \A i \in DOMAIN mTasks : mTasks[i].conn \in Referenced
    /\ \A w \in Workers : running[w] # NoTask => running[w].conn \in Referenced
    /\ todo # NoTask => todo.conn \in Referenced
    /\ pc[Main] \in {"accept_lock", "accept_insert", "accept_add", "accept_nonblock"} =>
          cur \in Referenced
BY DEF Referenced, TaskConns, Accepting, Range

\* And nothing else is.
LEMMA ReferencedOnly ==
    ASSUME NEW c \in Referenced
    PROVE  \/ \E f \in DOMAIN connMap : connMap[f] = c
           \/ \E i \in DOMAIN mTasks : mTasks[i].conn = c
           \/ \E w \in Workers : running[w] # NoTask /\ running[w].conn = c
           \/ todo # NoTask /\ todo.conn = c
           \/ pc[Main] \in {"accept_lock", "accept_insert", "accept_add", "accept_nonblock"}
              /\ cur = c
BY DEF Referenced, TaskConns, Accepting, Range

\* The entry of a descriptor in connMap: an object that exists and has that descriptor.
LEMMA Entry ==
    ASSUME TypeOK, Objects, Table, NEW f \in DOMAIN connMap
    PROVE  /\ f \in Fds \cup {BadFd}
           /\ connMap[f] \in Conns
           /\ conn[connMap[f]].exists
           /\ conn[connMap[f]].fd = f
<1>1. f \in Fds \cup {BadFd} /\ connMap[f] \in Conns
  BY TableType DEF TypeOK
<1> QED BY <1>1, References DEF Objects, Table

\* The open socket of a registered descriptor is the one in connMap.
LEMMA SocketInTable ==
    ASSUME TypeOK, Objects, Table, NEW f \in Fds, interest[f] # "none"
    PROVE  f \in DOMAIN connMap /\ SocketOf(f) = connMap[f]
<1>1. f \in DOMAIN connMap BY DEF Table
<1>2. connMap[f] \in Conns /\ conn[connMap[f]].exists /\ conn[connMap[f]].fd = f
  BY <1>1, Entry
<1>3. \A c \in Conns : conn[c].exists /\ conn[c].fd = f => c = connMap[f]
  BY <1>2 DEF Objects
<1> QED BY <1>1, <1>2, <1>3 DEF SocketOf

\* Accept always finds an identity for the new Connection: while the event loop looks
\* at an event, every object has a descriptor of its own, except the one that a failed
\* accept left in connMap.
LEMMA IdentityFree ==
    ASSUME ServerInv, pc[Main] = "next"
    PROVE  \E c \in Conns : ~conn[c].exists
<1> SUFFICES ASSUME \A c \in Conns : conn[c].exists PROVE FALSE
  OBVIOUS
<1> DEFINE fdOf == [c \in Conns |-> conn[c].fd]
<1>1. fdOf \in [Conns -> Fds \cup {BadFd}]
  BY DEF ServerInv, Placed, TypeOK
<1>2. ASSUME NEW c \in Conns, conn[c].fd = BadFd
      PROVE  BadFd \in DOMAIN connMap /\ c = connMap[BadFd]
  <2> USE DEF ServerInv, Placed
  <2>1. c \in Referenced BY DEF Objects
  <2>2. ASSUME NEW f \in DOMAIN connMap, connMap[f] = c
        PROVE  BadFd \in DOMAIN connMap /\ c = connMap[BadFd]
    BY <1>2, <2>2, Entry
  <2>3. ASSUME NEW i \in DOMAIN mTasks, mTasks[i].conn = c PROVE FALSE
    BY <1>2, <2>3, Constants DEF Queued, TaskPlace, Registered
  <2>4. ASSUME NEW w \in Workers, running[w] # NoTask, running[w].conn = c PROVE FALSE
    BY <1>2, <2>4, Constants DEF AtWork, WorkerPlace
  <2>5. todo = NoTask BY DEF MainPlace
  <2> QED BY <2>1, <2>2, <2>3, <2>4, <2>5, ReferencedOnly
<1>3. ASSUME NEW c \in Conns, NEW d \in Conns, fdOf[c] = fdOf[d] PROVE c = d
  <2>1. CASE conn[c].fd = BadFd BY <1>2, <1>3, <2>1
  <2>2. CASE conn[c].fd \in Fds BY <1>3, <2>2 DEF ServerInv, Placed, Objects
  <2> QED BY <1>1, <2>1, <2>2
<1>4. fdOf \in Injection(Conns, Fds \cup {BadFd})
  BY <1>1, <1>3 DEF Injection, IsInjective
<1>5. /\ IsFiniteSet(Fds \cup {BadFd})
      /\ Cardinality(Fds \cup {BadFd}) = Cardinality(Fds) + 1
      /\ Cardinality(Fds) \in Nat
  BY ServerAssumption, Constants, FS_AddElement, FS_CardinalityType DEF ServerAssumption
<1>6. IsFiniteSet(Conns) /\ Cardinality(Conns) <= Cardinality(Fds) + 1
  BY <1>4, <1>5, FS_Injection
<1>7. Cardinality(Conns) \in Nat BY <1>6, FS_CardinalityType
<1> QED BY <1>5, <1>6, <1>7, ServerAssumption DEF ServerAssumption

-----------------------------------------------------------------------------
(* Initialization and types.                                                 *)

\* The initial state satisfies the invariant: nothing is open.
LEMMA ServerInvInit == Init => ServerInv
<1> SUFFICES ASSUME Init PROVE ServerInv
  OBVIOUS
<1> USE Constants DEF Init
<1>0. connMap = [f \in {} |-> NoConn] /\ DOMAIN connMap = {} BY DEF Init
<1>1. TypeOK
  <2>1. connMap \in UNION {[F -> Conns] : F \in SUBSET (Fds \cup {BadFd})}
    BY <1>0, TableTypeBack
  <2>2. backlog \in 0..MaxBacklog BY ServerAssumption DEF ServerAssumption
  <2>3. pc \in [Threads -> MainStates \cup WorkerStates]
    BY DEF MainStates, WorkerStates
  <2>4. pc[Main] \in MainStates /\ \A w \in Workers : pc[w] \in WorkerStates
    BY DEF MainStates, WorkerStates, Threads
  <2>5. conn \in [Conns -> [fd : Fds \cup {BadFd}, exists : BOOLEAN, data : BOOLEAN,
                            hup : BOOLEAN, nonblock : BOOLEAN]]
    BY DEF NoObject
  <2>6. mTasks \in Seq(Tasks) OBVIOUS
  <2> QED BY <2>1, <2>2, <2>3, <2>4, <2>5, <2>6 DEF TypeOK
<1>2. pc[Main] = "epoll_wait" /\ \A w \in Workers : pc[w] = "idle"
  BY DEF Threads
<1>3. DOMAIN mTasks = {} OBVIOUS
<1>4. Referenced = {}
  BY <1>0, <1>2, <1>3 DEF Referenced, TaskConns, Accepting, Range
<1>5. Objects BY <1>4 DEF Objects, NoObject
<1>6. Table BY <1>0 DEF Table
<1>7. MainPlace BY <1>2 DEF MainPlace
<1>8. AtWork BY <1>2 DEF AtWork, WorkerPlace
<1>9. Events /\ Queued BY <1>3 DEF Events, Queued
<1>10. AllApart BY DEF AllApart, Serves
<1>11. AllKept /\ AllUnblocked BY <1>0 DEF AllKept, AllUnblocked
<1> QED BY <1>1, <1>5, <1>6, <1>7, <1>8, <1>9, <1>10, <1>11 DEF ServerInv, Placed

\* What conn[c] ranges over.
ObjectType == [fd : Fds \cup {BadFd}, exists : BOOLEAN, data : BOOLEAN, hup : BOOLEAN,
               nonblock : BOOLEAN]

LEMMA ObjectTypes ==
    NoObject \in ObjectType /\ \A f \in Fds \cup {BadFd} : NewObject(f) \in ObjectType
BY DEF NoObject, NewObject, ObjectType

\* The connection a thread in CloseConn is closing.
LEMMA ClosingIs ==
    ASSUME ServerInv, NEW x \in Threads,
           pc[x] \in {"shutdown", "close_lock", "close_del", "close_erase"}
    PROVE  /\ Closing(x) \in Conns
           /\ Registered(Closing(x), IF pc[x] = "close_erase" THEN "none" ELSE "off")
<1> USE Constants DEF ServerInv, Placed, TypeOK, Threads, Closing
<1>1. CASE x = Main BY <1>1 DEF MainPlace
<1>2. CASE x \in Workers
  <2>1. running[x] \in Tasks BY <1>2 DEF AtWork, WorkerPlace
  <2>2. Registered(running[x].conn, IF pc[x] = "close_erase" THEN "none" ELSE "off")
    BY <1>2 DEF AtWork, WorkerPlace
  <2> QED BY <1>2, <2>1, <2>2 DEF Tasks
<1> QED BY <1>1, <1>2

\* Accept: the new object, whose identity was free, and its descriptor.
LEMMA Accepted ==
    ASSUME ServerInv, NEW e \in batch, Accept(e)
    PROVE  /\ cur' \in Conns /\ ~conn[cur'].exists
           /\ \E f \in Fds \cup {BadFd} :
                 /\ \A c \in Conns : conn[c].exists /\ f \in Fds => conn[c].fd # f
                 /\ conn' = [conn EXCEPT ![cur'] = NewObject(f)]
                 /\ backlog' = IF f = BadFd THEN backlog ELSE backlog - 1
<1> DEFINE free == Fds \ OpenFds
           c == CHOOSE d \in Conns : ~conn[d].exists
<1>1. c \in Conns /\ ~conn[c].exists
  <2>1. pc[Main] = "next" BY DEF Accept
  <2> QED BY <2>1, IdentityFree
<1>2. cur' = c BY DEF Accept
<1>3. free \in SUBSET Nat /\ free \subseteq Fds
  BY ServerAssumption DEF ServerAssumption
<1>4. CASE free = {}
  <2>1. conn' = [conn EXCEPT ![c] = NewObject(BadFd)] /\ backlog' = backlog
    BY <1>4 DEF Accept
  <2> QED BY <1>1, <1>2, <2>1, Constants
<1>5. CASE free # {}
  <2>1. conn' = [conn EXCEPT ![c] = NewObject(Min(free))] /\ backlog' = backlog - 1
    BY <1>5 DEF Accept
  <2>2. Min(free) \in free
    <3> HIDE DEF free
    <3> QED BY <1>3, <1>5, MinElement
  <2>3. Min(free) \in Fds /\ Min(free) \notin OpenFds BY <2>2
  <2>4. \A d \in Conns : conn[d].exists => conn[d].fd # Min(free)
    BY <2>3 DEF OpenFds
  <2>5. Min(free) # BadFd BY <2>3, Constants
  <2> HIDE DEF free, c
  <2> SUFFICES \E f \in Fds \cup {BadFd} :
                  /\ \A d \in Conns : conn[d].exists /\ f \in Fds => conn[d].fd # f
                  /\ conn' = [conn EXCEPT ![cur'] = NewObject(f)]
                  /\ backlog' = IF f = BadFd THEN backlog ELSE backlog - 1
    BY <1>1, <1>2
  <2> USE <2>3
  <2> WITNESS Min(free) \in Fds \cup {BadFd}
  <2> QED BY <1>2, <2>1, <2>4, <2>5
<1> QED BY <1>4, <1>5

\* Every step keeps the types of the objects.
LEMMA ObjectTypeStep ==
    ASSUME ServerInv, [Next]_vars
    PROVE  conn' \in [Conns -> ObjectType]
<1>0. conn \in [Conns -> ObjectType] BY DEF ServerInv, Placed, TypeOK, ObjectType
<1>1. CASE UNCHANGED conn BY <1>0, <1>1
<1>2. ASSUME NEW c \in Conns, PeerSend(c) \/ PeerClose(c) PROVE conn' \in [Conns -> ObjectType]
  <2>1. conn' = [conn EXCEPT ![c].data = TRUE] \/ conn' = [conn EXCEPT ![c].hup = TRUE]
    BY <1>2, Zenon DEF PeerSend, PeerClose
  <2> QED BY <1>0, <2>1 DEF ObjectType
<1>3. ASSUME NEW e \in batch, Accept(e) PROVE conn' \in [Conns -> ObjectType]
  BY <1>0, <1>3, Accepted, ObjectTypes
<1>4. CASE Destroy BY <1>0, <1>4, ObjectTypes DEF Destroy
<1>5. CASE AcceptNonblock
  <2>1. cur \in Conns BY <1>5 DEF ServerInv, Placed, TypeOK, AcceptNonblock, MainPlace
  <2>2. (conn[cur].fd # BadFd) \in BOOLEAN OBVIOUS
  <2>3. conn' = [conn EXCEPT ![cur].nonblock = conn[cur].fd # BadFd]
    BY <1>5 DEF AcceptNonblock, setnonblocking
  <2> DEFINE alive == conn[cur].fd # BadFd
  <2>4. conn' = [conn EXCEPT ![cur].nonblock = alive] /\ alive \in BOOLEAN BY <2>2, <2>3
  <2> HIDE DEF alive
  <2> QED BY <1>0, <2>1, <2>4 DEF ObjectType
<1>6. ASSUME NEW x \in Threads, Shutdown(x) PROVE conn' \in [Conns -> ObjectType]
  <2>1. Closing(x) \in Conns BY <1>6, ClosingIs DEF Shutdown
  <2> QED BY <1>0, <1>6, <2>1 DEF Shutdown, ShutRd, ObjectType
<1>7. ASSUME NEW w \in Workers, Recv(w) PROVE conn' \in [Conns -> ObjectType]
  <2>1. running[w].conn \in Conns
    BY <1>7, Constants DEF ServerInv, Placed, TypeOK, Recv, AtWork, WorkerPlace, Tasks
  <2>2. UNCHANGED conn \/ \E left \in BOOLEAN : conn' = [conn EXCEPT ![running[w].conn].data = left]
    BY <1>7 DEF Recv
  <2>3. ASSUME NEW left \in BOOLEAN, conn' = [conn EXCEPT ![running[w].conn].data = left]
        PROVE  conn' \in [Conns -> ObjectType]
    BY <1>0, <2>1, <2>3 DEF ObjectType
  <2> QED BY <1>1, <2>2, <2>3
<1> QED
  BY <1>1, <1>2, <1>3, <1>4, <1>5, <1>6, <1>7, Constants
     DEF Next, Peer, MainStep, WorkerStep, vars, sockets, PeerConnect, EpollWait, BatchDone,
         Lookup, LookupCrash, AcceptLock, AcceptInsert, AcceptAdd, AddTask, CloseLock, CloseDel,
         CloseErase, TakeTask, ReadCb, Send, WriteCb, Rearm, Return

\* And of the table.
LEMMA TableTypeStep ==
    ASSUME ServerInv, [Next]_vars
    PROVE  connMap' \in UNION {[F -> Conns] : F \in SUBSET (Fds \cup {BadFd})}
<1>0. connMap \in UNION {[F -> Conns] : F \in SUBSET (Fds \cup {BadFd})}
  BY DEF ServerInv, Placed, TypeOK
<1>1. CASE UNCHANGED connMap BY <1>0, <1>1
<1>2. CASE AcceptInsert
  <2>1. cur \in Conns /\ conn[cur].fd \in Fds \cup {BadFd}
    BY <1>2 DEF ServerInv, Placed, TypeOK, AcceptInsert, MainPlace
  <2>2. connMap' \in [DOMAIN connMap \cup {conn[cur].fd} -> Conns]
    BY <1>0, <1>2, <2>1, TableType DEF AcceptInsert
  <2> QED BY <1>0, <2>1, <2>2, TableType, TableTypeBack
<1>3. ASSUME NEW x \in Threads, CloseErase(x)
      PROVE  connMap' \in UNION {[F -> Conns] : F \in SUBSET (Fds \cup {BadFd})}
  <2>1. connMap' \in [DOMAIN connMap \ {conn[Closing(x)].fd} -> Conns]
    BY <1>0, <1>3, TableType DEF CloseErase, Restrict
  <2> QED BY <1>0, <2>1, TableType, TableTypeBack
<1> QED
  BY <1>1, <1>2, <1>3, Constants
     DEF Next, Peer, MainStep, WorkerStep, vars, table, PeerConnect, PeerSend, PeerClose,
         EpollWait, BatchDone, Accept, Lookup, LookupCrash, AcceptLock, AcceptAdd,
         AcceptNonblock, AddTask, Shutdown, CloseLock, CloseDel, TakeTask, Recv, ReadCb, Send,
         WriteCb, Rearm, Return

\* A step of a worker keeps the types of the places.
LEMMA WorkerGoto ==
    ASSUME TypeOK, NEW w \in Workers, NEW label \in WorkerStates, Goto(w, label)
    PROVE  /\ pc' \in [Threads -> MainStates \cup WorkerStates]
           /\ pc'[Main] \in MainStates /\ \A v \in Workers : pc'[v] \in WorkerStates
<1>1. /\ pc \in [Threads -> MainStates \cup WorkerStates]
      /\ pc[Main] \in MainStates /\ \A v \in Workers : pc[v] \in WorkerStates
  BY DEF TypeOK
<1>2. pc' = [pc EXCEPT ![w] = label]
  BY DEF Goto
<1> QED BY <1>1, <1>2, Constants

\* Every step keeps the types.
LEMMA TypeStep == ServerInv /\ [Next]_vars => TypeOK'
<1> SUFFICES ASSUME ServerInv, [Next]_vars PROVE TypeOK'
  OBVIOUS
<1>0. conn' \in [Conns -> [fd : Fds \cup {BadFd}, exists : BOOLEAN, data : BOOLEAN,
                          hup : BOOLEAN, nonblock : BOOLEAN]]
      /\ connMap' \in UNION {[F -> Conns] : F \in SUBSET (Fds \cup {BadFd})}
  BY ObjectTypeStep, TableTypeStep DEF ObjectType
<1> USE <1>0, Constants DEF ServerInv, Placed, TypeOK, Goto, Lock, Unlock, sockets, table, pool, loop,
MainStates, WorkerStates, Threads
<1>1. CASE PeerConnect
  BY <1>1, ServerAssumption DEF PeerConnect, ServerAssumption
<1>2. ASSUME NEW c \in Conns, PeerSend(c) \/ PeerClose(c) PROVE TypeOK'
  BY <1>2 DEF PeerSend, PeerClose
<1>3. CASE EpollWait
  BY <1>3 DEF EpollWait, Event, Harvested, Ready
<1>4. CASE BatchDone BY <1>4 DEF BatchDone
<1>5. ASSUME NEW e \in batch, Accept(e) PROVE TypeOK'
  <2>1. cur' \in Conns /\ (backlog' = backlog \/ backlog' = backlog - 1)
    BY <1>5, Accepted
  <2>3. backlog' \in 0..MaxBacklog
    BY <1>5, <2>1, ServerAssumption DEF Accept, Events, ServerAssumption
  <2>2. batch' \subseteq batch BY <1>5 DEF Accept
  <2> QED BY <1>5, <2>1, <2>2, <2>3 DEF Accept
<1>6. ASSUME NEW e \in batch, Lookup(e) PROVE TypeOK'
  <2>1. connMap[e.fd] \in Conns BY <1>6, Entry DEF Lookup
  <2>2. e.kind # "hup" => Bound(e) \in Tasks BY <2>1 DEF Bound, Tasks
  <2> QED BY <1>6, <2>1, <2>2 DEF Lookup
<1>7. ASSUME NEW e \in batch, LookupCrash(e) PROVE TypeOK'
  BY <1>7 DEF LookupCrash
<1>8. CASE AcceptLock BY <1>8 DEF AcceptLock
<1>9. CASE AcceptInsert BY <1>9 DEF AcceptInsert, Destroy
<1>10. CASE AcceptAdd BY <1>10 DEF AcceptAdd
<1>11. CASE AcceptNonblock BY <1>11 DEF AcceptNonblock
<1>12. CASE AddTask
  <2>1. todo \in Tasks BY <1>12 DEF AddTask, MainPlace
  <2>2. mTasks' \in Seq(Tasks) BY <1>12, <2>1 DEF AddTask, Pool!Put
  <2> QED BY <1>12, <2>2 DEF AddTask, Pool!Put
<1>13. ASSUME NEW x \in Threads, Shutdown(x) PROVE TypeOK'
  BY <1>13 DEF Shutdown
<1>14. ASSUME NEW x \in Threads, CloseLock(x) PROVE TypeOK'
  BY <1>14 DEF CloseLock
<1>15. ASSUME NEW x \in Threads, CloseDel(x) PROVE TypeOK'
  BY <1>15 DEF CloseDel, Deleted
<1>16. ASSUME NEW x \in Threads, CloseErase(x) PROVE TypeOK'
  <2>1. interest' \in [Fds -> {"none", "off", "in", "out"}] BY <1>16 DEF CloseErase, Destroy
  <2>2. /\ pc' \in [Threads -> MainStates \cup WorkerStates]
        /\ pc'[Main] \in MainStates /\ \A w \in Workers : pc'[w] \in WorkerStates
    BY <1>16 DEF CloseErase
  <2> QED BY <1>16, <2>1, <2>2 DEF CloseErase
<1>17. ASSUME NEW w \in Workers, TakeTask(w) PROVE TypeOK'
  <2>1. /\ mTasks # <<>> /\ mTasks' = Tail(mTasks)
        /\ running' = [running EXCEPT ![w] = Head(mTasks)]
    BY <1>17 DEF TakeTask, Pool!Take
  <2>2. mTasks' \in Seq(Tasks) /\ running' \in [Workers -> Tasks \cup {NoTask}]
    BY <2>1
  <2>3. \E label \in {"recv", "send"} : Goto(w, label)
    BY <1>17 DEF TakeTask
  <2>4. /\ pc' \in [Threads -> MainStates \cup WorkerStates]
        /\ pc'[Main] \in MainStates /\ \A v \in Workers : pc'[v] \in WorkerStates
    BY <2>3, WorkerGoto
  <2>5. mode' = [mode EXCEPT ![w] = "none"] /\ UNCHANGED <<sockets, loop, table, crashed>>
    BY <1>17 DEF TakeTask
  <2>6. mode' \in [Workers -> {"none", "in", "out"}]
    BY <2>5
  <2> QED BY <2>2, <2>4, <2>5, <2>6
<1>18. ASSUME NEW w \in Workers, Recv(w) PROVE TypeOK'
  <2>1. \E label \in {"read_cb", "shutdown"} : Goto(w, label)
    BY <1>18 DEF Recv
  <2>2. UNCHANGED <<backlog, interest, loop, table, pool, mode, crashed>>
    BY <1>18 DEF Recv
  <2>3. /\ pc' \in [Threads -> MainStates \cup WorkerStates]
        /\ pc'[Main] \in MainStates /\ \A v \in Workers : pc'[v] \in WorkerStates
    BY <2>1, WorkerGoto
  <2> QED BY <2>2, <2>3
<1>19. ASSUME NEW w \in Workers, ReadCb(w) PROVE TypeOK'
  <2>1. UNCHANGED pc \/ Goto(w, "rearm") BY <1>19 DEF ReadCb, Then
  <2>2. UNCHANGED <<sockets, loop, table, pool>> BY <1>19 DEF ReadCb
  <2>3. crashed' \in BOOLEAN BY <1>19 DEF ReadCb
  <2>5. mode' \in [Workers -> {"none", "in", "out"}]
    <3>1. UNCHANGED mode \/ \E m \in {"in", "out"} : mode' = [mode EXCEPT ![w] = m]
      BY <1>19 DEF ReadCb
    <3>2. mode \in [Workers -> {"none", "in", "out"}] BY <1>0
    <3> QED BY <3>1, <3>2
  <2>4. /\ pc' \in [Threads -> MainStates \cup WorkerStates]
        /\ pc'[Main] \in MainStates /\ \A v \in Workers : pc'[v] \in WorkerStates
    BY <2>1, WorkerGoto
  <2> QED BY <2>2, <2>3, <2>4, <2>5
<1>20. ASSUME NEW w \in Workers, Send(w) PROVE TypeOK'
  <2>1. \E label \in {"shutdown", "send", "rearm", "write_cb"} : Goto(w, label)
    BY <1>20 DEF Send
  <2>2. UNCHANGED <<sockets, loop, table, pool>> BY <1>20 DEF Send
  <2>3. mode' \in [Workers -> {"none", "in", "out"}] /\ crashed' \in BOOLEAN BY <1>20 DEF Send
  <2>4. /\ pc' \in [Threads -> MainStates \cup WorkerStates]
        /\ pc'[Main] \in MainStates /\ \A v \in Workers : pc'[v] \in WorkerStates
    BY <2>1, WorkerGoto
  <2> QED BY <2>2, <2>3, <2>4
<1>21. ASSUME NEW w \in Workers, WriteCb(w) PROVE TypeOK'
  <2>1. \E label \in {"rearm", "shutdown"} : Goto(w, label)
    BY <1>21 DEF WriteCb
  <2>2. mode' = [mode EXCEPT ![w] = "in"] /\ UNCHANGED <<sockets, loop, table, pool, crashed>>
    BY <1>21 DEF WriteCb
  <2>3. mode' \in [Workers -> {"none", "in", "out"}] BY <2>2
  <2>4. /\ pc' \in [Threads -> MainStates \cup WorkerStates]
        /\ pc'[Main] \in MainStates /\ \A v \in Workers : pc'[v] \in WorkerStates
    BY <2>1, WorkerGoto
  <2> QED BY <2>2, <2>3, <2>4
<1>22. ASSUME NEW w \in Workers, Rearm(w) PROVE TypeOK'
  BY <1>22 DEF Rearm
<1>23. ASSUME NEW w \in Workers, Return(w) PROVE TypeOK'
  BY <1>23 DEF Return, Pool!Finish, Destroy
<1>24. CASE UNCHANGED vars BY <1>24 DEF vars
<1> QED
  BY <1>1, <1>2, <1>3, <1>4, <1>5, <1>6, <1>7, <1>8, <1>9, <1>10, <1>11, <1>12, <1>13, <1>14,
     <1>15, <1>16, <1>17, <1>18, <1>19, <1>20, <1>21, <1>22, <1>23, <1>24
     DEF Next, Peer, MainStep, WorkerStep

-----------------------------------------------------------------------------
(* The steps that move a thread and leave what it has alone.                 *)

\* What the types say of the elements of the state.
LEMMA Elements ==
    ASSUME TypeOK
    PROVE  /\ \A c \in Conns : conn[c].fd \in Fds \cup {BadFd}
           /\ \A i \in DOMAIN mTasks : mTasks[i].conn \in Conns /\ mTasks[i].kind \in {"in", "out"}
           /\ \A w \in Workers : running[w] # NoTask => running[w].conn \in Conns
           /\ todo # NoTask => todo.conn \in Conns /\ todo.kind \in {"in", "out"}
           /\ \A f \in DOMAIN connMap : f \in Fds \cup {BadFd} /\ connMap[f] \in Conns
           /\ \A e \in batch : /\ e.fd \in Fds \cup {ListenFd}
                               /\ e.kind \in {"in", "out", "hup"}
                               /\ e = [fd |-> e.fd, kind |-> e.kind]
           /\ cur \in Conns \cup {NoConn}
<1>0. \A i \in DOMAIN mTasks : mTasks[i] \in Tasks
  <2>1. mTasks \in Seq(Tasks) BY DEF TypeOK
  <2> QED BY <2>1
<1> USE DEF TypeOK, Tasks
<1>1. \A f \in DOMAIN connMap : f \in Fds \cup {BadFd} /\ connMap[f] \in Conns
  BY TableType
<1>3. \A e \in batch : e.fd \in Fds \cup {ListenFd} /\ e.kind \in {"in", "out", "hup"}
  OBVIOUS
<1>4. \A e \in batch : e = [fd |-> e.fd, kind |-> e.kind] OBVIOUS
<1> QED BY <1>0, <1>1, <1>3, <1>4

\* Object c keeps its descriptor, and O_NONBLOCK if it has it.
Alike(c) ==
    /\ conn'[c].fd = conn[c].fd
    /\ conn'[c].exists <=> conn[c].exists
    /\ conn[c].nonblock => conn'[c].nonblock
    /\ ~conn[c].exists => conn'[c] = conn[c]

\* A worker goes from one place to another with its connection, whose data it may have
\* read.
LEMMA WorkerMoves ==
    ASSUME ServerInv, NEW w \in Workers, NEW label,
           pc[w] \notin {"idle", "return"}, label \notin {"idle", "return"},
           pc' = [pc EXCEPT ![w] = label],
           \A v \in Workers \ {w} : mode'[v] = mode[v],
           UNCHANGED <<backlog, interest, batch, connMap, mTasks, running, cur, todo>>,
           \A c \in Conns : Alike(c),
           \A c \in Conns \ {running[w].conn} : conn[c].data => conn'[c].data,
           WorkerPlace(w)'
    PROVE  Placed'
<1>0. /\ Objects /\ Table /\ MainPlace
      /\ AtWork /\ Events /\ Queued /\ AllApart /\ AllKept /\ AllUnblocked
  BY DEF ServerInv, Placed
<1>1. pc'[Main] = pc[Main] /\ pc'[w] = label /\ \A v \in Workers \ {w} : pc'[v] = pc[v]
  BY Constants DEF ServerInv, TypeOK
<1>2. TypeOK BY DEF ServerInv
<1>3. Serves(w) /\ Apart(w) BY <1>0 DEF Serves, AtWork, WorkerPlace, AllApart
<1>4. Referenced' = Referenced BY <1>1 DEF Referenced, TaskConns, Accepting
<1> USE DEF Alike, Registered, InTable
<1>5. Objects' BY <1>0, <1>4 DEF Objects
<1>6. Table' BY <1>0, <1>2, Elements DEF Table
<1>7. MainPlace'
  <2>1. TaskConns' = TaskConns BY DEF TaskConns
  <2>2. cur # NoConn => cur \in Conns /\ cur # running[w].conn
    BY <1>2, <1>3, Elements DEF Apart
  <2>3. cur # NoConn => conn'[cur].fd = conn[cur].fd /\ (conn[cur].data => conn'[cur].data)
    BY <2>2
  <2> QED BY <1>0, <1>1, <2>1, <2>3, Constants DEF MainPlace
<1>8. \A v \in Workers : WorkerPlace(v)'
  <2>1. ASSUME NEW v \in Workers, v # w PROVE WorkerPlace(v)'
    <3>0. WorkerPlace(v) /\ pc'[v] = pc[v] /\ mode'[v] = mode[v] /\ running'[v] = running[v]
      BY <1>0, <1>1, <2>1 DEF AtWork
    <3>1. CASE running[v] = NoTask
      <4>1. pc[v] = "idle" BY <3>0, <3>1 DEF WorkerPlace
      <4> QED BY <3>0, <3>1, <4>1 DEF WorkerPlace
    <3>2. CASE running[v] # NoTask
      <4>1. running[v].conn \in Conns BY <1>2, <3>2, Elements
      <4>2. pc[v] = "recv" => running[v].conn # running[w].conn
        BY <1>3, <2>1, <3>2 DEF Apart, Serves
      <4> DEFINE c == running[v].conn
      <4>3. conn'[c].fd = conn[c].fd BY <4>1
      <4>4. pc[v] = "recv" => conn'[c].data
        BY <3>0, <4>1, <4>2 DEF WorkerPlace
      <4>5. \A i \in {"off", "none"} : Registered(c, i)' = Registered(c, i) BY <4>3
      <4> HIDE DEF Registered, InTable
      <4> QED BY <3>0, <3>2, <4>3, <4>4, <4>5 DEF WorkerPlace
    <3> QED BY <3>1, <3>2
  <2> QED BY <2>1
<1>9. \A v \in Workers : Serves(v)' = Serves(v)
  BY <1>1 DEF Serves
<1>10. Events'
  <2>1. \A e \in batch : e.fd # ListenFd =>
            /\ connMap[e.fd] \in Conns /\ connMap[e.fd] # running[w].conn
            /\ e.fd \in DOMAIN connMap
    <3>1. ASSUME NEW e \in batch, e.fd # ListenFd PROVE e.fd \in DOMAIN connMap
      BY <1>0, <3>1 DEF Events, EventPlace
    <3> QED BY <1>0, <1>2, <1>3, <3>1, Entry DEF Apart
  <2> QED BY <1>0, <2>1 DEF Events, EventPlace
<1>11. Queued'
  <2>1. \A i \in DOMAIN mTasks : mTasks[i].conn \in Conns /\ mTasks[i].conn # running[w].conn
    BY <1>2, <1>3, Elements DEF Apart
  <2> QED BY <1>0, <2>1 DEF Queued, TaskPlace
<1>12. AllApart'
  <2>1. \A v \in Workers : running[v] # NoTask => running[v].conn \in Conns
    BY <1>2, Elements
  <2> QED BY <1>0, <1>9, <2>1 DEF AllApart, Apart, Serves
<1>13. AllKept' BY <1>0, <1>9 DEF AllKept, Kept
<1>14. AllUnblocked' BY <1>0, <1>1, <1>2, Elements DEF AllUnblocked, Unblocked
<1> QED
  BY <1>5, <1>6, <1>7, <1>8, <1>10, <1>11, <1>12, <1>13, <1>14 DEF Placed, AtWork

\* The event loop goes from one place to another with what it has, or peers do
\* something to their end.
LEMMA MainMoves ==
    ASSUME ServerInv, NEW label,
           pc' = [pc EXCEPT ![Main] = label],
           backlog' \in Int, backlog' >= backlog,
           UNCHANGED <<interest, batch, connMap, mTasks, running, cur, todo, mode>>,
           \A c \in Conns : Alike(c) /\ (conn[c].data => conn'[c].data),
           Accepting' = Accepting,
           pc[Main] \notin {"accept_add", "accept_nonblock"} \/ label = pc[Main],
           MainPlace'
    PROVE  Placed'
<1>0. /\ Objects /\ Table
      /\ AtWork /\ Events /\ Queued /\ AllApart /\ AllKept /\ AllUnblocked
  BY DEF ServerInv, Placed
<1>1. pc'[Main] = label /\ \A v \in Workers : pc'[v] = pc[v]
  BY Constants DEF ServerInv, TypeOK
<1>2. TypeOK BY DEF ServerInv
<1>4. Referenced' = Referenced BY DEF Referenced, TaskConns
<1> USE DEF Alike, Registered, InTable
<1>5. Objects' BY <1>0, <1>4 DEF Objects
<1>6. Table' BY <1>0, <1>2, Elements DEF Table
<1>8. \A v \in Workers : WorkerPlace(v)'
  <2> TAKE v \in Workers
  <2>1. running[v] # NoTask => running[v].conn \in Conns BY <1>2, Elements
  <2>2. WorkerPlace(v) /\ pc'[v] = pc[v] /\ mode'[v] = mode[v] /\ running'[v] = running[v]
    BY <1>0, <1>1 DEF AtWork
  <2>3. CASE running[v] = NoTask
    <3>1. pc[v] = "idle" BY <2>2, <2>3 DEF WorkerPlace
    <3> QED BY <2>2, <2>3, <3>1 DEF WorkerPlace
  <2>4. CASE running[v] # NoTask
    <3> DEFINE c == running[v].conn
    <3>1. conn'[c].fd = conn[c].fd /\ (conn[c].data => conn'[c].data) BY <2>1, <2>4
    <3>2. \A i \in {"off", "none"} : Registered(c, i)' = Registered(c, i) BY <3>1
    <3> HIDE DEF Registered, InTable
    <3> QED BY <2>2, <2>4, <3>1, <3>2 DEF WorkerPlace
  <2> QED BY <2>3, <2>4
<1>9. \A v \in Workers : Serves(v)' = Serves(v)
  BY <1>1 DEF Serves
<1>10. Events'
  <2>1. backlog \in Int BY <1>2 DEF TypeOK
  <2> QED BY <1>0, <1>2, <2>1, Elements DEF Events, EventPlace
<1>11. Queued' BY <1>0, <1>2, Elements DEF Queued, TaskPlace
<1>12. AllApart' BY <1>0, <1>2, <1>9, Elements DEF AllApart, Apart, Serves
<1>13. AllKept' BY <1>0, <1>9 DEF AllKept, Kept
<1>14. AllUnblocked' BY <1>0, <1>1, <1>2, Elements DEF AllUnblocked, Unblocked
<1> QED
  BY <1>5, <1>6, <1>8, <1>10, <1>11, <1>12, <1>13, <1>14 DEF Placed, AtWork

\* The steps of the peers.
LEMMA PeerStep == ServerInv /\ Peer => Placed'
<1> SUFFICES ASSUME ServerInv, Peer PROVE Placed'
  OBVIOUS
<1> USE DEF loop, table, pool, sockets
<1>0. TypeOK /\ MainPlace /\ Objects BY DEF ServerInv, Placed
<1>1. /\ UNCHANGED <<interest, batch, connMap, mTasks, running, cur, todo, mode, pc>>
      /\ backlog' \in Int /\ backlog' >= backlog
  BY <1>0 DEF Peer, PeerConnect, PeerSend, PeerClose, TypeOK
<1>2. pc' = [pc EXCEPT ![Main] = pc[Main]]
  BY <1>0, <1>1 DEF TypeOK
<1>3. \A c \in Conns : Alike(c) /\ (conn[c].data => conn'[c].data)
  <2>1. CASE UNCHANGED conn BY <2>1 DEF Alike
  <2>2. ASSUME NEW d \in Conns, PeerSend(d) \/ PeerClose(d)
        PROVE  \A c \in Conns : Alike(c) /\ (conn[c].data => conn'[c].data)
    <3>1. conn[d].exists
      <4>1. conn[d].fd # BadFd BY <2>2, Constants DEF PeerSend, PeerClose
      <4> QED BY <1>0, <4>1 DEF Objects, NoObject
    <3>2. CASE PeerSend(d) BY <1>0, <3>1, <3>2 DEF Alike, PeerSend, TypeOK
    <3>3. CASE PeerClose(d) BY <1>0, <3>1, <3>3 DEF Alike, PeerClose, TypeOK
    <3> QED BY <2>2, <3>2, <3>3
  <2> QED BY <2>1, <2>2 DEF Peer, PeerConnect
<1>4. Accepting' = Accepting BY <1>1 DEF Accepting
<1>5. MainPlace'
  <2>1. TaskConns' = TaskConns BY <1>1 DEF TaskConns
  <2>2. cur # NoConn => cur \in Conns BY <1>0, Elements
  <2> QED BY <1>0, <1>1, <1>3, <2>1, <2>2, Constants
          DEF MainPlace, Alike, Registered, InTable
<1> QED BY <1>1, <1>2, <1>3, <1>4, <1>5, MainMoves

\* The steps of the event loop that move it and nothing else.
LEMMA MainQuietStep ==
    ASSUME ServerInv, AcceptLock \/ CloseLock(Main) \/ Shutdown(Main) \/ BatchDone
    PROVE  Placed'
<1> USE DEF loop, table, pool, sockets, Goto
<1>0. TypeOK /\ MainPlace /\ Objects BY DEF ServerInv, Placed
<1>1. UNCHANGED <<backlog, interest, batch, connMap, mTasks, running, cur, todo, mode>>
  BY DEF AcceptLock, CloseLock, Shutdown, BatchDone
<1>2. \/ pc[Main] = "accept_lock" /\ pc' = [pc EXCEPT ![Main] = "accept_insert"]
      \/ pc[Main] = "close_lock" /\ pc' = [pc EXCEPT ![Main] = "close_del"]
      \/ pc[Main] = "shutdown" /\ pc' = [pc EXCEPT ![Main] = "close_lock"]
      \/ pc[Main] = "next" /\ batch = {} /\ pc' = [pc EXCEPT ![Main] = "epoll_wait"]
  BY DEF AcceptLock, CloseLock, Shutdown, BatchDone
<1>3. \A c \in Conns : Alike(c) /\ (conn[c].data => conn'[c].data)
  <2>1. CASE UNCHANGED conn BY <2>1 DEF Alike
  <2>2. CASE Shutdown(Main)
    <3>1. cur \in Conns /\ conn[cur].fd \in Fds
      BY <1>0, <2>2 DEF Shutdown, MainPlace, TypeOK, Registered
    <3>2. conn[cur].exists BY <1>0, <3>1, Constants DEF Objects, NoObject
    <3> QED BY <1>0, <2>2, <3>1, <3>2 DEF Alike, Shutdown, ShutRd, Closing, TypeOK
  <2> QED BY <2>1, <2>2 DEF AcceptLock, CloseLock, BatchDone
<1>4. pc'[Main] \in {"accept_insert", "close_del", "close_lock", "epoll_wait"}
  BY <1>0, <1>2, Constants DEF TypeOK
<1>5. Accepting' = Accepting BY <1>0, <1>1, <1>2, Constants DEF Accepting, TypeOK
<1>6. MainPlace'
  <2>1. TaskConns' = TaskConns BY <1>1 DEF TaskConns
  <2>2. cur # NoConn => cur \in Conns BY <1>0, Elements
  <2>3. \/ pc[Main] = "accept_lock" /\ pc'[Main] = "accept_insert"
        \/ pc[Main] = "close_lock" /\ pc'[Main] = "close_del"
        \/ pc[Main] = "shutdown" /\ pc'[Main] = "close_lock"
        \/ pc[Main] = "next" /\ batch = {} /\ pc'[Main] = "epoll_wait"
    BY <1>0, <1>2, Constants DEF TypeOK
  <2> QED BY <1>0, <1>1, <1>3, <2>1, <2>2, <2>3, Constants
          DEF MainPlace, Alike, Registered, InTable
<1>7. backlog' \in Int /\ backlog' >= backlog BY <1>0, <1>1 DEF TypeOK
<1> QED BY <1>0, <1>1, <1>2, <1>3, <1>5, <1>6, <1>7, MainMoves

\* The steps of a worker that move it and nothing else but what it has read.
LEMMA WorkerQuietStep ==
    ASSUME ServerInv, NEW w \in Workers,
           \/ Recv(w) \/ ReadCb(w) \/ Send(w) \/ WriteCb(w) \/ Shutdown(w) \/ CloseLock(w)
    PROVE  Placed'
<1> USE DEF loop, table, pool, sockets, Goto
<1>0. TypeOK /\ Objects /\ WorkerPlace(w) BY DEF ServerInv, Placed, AtWork
<1> DEFINE c == running[w].conn
<1>1. UNCHANGED <<backlog, interest, batch, connMap, mTasks, running, cur, todo>>
  BY DEF Recv, ReadCb, Send, WriteCb, Shutdown, CloseLock
<1>2. /\ pc[w] \in {"recv", "read_cb", "send", "write_cb", "shutdown", "close_lock"}
      /\ running[w] # NoTask /\ c \in Conns /\ Registered(c, "off")
      /\ conn[c].exists
  <2>1. pc[w] \in {"recv", "read_cb", "send", "write_cb", "shutdown", "close_lock"}
    BY DEF Recv, ReadCb, Send, WriteCb, Shutdown, CloseLock
  <2>2. running[w] # NoTask /\ Registered(c, "off") BY <1>0, <2>1 DEF WorkerPlace
  <2>3. c \in Conns BY <1>0, <2>2, Elements
  <2> QED BY <1>0, <2>1, <2>2, <2>3, Constants DEF Registered, Objects, NoObject
<1>3. /\ \A d \in Conns : Alike(d)
      /\ \A d \in Conns \ {c} : conn[d].data => conn'[d].data
  <2>1. CASE UNCHANGED conn BY <2>1 DEF Alike
  <2>2. ASSUME NEW left \in BOOLEAN, conn' = [conn EXCEPT ![c].data = left]
        PROVE  /\ \A d \in Conns : Alike(d)
               /\ \A d \in Conns \ {c} : conn[d].data => conn'[d].data
    BY <1>0, <1>2, <2>2 DEF Alike, TypeOK
  <2>3. CASE Shutdown(w)
    BY <1>0, <1>2, <2>3, Constants DEF Shutdown, ShutRd, Closing, Alike, TypeOK
  <2>4. CASE Recv(w)
    <3>1. UNCHANGED conn \/ \E left \in BOOLEAN : conn' = [conn EXCEPT ![c].data = left]
      BY <2>4 DEF Recv
    <3> QED BY <2>1, <2>2, <3>1
  <2> QED BY <2>1, <2>3, <2>4 DEF ReadCb, Send, WriteCb, CloseLock
<1>4. PICK label \in {"read_cb", "shutdown", "rearm", "send", "write_cb", "close_lock",
                      "close_del"} :
        /\ pc' = [pc EXCEPT ![w] = label]
        /\ label = "rearm" => mode'[w] \in {"in", "out"}
  <2>1. CASE Recv(w) BY <2>1 DEF Recv
  <2>2. CASE ReadCb(w) BY <1>0, <2>2 DEF ReadCb, Then, TypeOK
  <2>3. CASE Send(w) BY <1>0, <2>3 DEF Send, TypeOK
  <2>4. CASE WriteCb(w) BY <1>0, <2>4 DEF WriteCb, TypeOK
  <2>5. CASE Shutdown(w) \/ CloseLock(w) BY <2>5 DEF Shutdown, CloseLock
  <2> QED BY <2>1, <2>2, <2>3, <2>4, <2>5
<1>5. \A v \in Workers \ {w} : mode'[v] = mode[v]
  BY <1>0 DEF Recv, ReadCb, Send, WriteCb, Shutdown, CloseLock, TypeOK
<1>6. pc'[w] = label BY <1>0, <1>4, Constants DEF TypeOK
<1>7. WorkerPlace(w)'
  BY <1>0, <1>1, <1>2, <1>3, <1>4, <1>6 DEF WorkerPlace, Registered, InTable, Alike
<1> QED BY <1>1, <1>2, <1>3, <1>4, <1>5, <1>7, WorkerMoves

-----------------------------------------------------------------------------
(* The steps that pass a connection on.                                      *)

\* What a worker serves is disarmed.
LEMMA ServedDisarmed ==
    ASSUME TypeOK, AtWork, NEW w \in Workers, Serves(w)
    PROVE  /\ running[w].conn \in Conns
           /\ conn[running[w].conn].fd \in Fds
           /\ interest[conn[running[w].conn].fd] \in {"off", "none"}
<1>1. running[w].conn \in Conns BY Elements DEF Serves
<1>2. pc[w] \in WorkerStates BY DEF TypeOK
<1> QED BY <1>1, <1>2 DEF AtWork, WorkerPlace, WorkerStates, Serves, Registered

\* epoll_wait turns armed registrations into events.
LEMMA EpollWaitStep == ServerInv /\ EpollWait => Placed'
<1> SUFFICES ASSUME ServerInv, EpollWait PROVE Placed'
  OBVIOUS
<1> USE DEF table, pool
<1>0. /\ TypeOK /\ Objects /\ Table /\ MainPlace
      /\ AtWork /\ Events /\ Queued /\ AllApart /\ AllKept /\ AllUnblocked
  BY DEF ServerInv, Placed
<1>1. UNCHANGED <<backlog, conn, cur, todo, connMap, mTasks, running, mode>>
  BY DEF EpollWait
<1>2. /\ pc[Main] = "epoll_wait" /\ pc'[Main] = "next"
      /\ \A w \in Workers : pc'[w] = pc[w]
      /\ batch = {} /\ cur = NoConn /\ todo = NoTask
  BY <1>0, Constants DEF EpollWait, Goto, TypeOK, MainPlace
<1>3. PICK fired \in SUBSET Fds :
        /\ \A f \in fired : Ready(f) \/ interest[f] = "out"
        /\ batch' = {Event(f) : f \in fired} \cup
                    (IF backlog > 0 THEN {[fd |-> ListenFd, kind |-> "in"]} ELSE {})
        /\ interest' = Harvested(fired)
  BY DEF EpollWait
<1>4. /\ \A f \in fired : interest[f] \in {"in", "out"} /\ interest'[f] = "off"
      /\ \A f \in Fds \ fired : interest'[f] = interest[f]
  BY <1>3 DEF Harvested, Ready
<1>5. \A f \in fired : /\ f \in DOMAIN connMap /\ SocketOf(f) = connMap[f]
                       /\ connMap[f] \in Conns
                       /\ Event(f).fd = f
                       /\ Event(f).kind = "in" => conn[connMap[f]].data
  <2> TAKE f \in fired
  <2>1. f \in DOMAIN connMap /\ SocketOf(f) = connMap[f]
    BY <1>0, <1>4, SocketInTable
  <2>2. connMap[f] \in Conns BY <1>0, <2>1, Entry
  <2>3. Event(f).kind = "in" => ~conn[connMap[f]].hup /\ interest[f] = "in"
    BY <2>1 DEF Event
  <2> QED BY <1>3, <2>1, <2>2, <2>3 DEF Event, Ready
<1>6. /\ \A e \in batch' : e.fd # ListenFd => e = Event(e.fd) /\ e.fd \in fired
      /\ \A e \in batch' : e.fd = ListenFd => e.kind = "in" /\ backlog > 0
      /\ \A f \in fired : \E e \in batch' : e.fd = f
  <2>1. \A e \in batch' : \/ e = [fd |-> ListenFd, kind |-> "in"] /\ backlog > 0
                          \/ \E f \in fired : e = Event(f)
    BY <1>3
  <2>2. \A f \in fired : Event(f) \in batch' BY <1>3
  <2> QED BY <1>5, <2>1, <2>2, Constants
<1>7. Referenced' = Referenced
  BY <1>1, <1>2 DEF Referenced, TaskConns, Accepting
<1>8. Objects' BY <1>0, <1>1, <1>7 DEF Objects
<1>9. Table' BY <1>0, <1>1, <1>4, <1>5 DEF Table
<1>10. MainPlace' BY <1>0, <1>1, <1>2 DEF MainPlace
<1>11. \A w \in Workers : WorkerPlace(w)'
  <2> TAKE w \in Workers
  <2>0. WorkerPlace(w) /\ pc'[w] = pc[w] /\ UNCHANGED <<conn, connMap, running, mode>>
    BY <1>0, <1>1, <1>2 DEF AtWork
  <2>1. CASE Serves(w)
    <3> DEFINE c == running[w].conn
    <3>1. conn[c].fd \in Fds \ fired
      BY <1>0, <1>4, <2>1, ServedDisarmed
    <3>2. interest'[conn[c].fd] = interest[conn[c].fd]
      BY <1>4, <3>1
    <3>3. \A i : Registered(c, i)' = Registered(c, i)
      BY <2>0, <3>2 DEF Registered, InTable
    <3> QED BY <2>0, <3>2, <3>3 DEF WorkerPlace
  <2>2. CASE ~Serves(w)
    BY <2>0, <2>2 DEF WorkerPlace, Serves
  <2> QED BY <2>1, <2>2
<1> USE DEF Registered, InTable
<1>12. Events'
  <2>1. ASSUME NEW e \in batch', e.fd # ListenFd PROVE EventPlace(e)'
    BY <1>1, <1>2, <1>4, <1>5, <1>6, <2>1, Constants DEF EventPlace
  <2> QED BY <1>1, <1>6, <2>1 DEF Events
<1>13. Queued'
  <2> SUFFICES ASSUME NEW i \in DOMAIN mTasks PROVE TaskPlace(i)'
    BY <1>1 DEF Queued
  <2>1. TaskPlace(i) BY <1>0 DEF Queued
  <2>2. conn[mTasks[i].conn].fd \in Fds \ fired
    BY <1>4, <2>1 DEF TaskPlace
  <2> QED BY <1>1, <1>4, <1>6, <2>1, <2>2, Constants DEF TaskPlace
<1>14. \A w \in Workers : Serves(w)' = Serves(w) BY <1>1, <1>2 DEF Serves
<1>15. AllApart'
  <2> SUFFICES ASSUME NEW w \in Workers, Serves(w) PROVE Apart(w)'
    BY <1>14 DEF AllApart
  <2>1. conn[running[w].conn].fd \in Fds \ fired BY <1>0, <1>4, ServedDisarmed
  <2> QED BY <1>0, <1>1, <1>6, <1>14, <2>1, Constants DEF AllApart, Apart
<1>16. AllKept'
  <2> SUFFICES ASSUME NEW f \in DOMAIN connMap \ {BadFd} PROVE Kept(f)'
    BY <1>1 DEF AllKept
  <2>1. f \in Fds BY <1>0, Entry
  <2>2. CASE f \in fired BY <1>6, <2>2 DEF Kept
  <2>3. CASE f \notin fired
    BY <1>0, <1>1, <1>2, <1>4, <1>14, <2>1, <2>3 DEF AllKept, Kept
  <2> QED BY <2>2, <2>3
<1>17. AllUnblocked' BY <1>0, <1>1, <1>2, Entry, Constants DEF AllUnblocked, Unblocked
<1> QED
  BY <1>8, <1>9, <1>10, <1>11, <1>12, <1>13, <1>15, <1>16, <1>17 DEF Placed, AtWork

\* The event loop takes an event: it has the connection then.
LEMMA LookupStep ==
    ASSUME ServerInv, NEW e \in batch, Lookup(e)
    PROVE  Placed'
<1> USE DEF table, pool, sockets
<1>0. /\ TypeOK /\ Objects /\ Table /\ MainPlace
      /\ AtWork /\ Events /\ Queued /\ AllApart /\ AllKept /\ AllUnblocked
  BY DEF ServerInv, Placed
<1>1. UNCHANGED <<backlog, conn, interest, connMap, mTasks, running, mode>>
  BY DEF Lookup
<1>2. /\ pc[Main] = "next" /\ cur = NoConn /\ todo = NoTask
      /\ e.fd \in DOMAIN connMap /\ e.fd \in Fds
      /\ batch' = batch \ {e} /\ cur' = connMap[e.fd]
  <2>1. e.fd \in Fds \cup {ListenFd} BY <1>0, Elements
  <2> QED BY <1>0, <2>1, Entry, Constants DEF Lookup, MainPlace
<1>3. \/ todo' = NoTask /\ pc'[Main] = "shutdown"
      \/ todo' = Bound(e) /\ e.kind # "hup" /\ pc'[Main] = "add_task"
  BY <1>0, Constants DEF Lookup, Goto, TypeOK
<1>4. \A w \in Workers : pc'[w] = pc[w]
  BY <1>0, Constants DEF Lookup, Goto, TypeOK
<1> DEFINE c == connMap[e.fd]
<1>5. /\ c \in Conns /\ conn[c].fd = e.fd /\ conn[c].exists /\ interest[e.fd] = "off"
      /\ c # NoConn /\ c \in Referenced
      /\ e.kind = "in" => conn[c].data
      /\ \A d \in batch' : d.fd # e.fd
  BY <1>0, <1>2, Entry, References, Constants DEF Events, EventPlace
<1>6. /\ Bound(e).conn = c /\ Bound(e).kind = e.kind /\ (e.kind # "hup" => Bound(e) # NoTask)
  <2>1. e.kind \in {"in", "out", "hup"} BY <1>0, Elements
  <2> QED BY <1>5, <2>1, Constants DEF Bound, Tasks
<1>7. Referenced' = Referenced
  <2>1. Accepting' = {} /\ Accepting = {} BY <1>2, <1>3 DEF Accepting
  <2>2. TaskConns' = TaskConns \/ TaskConns' = TaskConns \cup {c}
    BY <1>1, <1>2, <1>3, <1>6 DEF TaskConns
  <2>3. c \in Range(connMap) BY <1>2 DEF Range
  <2> QED BY <1>1, <2>1, <2>2, <2>3 DEF Referenced
<1> USE DEF Registered, InTable
<1>8. Objects' BY <1>0, <1>1, <1>7 DEF Objects
<1>9. Table' BY <1>0, <1>1 DEF Table
<1>10. MainPlace' BY <1>1, <1>2, <1>3, <1>5, <1>6 DEF MainPlace
<1>11. \A w \in Workers : WorkerPlace(w)' BY <1>0, <1>1, <1>4 DEF AtWork, WorkerPlace
<1>12. Events'
  <2>1. \A d \in batch' : d \in batch /\ d.fd # e.fd BY <1>2, <1>5
  <2>2. \A d \in batch' : d.fd # ListenFd => d.fd \in DOMAIN connMap /\ connMap[d.fd] # c
    BY <1>0, <1>5, <2>1 DEF Events, EventPlace, Table
  <2> QED BY <1>0, <1>1, <1>2, <2>1, <2>2 DEF Events, EventPlace
<1>13. Queued'
  <2>1. \A i \in DOMAIN mTasks : mTasks[i].conn # c
    BY <1>0, <1>5 DEF Queued, TaskPlace
  <2> QED BY <1>0, <1>1, <1>2, <2>1 DEF Queued, TaskPlace
<1>14. \A w \in Workers : Serves(w)' = Serves(w) BY <1>1, <1>4 DEF Serves
<1>15. AllApart' BY <1>0, <1>1, <1>2, <1>5, <1>14 DEF AllApart, Apart
<1>16. AllKept'
  <2> SUFFICES ASSUME NEW f \in DOMAIN connMap \ {BadFd} PROVE Kept(f)'
    BY <1>1 DEF AllKept
  <2>1. Kept(f) BY <1>0 DEF AllKept
  <2>2. cur # connMap[f] BY <1>0, <1>2, Entry, Constants
  <2> QED BY <1>1, <1>2, <1>14, <2>1, <2>2 DEF Kept
<1>17. AllUnblocked' BY <1>0, <1>1, <1>2, Entry, Constants DEF AllUnblocked, Unblocked
<1> QED
  BY <1>8, <1>9, <1>10, <1>11, <1>12, <1>13, <1>15, <1>16, <1>17 DEF Placed, AtWork

\* AddTask queues the connection the event loop has.
LEMMA AddTaskStep == ServerInv /\ AddTask => Placed'
<1> SUFFICES ASSUME ServerInv, AddTask PROVE Placed'
  OBVIOUS
<1> USE DEF table, sockets
<1>0. /\ TypeOK /\ Objects /\ Table /\ MainPlace
      /\ AtWork /\ Events /\ Queued /\ AllApart /\ AllKept /\ AllUnblocked
  BY DEF ServerInv, Placed
<1>1. UNCHANGED <<backlog, conn, interest, connMap, batch, running, mode>>
  BY DEF AddTask, Pool!Put
<1>2. /\ pc[Main] = "add_task" /\ pc'[Main] = "next" /\ \A w \in Workers : pc'[w] = pc[w]
      /\ todo # NoTask /\ todo \in Tasks /\ todo' = NoTask
      /\ cur' = NoConn /\ todo.conn = cur /\ cur \in Conns /\ Registered(cur, "off")
      /\ todo.kind = "in" => conn[cur].data
  BY <1>0, Constants DEF AddTask, Goto, TypeOK, MainPlace
<1> DEFINE n == Len(mTasks) + 1
<1>3. /\ DOMAIN mTasks' = DOMAIN mTasks \cup {n} /\ n \notin DOMAIN mTasks
      /\ mTasks'[n] = todo
      /\ \A i \in DOMAIN mTasks : mTasks'[i] = mTasks[i]
  <2>1. mTasks \in Seq(Tasks) /\ mTasks' = Append(mTasks, todo)
    BY <1>0 DEF TypeOK, AddTask, Pool!Put
  <2> QED BY <1>2, <2>1
<1> HIDE DEF n
<1>4. Referenced' = Referenced
  <2>1. Accepting' = {} /\ Accepting = {} BY <1>2 DEF Accepting
  <2>2. TaskConns' = TaskConns BY <1>1, <1>2, <1>3 DEF TaskConns
  <2> QED BY <1>1, <2>1, <2>2 DEF Referenced
<1> USE DEF Registered, InTable
<1>5. Objects' BY <1>0, <1>1, <1>4 DEF Objects
<1>6. Table' BY <1>0, <1>1 DEF Table
<1>7. MainPlace' BY <1>2 DEF MainPlace
<1>8. \A w \in Workers : WorkerPlace(w)' BY <1>0, <1>1, <1>2 DEF AtWork, WorkerPlace
<1>9. \A w \in Workers : Serves(w)' = Serves(w) BY <1>1, <1>2 DEF Serves
<1>10. /\ \A e \in batch : e.fd # conn[cur].fd
       /\ \A e \in batch : e.fd # ListenFd => connMap[e.fd] \in Conns
       /\ \A i \in DOMAIN mTasks : mTasks[i].conn # cur /\ mTasks[i].conn \in Conns
       /\ \A w \in Workers : Serves(w) => running[w].conn # cur /\ running[w].conn \in Conns
  <2>1. ASSUME NEW e \in batch, e.fd # ListenFd
        PROVE  e.fd # conn[cur].fd /\ connMap[e.fd] \in Conns
    BY <1>0, <1>2, <2>1, Elements DEF Events, EventPlace
  <2>2. ListenFd # conn[cur].fd BY <1>2, Constants
  <2> QED
    BY <1>0, <1>2, <2>1, <2>2, Elements DEF Queued, TaskPlace, AllApart, Apart, Serves
<1>11. Events' BY <1>0, <1>1, <1>2, <1>10, Constants DEF Events, EventPlace
<1>12. Queued'
  <2> SUFFICES ASSUME NEW i \in DOMAIN mTasks' PROVE TaskPlace(i)'
    BY DEF Queued
  <2>1. CASE i = n BY <1>1, <1>2, <1>3, <1>10, <2>1, Constants DEF TaskPlace
  <2>2. CASE i \in DOMAIN mTasks
    BY <1>0, <1>1, <1>2, <1>3, <1>10, <2>2, Constants DEF Queued, TaskPlace
  <2> QED BY <1>3, <2>1, <2>2
<1>13. AllApart'
  BY <1>0, <1>1, <1>2, <1>3, <1>9, <1>10, Constants DEF AllApart, Apart
<1>14. AllKept'
  <2> SUFFICES ASSUME NEW f \in DOMAIN connMap \ {BadFd} PROVE Kept(f)'
    BY <1>1 DEF AllKept
  <2>1. Kept(f) BY <1>0 DEF AllKept
  <2>2. cur = connMap[f] => \E i \in DOMAIN mTasks' : mTasks'[i].conn = connMap[f]
    BY <1>2, <1>3
  <2>3. (\E i \in DOMAIN mTasks : mTasks[i].conn = connMap[f]) =>
           \E i \in DOMAIN mTasks' : mTasks'[i].conn = connMap[f]
    BY <1>3
  <2> QED BY <1>1, <1>9, <2>1, <2>2, <2>3 DEF Kept
<1>15. AllUnblocked' BY <1>0, <1>1, <1>2 DEF AllUnblocked, Unblocked
<1> QED
  BY <1>5, <1>6, <1>7, <1>8, <1>11, <1>12, <1>13, <1>14, <1>15 DEF Placed, AtWork

\* A worker takes the oldest task: it has the connection then.
LEMMA TakeTaskStep ==
    ASSUME ServerInv, NEW w \in Workers, TakeTask(w)
    PROVE  Placed'
<1> USE DEF table, sockets, loop
<1>0. /\ TypeOK /\ Objects /\ Table /\ MainPlace
      /\ AtWork /\ Events /\ Queued /\ AllApart /\ AllKept /\ AllUnblocked
  BY DEF ServerInv, Placed
<1>1. UNCHANGED <<backlog, conn, interest, connMap, batch, cur, todo>>
  BY DEF TakeTask
<1> DEFINE t == mTasks[1]
           c == t.conn
<1>2. /\ 1 \in DOMAIN mTasks /\ t \in Tasks /\ c \in Conns
      /\ \A i \in DOMAIN mTasks' : i + 1 \in DOMAIN mTasks /\ i + 1 # 1 /\ mTasks'[i] = mTasks[i + 1]
      /\ \A i \in DOMAIN mTasks \ {1} : \E j \in DOMAIN mTasks' : i = j + 1
      /\ \A i \in DOMAIN mTasks' : i \in Int
      /\ Head(mTasks) = t
  <2>1. mTasks \in Seq(Tasks) /\ mTasks # <<>> /\ mTasks' = Tail(mTasks)
    BY <1>0 DEF TypeOK, TakeTask, Pool!Take
  <2>2. 1 \in DOMAIN mTasks /\ t \in Tasks /\ Head(mTasks) = t BY <2>1
  <2>3. /\ \A i \in DOMAIN mTasks' :
              i + 1 \in DOMAIN mTasks /\ i + 1 # 1 /\ mTasks'[i] = mTasks[i + 1] /\ i \in Int
        /\ DOMAIN mTasks = 1..Len(mTasks) /\ Len(mTasks) \in Nat
        /\ DOMAIN mTasks' = 1..(Len(mTasks) - 1)
    BY <2>1
  <2>4. ASSUME NEW i \in DOMAIN mTasks \ {1} PROVE \E j \in DOMAIN mTasks' : i = j + 1
    <3>1. i - 1 \in DOMAIN mTasks' /\ i = (i - 1) + 1 BY <2>3
    <3> QED BY <3>1
  <2> QED BY <2>2, <2>3, <2>4 DEF Tasks
<1>3. /\ running[w] = NoTask /\ running'[w] = t /\ t # NoTask
      /\ \A v \in Workers \ {w} : running'[v] = running[v]
  BY <1>0, <1>2, Constants DEF TakeTask, Pool!Take, TypeOK
<1>4. /\ pc[w] = "idle" /\ pc'[w] = (IF t.kind = "in" THEN "recv" ELSE "send")
      /\ pc'[Main] = pc[Main]
      /\ \A v \in Workers \ {w} : pc'[v] = pc[v] /\ mode'[v] = mode[v]
  BY <1>0, <1>2, Constants DEF TakeTask, Goto, TypeOK
<1> HIDE DEF t
<1>5. /\ Registered(c, "off") /\ cur # c
      /\ t.kind = "in" => conn[c].data
      /\ \A e \in batch : e.fd # conn[c].fd
      /\ \A i \in DOMAIN mTasks' : mTasks'[i].conn # c
      /\ \A v \in Workers : Serves(v) => running[v].conn # c
  <2>1. TaskPlace(1) BY <1>0, <1>2 DEF Queued
  <2> QED BY <1>0, <1>2, <2>1 DEF TaskPlace, AllApart, Apart, t
<1>6. TaskConns' = TaskConns
  <2>1. \A i \in DOMAIN mTasks : mTasks[i].conn = c \/ \E j \in DOMAIN mTasks' :
                                       mTasks'[j].conn = mTasks[i].conn
    BY <1>2 DEF t
  <2>2. \A j \in DOMAIN mTasks' : \E i \in DOMAIN mTasks : mTasks'[j].conn = mTasks[i].conn
    BY <1>2
  <2>3. {mTasks'[i].conn : i \in DOMAIN mTasks'} \cup {c} = {mTasks[i].conn : i \in DOMAIN mTasks}
    BY <1>2, <2>1, <2>2 DEF t
  <2>4. {running'[v].conn : v \in {u \in Workers : running'[u] # NoTask}}
           = {running[v].conn : v \in {u \in Workers : running[u] # NoTask}} \cup {c}
    BY <1>3
  <2> QED BY <1>1, <2>3, <2>4 DEF TaskConns
<1>7. Referenced' = Referenced BY <1>1, <1>4, <1>6 DEF Referenced, Accepting
<1> USE DEF Registered, InTable
<1>8. Objects' BY <1>0, <1>1, <1>7 DEF Objects
<1>9. Table' BY <1>0, <1>1 DEF Table
<1>10. MainPlace' BY <1>0, <1>1, <1>4, <1>6 DEF MainPlace
<1>11. \A v \in Workers : WorkerPlace(v)'
  <2>1. ASSUME NEW v \in Workers \ {w} PROVE WorkerPlace(v)'
    <3>1. /\ WorkerPlace(v) /\ pc'[v] = pc[v] /\ running'[v] = running[v] /\ mode'[v] = mode[v]
          /\ UNCHANGED <<conn, connMap, interest>>
      BY <1>0, <1>1, <1>3, <1>4, Zenon DEF AtWork
    <3> QED BY <3>1 DEF WorkerPlace
  <2>2. WorkerPlace(w)' BY <1>1, <1>3, <1>4, <1>5 DEF WorkerPlace
  <2> QED BY <2>1, <2>2
<1>12. Events' BY <1>0, <1>1 DEF Events, EventPlace
<1>13. Queued'
  <2> SUFFICES ASSUME NEW i \in DOMAIN mTasks' PROVE TaskPlace(i)'
    BY DEF Queued
  <2>1. TaskPlace(i + 1) /\ mTasks'[i] = mTasks[i + 1] BY <1>0, <1>2 DEF Queued
  <2>2. \A j \in DOMAIN mTasks' : mTasks'[j].conn = mTasks'[i].conn => j = i
    BY <1>2, <2>1 DEF TaskPlace
  <2> QED BY <1>1, <2>1, <2>2 DEF TaskPlace
<1>14. /\ \A v \in Workers \ {w} : Serves(v)' = Serves(v)
       /\ Serves(w)' /\ ~Serves(w)
  BY <1>3, <1>4 DEF Serves
<1>15. AllApart'
  <2>1. ASSUME NEW v \in Workers \ {w}, Serves(v) PROVE Apart(v)'
    <3>1. Apart(v) /\ running'[v].conn # c BY <1>0, <1>3, <1>5, <2>1 DEF AllApart
    <3>2. \A i \in DOMAIN mTasks' : mTasks'[i].conn # running[v].conn
      BY <1>2, <3>1 DEF Apart
    <3>3. \A u \in Workers : Serves(u)' /\ running'[u].conn = running[v].conn => u = v
      BY <1>3, <1>14, <2>1, <3>1 DEF Apart
    <3> QED BY <1>1, <1>3, <3>1, <3>2, <3>3 DEF Apart
  <2>2. Apart(w)' BY <1>1, <1>3, <1>5, <1>14 DEF Apart
  <2> QED BY <1>14, <2>1, <2>2 DEF AllApart
<1>16. AllKept'
  <2> SUFFICES ASSUME NEW f \in DOMAIN connMap \ {BadFd} PROVE Kept(f)'
    BY <1>1 DEF AllKept
  <2>1. Kept(f) BY <1>0 DEF AllKept
  <2>2. ASSUME NEW i \in DOMAIN mTasks, mTasks[i].conn = connMap[f] PROVE Kept(f)'
    <3>1. CASE i = 1 BY <1>1, <1>3, <1>14, <2>2, <3>1 DEF Kept, t
    <3>2. CASE i # 1 BY <1>1, <1>2, <2>2, <3>2 DEF Kept
    <3> QED BY <3>1, <3>2
  <2>3. ASSUME NEW v \in Workers, Serves(v), running[v].conn = connMap[f] PROVE Kept(f)'
    BY <1>1, <1>3, <1>14, <2>3 DEF Kept
  <2> QED BY <1>1, <2>1, <2>2, <2>3 DEF Kept
<1>17. AllUnblocked' BY <1>0, <1>1, <1>4 DEF AllUnblocked, Unblocked
<1> QED
  BY <1>8, <1>9, <1>10, <1>11, <1>12, <1>13, <1>15, <1>16, <1>17 DEF Placed, AtWork

\* What ~Connection leaves alone: what is still referenced, and every registration, since
\* what is registered is in connMap.
LEMMA DestroyKeeps ==
    ASSUME TypeOK, Objects, Destroy, Referenced' \subseteq Referenced,
           \A f \in Fds : interest[f] # "none" =>
               f \in DOMAIN connMap' /\ connMap'[f] \in Conns /\ conn[connMap'[f]].fd = f
    PROVE  /\ interest' = interest
           /\ \A c \in Conns : c \in Referenced' => conn'[c] = conn[c]
           /\ \A c \in Conns : c \notin Referenced' => conn'[c] = NoObject
           /\ Objects'
<1>1. /\ \A c \in Conns : c \in Referenced' => conn'[c] = conn[c]
      /\ \A c \in Conns : c \notin Referenced' => conn'[c] = NoObject
  BY DEF Destroy
<1>2. ~NoObject.exists BY DEF NoObject
<1>3. Objects' BY <1>1, <1>2 DEF Objects
<1>4. \A f \in DOMAIN connMap' : connMap'[f] \in Referenced'
  BY DEF Referenced, Range
<1>5. \A f \in Fds : interest[f] # "none" =>
          \E c \in Conns : conn'[c].exists /\ conn'[c].fd = f
  <2> TAKE f \in Fds
  <2> HAVE interest[f] # "none"
  <2>1. connMap'[f] \in Conns /\ connMap'[f] \in Referenced' /\ conn[connMap'[f]].fd = f
    BY <1>4
  <2>2. conn[connMap'[f]].exists BY <2>1 DEF Objects
  <2> QED BY <1>1, <2>1, <2>2
<1>6. interest \in [Fds -> {"none", "off", "in", "out"}] BY DEF TypeOK
<1>7. \A f \in Fds : interest'[f] = interest[f]
  BY <1>5, <1>6 DEF Destroy
<1>8. interest' = [f \in Fds |-> interest'[f]] BY DEF Destroy
<1> QED BY <1>1, <1>3, <1>6, <1>7, <1>8

\* accept makes an object nobody else refers to.
LEMMA AcceptStep ==
    ASSUME ServerInv, NEW e \in batch, Accept(e)
    PROVE  Placed'
<1> USE DEF table, pool
<1>0. /\ TypeOK /\ Objects /\ Table /\ MainPlace
      /\ AtWork /\ Events /\ Queued /\ AllApart /\ AllKept /\ AllUnblocked
  BY DEF ServerInv, Placed
<1>1. UNCHANGED <<interest, connMap, mTasks, running, todo, mode>>
  BY DEF Accept
<1>2. /\ pc[Main] = "next" /\ pc'[Main] = "accept_lock" /\ \A w \in Workers : pc'[w] = pc[w]
      /\ cur = NoConn /\ todo = NoTask
      /\ e.fd = ListenFd /\ batch' = batch \ {e}
  BY <1>0, Constants DEF Accept, Goto, TypeOK, MainPlace
<1> DEFINE c == cur'
<1>3. c \in Conns /\ ~conn[c].exists BY Accepted
<1>4. PICK f \in Fds \cup {BadFd} :
        /\ \A d \in Conns : conn[d].exists /\ f \in Fds => conn[d].fd # f
        /\ conn' = [conn EXCEPT ![c] = NewObject(f)]
  BY Accepted
<1>5. /\ conn'[c].exists /\ conn'[c].fd = f
      /\ \A d \in Conns \ {c} : conn'[d] = conn[d]
  BY <1>0, <1>3, <1>4 DEF TypeOK, NewObject, NoObject
<1> HIDE DEF c
<1>6. Referenced' = Referenced \cup {c} /\ c \notin Referenced
  <2>1. Accepting' = {c} /\ Accepting = {} BY <1>2 DEF Accepting, c
  <2>2. TaskConns' = TaskConns BY <1>1 DEF TaskConns
  <2> QED BY <1>0, <1>1, <1>3, <2>1, <2>2 DEF Referenced, Objects
<1>7. /\ \A g \in DOMAIN connMap : connMap[g] \in Conns \ {c}
      /\ \A i \in DOMAIN mTasks : mTasks[i].conn \in Conns \ {c}
      /\ \A w \in Workers : running[w] # NoTask => running[w].conn \in Conns \ {c}
  BY <1>0, <1>6, References, Elements
<1> USE DEF Registered, InTable
<1>8. Objects' BY <1>0, <1>3, <1>4, <1>5, <1>6 DEF Objects
<1>9. Table' BY <1>0, <1>1, <1>5, <1>7 DEF Table
<1>10. MainPlace'
  <2>1. c \notin Range(connMap) /\ c \notin TaskConns BY <1>6 DEF Referenced
  <2>2. TaskConns' = TaskConns BY <1>1 DEF TaskConns
  <2> QED BY <1>1, <1>2, <1>3, <2>1, <2>2, Constants DEF MainPlace, c
<1>11. \A w \in Workers : WorkerPlace(w)'
  <2> TAKE w \in Workers
  <2>1. WorkerPlace(w) BY <1>0 DEF AtWork
  <2>2. CASE running[w] = NoTask BY <1>1, <1>2, <2>1, <2>2 DEF WorkerPlace
  <2>3. CASE running[w] # NoTask
    <3>1. conn'[running[w].conn] = conn[running[w].conn] BY <1>5, <1>7, <2>3
    <3> QED BY <1>1, <1>2, <2>1, <2>3, <3>1 DEF WorkerPlace
  <2> QED BY <2>2, <2>3
<1>12. Events'
  <2>1. \A d \in batch' : d.fd # ListenFd /\ d \in batch
    BY <1>0, <1>2, Elements DEF Events
  <2>2. \A d \in batch' : EventPlace(d) BY <1>0, <2>1 DEF Events
  <2>3. \A d \in batch' : connMap[d.fd] \in Conns \ {c} BY <1>7, <2>2 DEF EventPlace
  <2> QED BY <1>1, <1>2, <1>5, <2>1, <2>2, <2>3 DEF Events, EventPlace, c
<1>13. Queued' BY <1>0, <1>1, <1>2, <1>5, <1>7 DEF Queued, TaskPlace, c
<1>14. \A w \in Workers : Serves(w)' = Serves(w) BY <1>1, <1>2 DEF Serves
<1>15. AllApart' BY <1>0, <1>1, <1>2, <1>5, <1>7, <1>14 DEF AllApart, Apart, Serves, c
<1>16. AllKept'
  <2> SUFFICES ASSUME NEW g \in DOMAIN connMap \ {BadFd} PROVE Kept(g)'
    BY <1>1 DEF AllKept
  <2>1. Kept(g) BY <1>0 DEF AllKept
  <2>2. cur # connMap[g] /\ g \in Fds BY <1>0, <1>2, Entry, Constants
  <2> QED BY <1>1, <1>2, <1>14, <2>1, <2>2, Constants DEF Kept
<1>17. AllUnblocked' BY <1>0, <1>1, <1>2, <1>5, <1>7, Constants DEF AllUnblocked, Unblocked
<1> QED
  BY <1>8, <1>9, <1>10, <1>11, <1>12, <1>13, <1>15, <1>16, <1>17 DEF Placed, AtWork

\* The new object enters the table, at a descriptor the table does not have (or in the
\* place of the object a failed accept left there).
LEMMA AcceptInsertStep == ServerInv /\ AcceptInsert => Placed'
<1> SUFFICES ASSUME ServerInv, AcceptInsert PROVE Placed'
  OBVIOUS
<1> USE DEF loop, pool
<1>0. /\ TypeOK /\ Objects /\ Table /\ MainPlace
      /\ AtWork /\ Events /\ Queued /\ AllApart /\ AllKept /\ AllUnblocked
  BY DEF ServerInv, Placed
<1>1. UNCHANGED <<backlog, batch, cur, todo, mTasks, running, mode>>
  BY DEF AcceptInsert
<1>2. /\ pc[Main] = "accept_insert" /\ pc'[Main] = "accept_add"
      /\ \A w \in Workers : pc'[w] = pc[w]
  BY <1>0, Constants DEF AcceptInsert, Goto, TypeOK
<1> DEFINE fd == conn[cur].fd
<1>3. /\ cur \in Conns /\ cur \notin Range(connMap) /\ cur \notin TaskConns
      /\ cur \in Referenced /\ conn[cur].exists /\ todo = NoTask
      /\ fd \in Fds \cup {BadFd}
  <2>1. cur \in Conns BY <1>0, <1>2, Elements DEF MainPlace
  <2>2. cur \in Referenced BY <1>2, References
  <2> QED BY <1>0, <1>2, <2>1, <2>2, Elements DEF MainPlace, Objects
<1>4. /\ DOMAIN connMap' = DOMAIN connMap \cup {fd} /\ connMap'[fd] = cur
      /\ \A g \in DOMAIN connMap \ {fd} : connMap'[g] = connMap[g]
  BY DEF AcceptInsert
<1>5. fd \in Fds => fd \notin DOMAIN connMap /\ interest[fd] = "none"
  <2>1. fd \in Fds /\ fd \in DOMAIN connMap => connMap[fd] = cur
    BY <1>0, <1>3, Entry DEF Objects
  <2> QED BY <1>0, <1>3, <2>1 DEF Range, Table
<1> HIDE DEF fd
<1>6. Referenced' = Range(connMap') \cup TaskConns \cup {cur}
  <2>1. Accepting' = {cur} BY <1>1, <1>2 DEF Accepting
  <2>2. TaskConns' = TaskConns BY <1>1 DEF TaskConns
  <2> QED BY <2>1, <2>2 DEF Referenced
<1>7. Referenced' \subseteq Referenced
  <2>1. Range(connMap') \subseteq Range(connMap) \cup {cur} BY <1>4 DEF Range
  <2> QED BY <1>3, <1>6, <2>1 DEF Referenced
<1>8. \A g \in DOMAIN connMap \ {BadFd} :
         /\ g \in Fds /\ g # fd /\ g \in DOMAIN connMap' /\ connMap'[g] = connMap[g]
         /\ connMap[g] \in Conns /\ conn[connMap[g]].fd = g /\ connMap[g] \in Referenced'
  <2> TAKE g \in DOMAIN connMap \ {BadFd}
  <2>1. g \in Fds /\ connMap[g] \in Conns /\ conn[connMap[g]].fd = g BY <1>0, Entry
  <2>2. g # fd BY <1>5, <2>1
  <2>3. g \in DOMAIN connMap' /\ connMap'[g] = connMap[g] BY <1>4, <2>2
  <2> QED BY <1>6, <2>1, <2>2, <2>3 DEF Range
<1>9. /\ interest' = interest
      /\ \A d \in Conns : d \in Referenced' => conn'[d] = conn[d]
      /\ Objects'
  <2>1. \A g \in Fds : interest[g] # "none" =>
           g \in DOMAIN connMap' /\ connMap'[g] \in Conns /\ conn[connMap'[g]].fd = g
    BY <1>0, <1>8, Constants DEF Table
  <2>2. Destroy BY DEF AcceptInsert
  <2> QED BY <1>0, <1>7, <2>1, <2>2, DestroyKeeps
<1>10. /\ conn'[cur] = conn[cur]
       /\ \A g \in DOMAIN connMap \ {BadFd} : conn'[connMap[g]] = conn[connMap[g]]
       /\ \A i \in DOMAIN mTasks :
             /\ mTasks[i].conn \in Conns \ {cur}
             /\ conn'[mTasks[i].conn] = conn[mTasks[i].conn]
       /\ \A w \in Workers : running[w] # NoTask =>
             /\ running[w].conn \in Conns \ {cur}
             /\ conn'[running[w].conn] = conn[running[w].conn]
             /\ conn[running[w].conn].exists
  <2>1. \A i \in DOMAIN mTasks : mTasks[i].conn \in TaskConns BY DEF TaskConns
  <2>2. \A w \in Workers : running[w] # NoTask => running[w].conn \in TaskConns
    BY DEF TaskConns
  <2>3. TaskConns \subseteq Referenced' BY <1>6
  <2>4. \A w \in Workers : running[w] # NoTask => conn[running[w].conn].exists
    BY <1>0, References, Elements DEF Objects
  <2>5. \A i \in DOMAIN mTasks : mTasks[i].conn \in Conns BY <1>0, Elements
  <2>6. \A w \in Workers : running[w] # NoTask => running[w].conn \in Conns
    BY <1>0, Elements
  <2> QED BY <1>3, <1>6, <1>8, <1>9, <2>1, <2>2, <2>3, <2>4, <2>5, <2>6
<1> USE DEF Registered, InTable
<1>11. Table'
  <2>1. conn'[cur].fd = fd BY <1>10 DEF fd
  <2>2. \A g \in DOMAIN connMap' : conn'[connMap'[g]].fd = g
    <3> TAKE g \in DOMAIN connMap'
    <3>1. CASE g = fd BY <1>4, <2>1, <3>1
    <3>2. CASE g # fd /\ g # BadFd BY <1>4, <1>8, <1>10, <3>2
    <3>3. CASE g = BadFd /\ g # fd
      <4>1. BadFd \in DOMAIN connMap /\ connMap'[BadFd] = connMap[BadFd] BY <1>4, <3>3
      <4>2. connMap[BadFd] \in Referenced' /\ connMap[BadFd] \in Conns
        BY <1>0, <1>4, <1>6, <4>1, Elements DEF Range
      <4> QED BY <1>0, <1>9, <3>3, <4>1, <4>2 DEF Table
    <3> QED BY <3>1, <3>2, <3>3
  <2> QED BY <1>0, <1>4, <1>9, <2>2 DEF Table
<1>12. MainPlace'
  BY <1>1, <1>2, <1>3, <1>4, <1>5, <1>9, <1>10, Constants DEF MainPlace, fd
<1>13. \A w \in Workers : WorkerPlace(w)'
  <2> TAKE w \in Workers
  <2>1. WorkerPlace(w) BY <1>0 DEF AtWork
  <2>2. CASE running[w] = NoTask BY <1>1, <1>2, <2>1, <2>2 DEF WorkerPlace
  <2>3. CASE running[w] # NoTask
    <3> DEFINE c == running[w].conn
    <3>1. /\ conn'[c] = conn[c] /\ conn[c].fd \in Fds /\ conn[c].fd # fd
      <4>1. conn[c].fd \in Fds BY <2>1, <2>3 DEF WorkerPlace
      <4> QED BY <1>0, <1>3, <1>10, <2>3, <4>1 DEF Objects, fd
    <3>2. /\ conn[c].fd \in DOMAIN connMap' <=> conn[c].fd \in DOMAIN connMap
          /\ conn[c].fd \in DOMAIN connMap => connMap'[conn[c].fd] = connMap[conn[c].fd]
      BY <1>4, <3>1
    <3> QED BY <1>1, <1>2, <1>9, <2>1, <2>3, <3>1, <3>2 DEF WorkerPlace
  <2> QED BY <2>2, <2>3
<1>14. Events'
  <2>1. \A e \in batch : e.fd # ListenFd => EventPlace(e) /\ e.fd \in DOMAIN connMap \ {BadFd}
    BY <1>0, Elements, Constants DEF Events, EventPlace
  <2>2. \A e \in batch : e.fd # ListenFd => EventPlace(e)'
    <3> TAKE e \in batch
    <3> HAVE e.fd # ListenFd
    <3>1. EventPlace(e) /\ e.fd \in DOMAIN connMap \ {BadFd} BY <2>1
    <3> QED BY <1>1, <1>8, <1>9, <1>10, <3>1 DEF EventPlace
  <2> QED BY <1>0, <1>1, <2>2 DEF Events
<1>15. Queued'
  <2> SUFFICES ASSUME NEW i \in DOMAIN mTasks PROVE TaskPlace(i)'
    BY <1>1 DEF Queued
  <2>1. TaskPlace(i) /\ conn'[mTasks[i].conn] = conn[mTasks[i].conn] BY <1>0, <1>10 DEF Queued
  <2>2. conn[mTasks[i].conn].fd \in DOMAIN connMap \ {BadFd}
    BY <2>1, Constants DEF TaskPlace
  <2> QED BY <1>1, <1>8, <1>9, <2>1, <2>2 DEF TaskPlace
<1>16. \A w \in Workers : Serves(w)' = Serves(w) BY <1>1, <1>2 DEF Serves
<1>17. AllApart'
  <2> SUFFICES ASSUME NEW w \in Workers, Serves(w) PROVE Apart(w)'
    BY <1>16 DEF AllApart
  <2>1. Apart(w) /\ conn'[running[w].conn] = conn[running[w].conn]
    BY <1>0, <1>10 DEF AllApart, Serves
  <2> QED BY <1>1, <1>16, <2>1 DEF Apart
<1>18. AllKept'
  <2> SUFFICES ASSUME NEW g \in DOMAIN connMap' \ {BadFd} PROVE Kept(g)'
    BY DEF AllKept
  <2>1. CASE g = fd BY <1>1, <1>4, <2>1 DEF Kept
  <2>2. CASE g # fd
    <3>1. g \in DOMAIN connMap /\ connMap'[g] = connMap[g] BY <1>4, <2>2
    <3>2. Kept(g) BY <1>0, <3>1 DEF AllKept
    <3> QED BY <1>1, <1>9, <1>16, <3>1, <3>2 DEF Kept
  <2> QED BY <2>1, <2>2
<1>19. AllUnblocked'
  <2> SUFFICES ASSUME NEW g \in DOMAIN connMap' \ {BadFd} PROVE Unblocked(g)'
    BY DEF AllUnblocked
  <2>1. CASE g = fd BY <1>1, <1>2, <1>4, <2>1 DEF Unblocked
  <2>2. CASE g # fd
    <3>1. g \in DOMAIN connMap /\ connMap'[g] = connMap[g] BY <1>4, <2>2
    <3>2. Unblocked(g) BY <1>0, <3>1 DEF AllUnblocked
    <3>3. conn[connMap[g]].nonblock BY <1>2, <3>2 DEF Unblocked
    <3> QED BY <1>10, <3>1, <3>3 DEF Unblocked
  <2> QED BY <2>1, <2>2
<1> QED
  BY <1>9, <1>11, <1>12, <1>13, <1>14, <1>15, <1>17, <1>18, <1>19 DEF Placed, AtWork

\* epoll_add arms the new connection, which nothing has but the event loop.
LEMMA AcceptAddStep == ServerInv /\ AcceptAdd => Placed'
<1> SUFFICES ASSUME ServerInv, AcceptAdd PROVE Placed'
  OBVIOUS
<1> USE DEF loop, pool, table
<1>0. /\ TypeOK /\ Objects /\ Table /\ MainPlace
      /\ AtWork /\ Events /\ Queued /\ AllApart /\ AllKept /\ AllUnblocked
  BY DEF ServerInv, Placed
<1>1. UNCHANGED <<backlog, conn, batch, cur, todo, connMap, mTasks, running, mode>>
  BY DEF AcceptAdd
<1>2. /\ pc[Main] = "accept_add" /\ pc'[Main] = "accept_nonblock"
      /\ \A w \in Workers : pc'[w] = pc[w]
      /\ cur \in Conns /\ InTable(cur) /\ todo = NoTask
      /\ conn[cur].fd \in Fds => interest[conn[cur].fd] = "none"
  BY <1>0, Constants DEF AcceptAdd, Goto, TypeOK, MainPlace
<1> DEFINE fd == conn[cur].fd
<1>3. /\ fd \in Fds => interest'[fd] = "in"
      /\ \A g \in Fds \ {fd} : interest'[g] = interest[g]
  BY DEF AcceptAdd
<1> HIDE DEF fd
<1>4. \A g \in Fds : g # fd \/ interest[g] = "none" BY <1>2 DEF fd
<1>5. \A w \in Workers : running[w] # NoTask /\ conn[running[w].conn].fd \in Fds
                         /\ interest[conn[running[w].conn].fd] = "none" =>
                            conn[running[w].conn].fd # fd \/ ~Serves(w)
  <2> SUFFICES ASSUME NEW w \in Workers, Serves(w), conn[running[w].conn].fd = fd, fd \in Fds
               PROVE  FALSE
    OBVIOUS
  <2>1. running[w].conn \in Conns BY <1>0, Elements DEF Serves
  <2>2. running[w].conn \in Referenced BY References DEF Serves
  <2>3. cur \in Referenced BY <1>2, References
  <2>4. running[w].conn = cur BY <1>0, <1>2, <2>1, <2>2, <2>3 DEF Objects, fd
  <2> QED BY <1>0, <2>4 DEF AllApart, Apart
<1>6. Referenced' = Referenced
  <2>1. Accepting' = {cur} /\ Accepting = {cur} BY <1>1, <1>2 DEF Accepting
  <2> QED BY <1>1, <2>1 DEF Referenced, TaskConns
<1> USE DEF Registered, InTable
<1>7. Objects' BY <1>0, <1>1, <1>6 DEF Objects
<1>8. Table' BY <1>0, <1>1, <1>2, <1>3 DEF Table, fd
<1>9. MainPlace' BY <1>0, <1>1, <1>2, <1>3, Constants DEF MainPlace, fd
<1>10. \A w \in Workers : WorkerPlace(w)'
  <2> TAKE w \in Workers
  <2>1. WorkerPlace(w) BY <1>0 DEF AtWork
  <2>2. CASE ~Serves(w) BY <1>1, <1>2, <2>1, <2>2 DEF WorkerPlace, Serves
  <2>3. CASE Serves(w)
    <3>1. conn[running[w].conn].fd \in Fds /\ running[w] # NoTask
      BY <2>1, <2>3 DEF WorkerPlace, Serves
    <3>2. interest'[conn[running[w].conn].fd] = interest[conn[running[w].conn].fd]
      <4>1. conn[running[w].conn].fd # fd BY <1>4, <1>5, <2>3, <3>1
      <4> QED BY <1>3, <3>1, <4>1
    <3> QED BY <1>1, <1>2, <2>1, <3>1, <3>2 DEF WorkerPlace
  <2> QED BY <2>2, <2>3
<1>11. Events'
  <2>1. \A e \in batch : e.fd # ListenFd => e.fd \in Fds /\ EventPlace(e)
    BY <1>0, Elements DEF Events
  <2>2. \A e \in batch : e.fd # ListenFd => interest'[e.fd] = interest[e.fd]
    BY <1>3, <1>4, <2>1 DEF EventPlace
  <2> QED BY <1>0, <1>1, <2>1, <2>2 DEF Events, EventPlace
<1>12. Queued'
  <2> SUFFICES ASSUME NEW i \in DOMAIN mTasks PROVE TaskPlace(i)'
    BY <1>1 DEF Queued
  <2>1. TaskPlace(i) BY <1>0 DEF Queued
  <2>2. interest'[conn[mTasks[i].conn].fd] = "off" BY <1>3, <1>4, <2>1 DEF TaskPlace
  <2> QED BY <1>1, <2>1, <2>2 DEF TaskPlace
<1>13. \A w \in Workers : Serves(w)' = Serves(w) BY <1>1, <1>2 DEF Serves
<1>14. AllApart' BY <1>0, <1>1, <1>13 DEF AllApart, Apart
<1>15. AllKept'
  <2> SUFFICES ASSUME NEW g \in DOMAIN connMap \ {BadFd} PROVE Kept(g)'
    BY <1>1 DEF AllKept
  <2>1. Kept(g) /\ g \in Fds BY <1>0, Elements DEF AllKept
  <2>2. interest[g] \in {"in", "out"} => interest'[g] \in {"in", "out"} BY <1>3, <2>1
  <2> QED BY <1>1, <1>13, <2>1, <2>2 DEF Kept
<1>16. AllUnblocked' BY <1>0, <1>1, <1>2 DEF AllUnblocked, Unblocked
<1> QED
  BY <1>7, <1>8, <1>9, <1>10, <1>11, <1>12, <1>14, <1>15, <1>16 DEF Placed, AtWork

\* The event loop has done with the new connection, which epoll_wait may report next.
LEMMA AcceptNonblockStep == ServerInv /\ AcceptNonblock => Placed'
<1> SUFFICES ASSUME ServerInv, AcceptNonblock PROVE Placed'
  OBVIOUS
<1> USE DEF pool, table
<1>0. /\ TypeOK /\ Objects /\ Table /\ MainPlace
      /\ AtWork /\ Events /\ Queued /\ AllApart /\ AllKept /\ AllUnblocked
  BY DEF ServerInv, Placed
<1>1. UNCHANGED <<backlog, interest, batch, todo, connMap, mTasks, running, mode>>
  BY DEF AcceptNonblock
<1>2. /\ pc[Main] = "accept_nonblock" /\ pc'[Main] = "next" /\ cur' = NoConn
      /\ \A w \in Workers : pc'[w] = pc[w]
      /\ cur \in Conns /\ InTable(cur) /\ todo = NoTask
      /\ conn[cur].fd \in Fds => interest[conn[cur].fd] = "in"
  BY <1>0, Constants DEF AcceptNonblock, Goto, TypeOK, MainPlace
<1>3. \A c \in Conns : /\ conn'[c].fd = conn[c].fd
                       /\ conn'[c].exists <=> conn[c].exists
                       /\ conn'[c].data = conn[c].data
                       /\ conn[c].fd # BadFd => (conn[c].nonblock \/ c = cur => conn'[c].nonblock)
                       /\ c # cur => conn'[c] = conn[c]
  <2> DEFINE opened == conn[cur].fd # BadFd
  <2>1. conn' = [conn EXCEPT ![cur].nonblock = opened]
    BY DEF AcceptNonblock, setnonblocking
  <2>2. /\ conn'[cur].nonblock = opened
        /\ conn'[cur].fd = conn[cur].fd
        /\ conn'[cur].exists = conn[cur].exists
        /\ conn'[cur].data = conn[cur].data
    <3> HIDE DEF opened
    <3> QED BY <1>0, <1>2, <2>1 DEF TypeOK
  <2>3. \A c \in Conns \ {cur} : conn'[c] = conn[c] BY <1>0, <1>2, <2>1 DEF TypeOK
  <2> QED BY <2>2, <2>3
<1>4. Referenced' = Referenced
  <2>1. Accepting' = {} /\ Accepting = {cur} BY <1>1, <1>2 DEF Accepting
  <2>2. cur \in Range(connMap) BY <1>2 DEF InTable, Range
  <2> QED BY <1>1, <2>1, <2>2 DEF Referenced, TaskConns
<1>5. /\ \A f \in DOMAIN connMap : connMap[f] \in Conns
      /\ \A i \in DOMAIN mTasks : mTasks[i].conn \in Conns
      /\ \A w \in Workers : running[w] # NoTask => running[w].conn \in Conns
      /\ \A e \in batch : e.fd # ListenFd => connMap[e.fd] \in Conns
  <2>1. \A e \in batch : e.fd # ListenFd => e.fd \in DOMAIN connMap
    BY <1>0 DEF Events, EventPlace
  <2> QED BY <1>0, <2>1, Elements
<1>6. conn[cur].exists
  <2>1. cur \in Referenced BY <1>2, References
  <2> QED BY <1>0, <1>2, <2>1 DEF Objects
<1> USE DEF Registered, InTable
<1>7. Objects' BY <1>0, <1>3, <1>4, <1>6 DEF Objects
<1>8. Table' BY <1>0, <1>1, <1>3, <1>5 DEF Table
<1>9. MainPlace' BY <1>1, <1>2 DEF MainPlace
<1>10. \A w \in Workers : WorkerPlace(w)'
  <2> TAKE w \in Workers
  <2>1. WorkerPlace(w) BY <1>0 DEF AtWork
  <2> QED BY <1>1, <1>2, <1>3, <1>5, <2>1 DEF WorkerPlace
<1>11. Events' BY <1>0, <1>1, <1>2, <1>3, <1>5, Constants DEF Events, EventPlace
<1>12. Queued' BY <1>0, <1>1, <1>2, <1>3, <1>5, Constants DEF Queued, TaskPlace
<1>13. \A w \in Workers : Serves(w)' = Serves(w) BY <1>1, <1>2 DEF Serves
<1>14. AllApart'
  <2> SUFFICES ASSUME NEW w \in Workers, Serves(w) PROVE Apart(w)'
    BY <1>13 DEF AllApart
  <2>1. Apart(w) /\ running[w].conn \in Conns BY <1>0, <1>5 DEF AllApart, Serves
  <2> QED BY <1>1, <1>2, <1>3, <1>13, <2>1, Constants DEF Apart
<1>15. AllKept'
  <2> SUFFICES ASSUME NEW g \in DOMAIN connMap \ {BadFd} PROVE Kept(g)'
    BY <1>1 DEF AllKept
  <2>1. Kept(g) /\ g \in Fds /\ conn[connMap[g]].fd = g
    BY <1>0, Entry DEF AllKept
  <2>2. cur = connMap[g] => interest[g] = "in" BY <1>2, <2>1
  <2> QED BY <1>1, <1>13, <2>1, <2>2 DEF Kept
<1>16. AllUnblocked'
  <2> SUFFICES ASSUME NEW g \in DOMAIN connMap \ {BadFd} PROVE Unblocked(g)'
    BY <1>1 DEF AllUnblocked
  <2>1. Unblocked(g) /\ conn[connMap[g]].fd # BadFd /\ connMap[g] \in Conns
    BY <1>0, Entry DEF AllUnblocked
  <2> QED BY <1>1, <1>2, <1>3, <2>1 DEF Unblocked
<1> QED
  BY <1>7, <1>8, <1>9, <1>10, <1>11, <1>12, <1>14, <1>15, <1>16 DEF Placed, AtWork

\* A thread in CloseConn is the only one that has its connection, and the only one with
\* its descriptor.
LEMMA ClosingApart ==
    ASSUME ServerInv, NEW x \in Threads,
           pc[x] \in {"shutdown", "close_lock", "close_del", "close_erase"}
    PROVE  LET c == Closing(x)
           IN  /\ c \in Conns /\ conn[c].exists /\ conn[c].fd \in Fds /\ InTable(c)
               /\ \A e \in batch : e.fd # conn[c].fd
               /\ \A i \in DOMAIN mTasks : /\ mTasks[i].conn # c
                                           /\ conn[mTasks[i].conn].fd # conn[c].fd
               /\ \A v \in Workers : Serves(v) /\ v # x =>
                      running[v].conn # c /\ conn[running[v].conn].fd # conn[c].fd
               /\ x # Main => cur # c /\ (cur # NoConn => conn[cur].fd # conn[c].fd)
               /\ x # Main => x \in Workers /\ Serves(x) /\ c = running[x].conn
<1>0. /\ TypeOK /\ Objects /\ Table /\ MainPlace
      /\ AtWork /\ Events /\ Queued /\ AllApart
  BY DEF ServerInv, Placed
<1> DEFINE c == Closing(x)
<1>1. c \in Conns /\ InTable(c) /\ conn[c].fd \in Fds
  BY ClosingIs DEF Registered
<1>2. conn[c].exists
  <2>1. c \in Referenced BY <1>1, References DEF InTable
  <2> QED BY <1>0, <1>1, <2>1 DEF Objects
<1>3. x # Main => x \in Workers /\ Serves(x) /\ c = running[x].conn
  BY <1>0 DEF Threads, Closing, AtWork, WorkerPlace, Serves
<1>4. x = Main => c = cur BY DEF Closing
<1> HIDE DEF c
<1>5. \A d \in Conns : conn[d].exists /\ d # c => conn[d].fd # conn[c].fd
  BY <1>0, <1>1, <1>2 DEF Objects
<1>6. \A e \in batch : e.fd # conn[c].fd
  <2>1. CASE x = Main
    <3>1. \A e \in batch : e.fd # ListenFd => e.fd \in DOMAIN connMap /\ cur # connMap[e.fd]
      BY <1>0 DEF Events, EventPlace
    <3> QED BY <1>1, <1>4, <2>1, <3>1, Constants DEF InTable
  <2>2. CASE x # Main BY <1>0, <1>3, <2>2 DEF AllApart, Apart
  <2> QED BY <2>1, <2>2
<1>7. \A i \in DOMAIN mTasks : /\ mTasks[i].conn # c
                               /\ conn[mTasks[i].conn].fd # conn[c].fd
  <2> TAKE i \in DOMAIN mTasks
  <2>1. mTasks[i].conn # c
    <3>1. CASE x = Main BY <1>0, <1>4, <3>1 DEF Queued, TaskPlace
    <3>2. CASE x # Main BY <1>0, <1>3, <3>2 DEF AllApart, Apart
    <3> QED BY <3>1, <3>2
  <2>2. mTasks[i].conn \in Conns /\ mTasks[i].conn \in Referenced
    BY <1>0, Elements, References
  <2> QED BY <1>0, <1>5, <2>1, <2>2 DEF Objects
<1>8. \A v \in Workers : Serves(v) /\ v # x =>
          running[v].conn # c /\ conn[running[v].conn].fd # conn[c].fd
  <2> SUFFICES ASSUME NEW v \in Workers, Serves(v), v # x
               PROVE  running[v].conn # c /\ conn[running[v].conn].fd # conn[c].fd
    OBVIOUS
  <2>1. running[v].conn # c
    <3>1. CASE x = Main BY <1>0, <1>4, <3>1 DEF AllApart, Apart
    <3>2. CASE x # Main BY <1>0, <1>3, <3>2 DEF AllApart, Apart
    <3> QED BY <3>1, <3>2
  <2>2. running[v].conn \in Conns /\ running[v].conn \in Referenced
    BY <1>0, Elements, References DEF Serves
  <2> QED BY <1>0, <1>5, <2>1, <2>2 DEF Objects
<1>9. x # Main => cur # c /\ (cur # NoConn => conn[cur].fd # conn[c].fd)
  <2> SUFFICES ASSUME x # Main PROVE cur # c /\ (cur # NoConn => conn[cur].fd # conn[c].fd)
    OBVIOUS
  <2>1. cur # c BY <1>0, <1>3 DEF AllApart, Apart
  <2>2. ASSUME cur # NoConn PROVE cur \in Conns /\ conn[cur].exists
    <3>1. cur \in Conns BY <1>0, <2>2, Elements
    <3>2. pc[Main] \in MainStates /\ pc[Main] \notin {"epoll_wait", "next"}
      BY <1>0, <2>2 DEF MainPlace, TypeOK
    <3>3. CASE pc[Main] \in {"accept_lock", "accept_insert", "accept_add", "accept_nonblock"}
      BY <1>0, <3>1, <3>3, References DEF Objects
    <3>4. CASE pc[Main] \in {"add_task", "shutdown", "close_lock", "close_del", "close_erase"}
      BY <1>0, <3>1, <3>4, References DEF MainPlace, Objects, Registered, InTable
    <3> QED BY <3>1, <3>2, <3>3, <3>4 DEF MainStates
  <2> QED BY <1>5, <2>1, <2>2
<1> QED BY <1>1, <1>2, <1>3, <1>6, <1>7, <1>8, <1>9 DEF c

\* EPOLL_CTL_DEL removes the registration of the connection that is closed.
LEMMA CloseDelStep ==
    ASSUME ServerInv, NEW x \in Threads, CloseDel(x)
    PROVE  Placed'
<1> USE DEF loop, pool, table
<1>0. /\ TypeOK /\ Objects /\ Table /\ MainPlace
      /\ AtWork /\ Events /\ Queued /\ AllApart /\ AllKept /\ AllUnblocked
  BY DEF ServerInv, Placed
<1>1. UNCHANGED <<backlog, conn, batch, cur, todo, connMap, mTasks, running, mode>>
  BY DEF CloseDel
<1>2. /\ pc[x] = "close_del" /\ pc'[x] = "close_erase"
      /\ \A y \in Threads \ {x} : pc'[y] = pc[y]
  BY <1>0 DEF CloseDel, Goto, TypeOK
<1> DEFINE c == Closing(x)
           fd == conn[c].fd
<1>3. /\ c \in Conns /\ fd \in Fds /\ InTable(c)
      /\ \A e \in batch : e.fd # fd
      /\ \A i \in DOMAIN mTasks : mTasks[i].conn # c /\ conn[mTasks[i].conn].fd # fd
      /\ \A v \in Workers : Serves(v) /\ v # x => conn[running[v].conn].fd # fd
      /\ x # Main => cur # c /\ (cur # NoConn => conn[cur].fd # fd)
      /\ x # Main => x \in Workers /\ Serves(x) /\ c = running[x].conn
      /\ x = Main => c = cur
  <2>1. x = Main => c = cur BY DEF Closing
  <2> QED BY <1>2, <2>1, ClosingApart
<1> HIDE DEF c
<1>4. interest'[fd] = "none" /\ \A g \in Fds \ {fd} : interest'[g] = interest[g]
  BY <1>3 DEF CloseDel, Deleted, c
<1> HIDE DEF fd
<1>5. /\ \A w \in Workers : w # x => pc'[w] = pc[w]
      /\ x # Main => pc'[Main] = pc[Main]
  BY <1>2, Constants
<1>6. Referenced' = Referenced
  <2>1. Accepting' = Accepting BY <1>1, <1>2, <1>5 DEF Accepting
  <2> QED BY <1>1, <2>1 DEF Referenced, TaskConns
<1> USE DEF Registered, InTable
<1>7. Objects' BY <1>0, <1>1, <1>6 DEF Objects
<1>8. Table' BY <1>0, <1>1, <1>4 DEF Table
<1>9. MainPlace'
  <2>1. CASE x = Main BY <1>0, <1>1, <1>2, <1>3, <1>4, <2>1, Constants DEF MainPlace, fd
  <2>2. CASE x # Main
    <3>1. cur # NoConn /\ conn[cur].fd \in Fds => interest'[conn[cur].fd] = interest[conn[cur].fd]
      BY <1>3, <1>4, <2>2
    <3>2. TaskConns' = TaskConns BY <1>1 DEF TaskConns
    <3> QED BY <1>0, <1>1, <1>5, <2>2, <3>1, <3>2, Constants DEF MainPlace
  <2> QED BY <2>1, <2>2
<1>10. \A w \in Workers : WorkerPlace(w)'
  <2> TAKE w \in Workers
  <2>1. WorkerPlace(w) BY <1>0 DEF AtWork
  <2>2. CASE w = x BY <1>1, <1>2, <1>3, <1>4, <2>1, <2>2, Constants DEF WorkerPlace, fd
  <2>3. CASE w # x /\ ~Serves(w) BY <1>1, <1>5, <2>1, <2>3 DEF WorkerPlace, Serves
  <2>4. CASE w # x /\ Serves(w)
    <3>1. interest'[conn[running[w].conn].fd] = interest[conn[running[w].conn].fd]
      BY <1>3, <1>4, <2>1, <2>4 DEF WorkerPlace, Serves
    <3> QED BY <1>1, <1>5, <2>1, <2>4, <3>1 DEF WorkerPlace
  <2> QED BY <2>2, <2>3, <2>4
<1>11. Events'
  <2>1. \A e \in batch : e.fd # ListenFd => e.fd \in Fds /\ interest'[e.fd] = interest[e.fd]
    BY <1>0, <1>3, <1>4, Elements
  <2> QED BY <1>0, <1>1, <2>1 DEF Events, EventPlace
<1>12. Queued'
  <2> SUFFICES ASSUME NEW i \in DOMAIN mTasks PROVE TaskPlace(i)'
    BY <1>1 DEF Queued
  <2>1. TaskPlace(i) BY <1>0 DEF Queued
  <2>2. interest'[conn[mTasks[i].conn].fd] = "off" BY <1>3, <1>4, <2>1 DEF TaskPlace
  <2> QED BY <1>1, <2>1, <2>2 DEF TaskPlace
<1>13. \A w \in Workers : Serves(w)' = Serves(w)
  BY <1>1, <1>2, <1>5 DEF Serves
<1>14. AllApart' BY <1>0, <1>1, <1>13 DEF AllApart, Apart
<1>15. AllKept'
  <2> SUFFICES ASSUME NEW g \in DOMAIN connMap \ {BadFd} PROVE Kept(g)'
    BY <1>1 DEF AllKept
  <2>1. Kept(g) /\ g \in Fds BY <1>0, Elements DEF AllKept
  <2>2. CASE g = fd
    <3>1. connMap[g] = c BY <1>3, <2>2 DEF fd
    <3>2. CASE x = Main BY <1>1, <1>3, <3>1, <3>2 DEF Kept
    <3>3. CASE x # Main BY <1>1, <1>3, <1>13, <3>1, <3>3 DEF Kept
    <3> QED BY <3>2, <3>3
  <2>3. CASE g # fd BY <1>1, <1>4, <1>13, <2>1, <2>3 DEF Kept
  <2> QED BY <2>2, <2>3
<1>16. AllUnblocked' BY <1>0, <1>1, <1>2, <1>5 DEF AllUnblocked, Unblocked
<1> QED
  BY <1>7, <1>8, <1>9, <1>10, <1>11, <1>12, <1>14, <1>15, <1>16 DEF Placed, AtWork

\* The connection that is closed leaves the table; nothing that handles a connection is
\* about that one.
LEMMA CloseEraseStep ==
    ASSUME ServerInv, NEW x \in Threads, CloseErase(x)
    PROVE  Placed'
<1> USE DEF pool
<1>0. /\ TypeOK /\ Objects /\ Table /\ MainPlace
      /\ AtWork /\ Events /\ Queued /\ AllApart /\ AllKept /\ AllUnblocked
  BY DEF ServerInv, Placed
<1>1. UNCHANGED <<backlog, batch, todo, mTasks, running, mode>>
  BY DEF CloseErase
<1>2. /\ pc[x] = "close_erase"
      /\ pc'[x] = (IF x = Main THEN "next" ELSE IF mode[x] = "none" THEN "return" ELSE "rearm")
      /\ \A y \in Threads \ {x} : pc'[y] = pc[y]
      /\ cur' = IF x = Main THEN NoConn ELSE cur
  BY <1>0 DEF CloseErase, Goto, TypeOK
<1> DEFINE c == Closing(x)
           fd == conn[c].fd
<1>3. /\ c \in Conns /\ fd \in Fds /\ InTable(c) /\ interest[fd] = "none"
      /\ \A e \in batch : e.fd # fd
      /\ \A i \in DOMAIN mTasks : mTasks[i].conn # c /\ conn[mTasks[i].conn].fd # fd
      /\ \A v \in Workers : Serves(v) /\ v # x =>
             running[v].conn # c /\ conn[running[v].conn].fd # fd
      /\ x # Main => cur # c /\ (cur # NoConn => conn[cur].fd # fd)
      /\ x # Main => x \in Workers /\ Serves(x) /\ c = running[x].conn
      /\ x = Main => c = cur
  <2>1. x = Main => c = cur BY DEF Closing
  <2>2. interest[fd] = "none" BY <1>2, ClosingIs DEF Registered
  <2> QED BY <1>2, <2>1, <2>2, ClosingApart
<1> HIDE DEF c
<1>4. /\ DOMAIN connMap' = DOMAIN connMap \ {fd}
      /\ \A g \in DOMAIN connMap \ {fd} : connMap'[g] = connMap[g]
  BY DEF CloseErase, Restrict, c
<1>4a. fd = conn[c].fd OBVIOUS
<1> HIDE DEF fd
<1>5. /\ \A w \in Workers : w # x => pc'[w] = pc[w]
      /\ x # Main => pc'[Main] = pc[Main]
  BY <1>2, Constants
<1>6. /\ Referenced' = Range(connMap') \cup TaskConns \cup Accepting
      /\ Referenced' \subseteq Referenced
  <2>1. Accepting' = Accepting
    <3>1. CASE x = Main BY <1>2, <3>1 DEF Accepting
    <3>2. CASE x # Main BY <1>2, <1>5, <3>2 DEF Accepting
    <3> QED BY <3>1, <3>2
  <2>2. Range(connMap') \subseteq Range(connMap) BY <1>4 DEF Range
  <2>3. TaskConns' = TaskConns BY <1>1 DEF TaskConns
  <2> QED BY <2>1, <2>2, <2>3 DEF Referenced
<1>7. /\ interest' = interest
      /\ \A d \in Conns : d \in Referenced' => conn'[d] = conn[d]
      /\ Objects'
  <2>1. \A g \in Fds : interest[g] # "none" =>
           g \in DOMAIN connMap' /\ connMap'[g] \in Conns /\ conn[connMap'[g]].fd = g
    <3> TAKE g \in Fds
    <3> HAVE interest[g] # "none"
    <3>1. g \in DOMAIN connMap /\ g # fd BY <1>0, <1>3 DEF Table
    <3> QED BY <1>0, <1>4, <3>1, Entry
  <2>2. Destroy BY DEF CloseErase
  <2> QED BY <1>0, <1>6, <2>1, <2>2, DestroyKeeps
<1>8. /\ \A g \in DOMAIN connMap \ {fd} :
            connMap[g] \in Conns /\ conn'[connMap[g]] = conn[connMap[g]] /\ connMap[g] # c
      /\ \A i \in DOMAIN mTasks : conn'[mTasks[i].conn] = conn[mTasks[i].conn]
      /\ \A w \in Workers : running[w] # NoTask => conn'[running[w].conn] = conn[running[w].conn]
  <2>1. ASSUME NEW g \in DOMAIN connMap \ {fd}
        PROVE  connMap[g] \in Conns /\ conn'[connMap[g]] = conn[connMap[g]] /\ connMap[g] # c
    <3>1. connMap[g] \in Conns /\ conn[connMap[g]].fd = g BY <1>0, Entry
    <3>2. connMap[g] \in Referenced' BY <1>4, <1>6 DEF Range
    <3> QED BY <1>7, <1>4a, <3>1, <3>2
  <2>2. \A i \in DOMAIN mTasks : mTasks[i].conn \in Conns /\ mTasks[i].conn \in Referenced'
    BY <1>0, <1>6, Elements DEF TaskConns
  <2>3. \A w \in Workers : running[w] # NoTask =>
             running[w].conn \in Conns /\ running[w].conn \in Referenced'
    BY <1>0, <1>6, Elements DEF TaskConns
  <2> QED BY <1>7, <2>1, <2>2, <2>3
<1> USE DEF Registered, InTable
<1>9. Table'
  <2>1. \A g \in DOMAIN connMap' : conn'[connMap'[g]].fd = g
    BY <1>0, <1>4, <1>8 DEF Table
  <2>2. \A g \in Fds : interest'[g] # "none" => g \in DOMAIN connMap'
    BY <1>0, <1>3, <1>4, <1>7 DEF Table
  <2> QED BY <2>1, <2>2 DEF Table
<1>10. MainPlace'
  <2>1. CASE x = Main BY <1>0, <1>1, <1>2, <2>1 DEF MainPlace
  <2>2. CASE x # Main
    <3>1. cur' = cur /\ pc'[Main] = pc[Main] BY <1>2, <1>5, <2>2
    <3>2. TaskConns' = TaskConns BY <1>1 DEF TaskConns
    <3>3. cur \notin Range(connMap) => cur \notin Range(connMap') BY <1>4 DEF Range
    <3>4. cur # NoConn /\ InTable(cur) =>
              /\ conn'[cur] = conn[cur] /\ conn[cur].fd # fd
              /\ conn[cur].fd \in DOMAIN connMap' /\ connMap'[conn[cur].fd] = cur
      BY <1>3, <1>4, <1>8, <2>2
    <3> QED BY <1>0, <1>1, <1>7, <3>1, <3>2, <3>3, <3>4, Constants DEF MainPlace
  <2> QED BY <2>1, <2>2
<1>11. \A w \in Workers : WorkerPlace(w)'
  <2> TAKE w \in Workers
  <2>1. WorkerPlace(w) BY <1>0 DEF AtWork
  <2>2. CASE w = x
    <3>1. x # Main /\ running[w] # NoTask /\ c = running[w].conn /\ conn'[c] = conn[c]
      BY <1>3, <1>8, <2>2, Constants DEF Serves
    <3>2. mode[w] \in {"none", "in", "out"} BY <1>0 DEF TypeOK
    <3>3. fd \notin DOMAIN connMap' BY <1>4
    <3> QED BY <1>1, <1>2, <1>3, <1>7, <1>4a, <2>2, <3>1, <3>2, <3>3 DEF WorkerPlace
  <2>3. CASE w # x /\ ~Serves(w) BY <1>1, <1>5, <1>8, <2>1, <2>3 DEF WorkerPlace, Serves
  <2>4. CASE w # x /\ Serves(w)
    <3>1. conn'[running[w].conn] = conn[running[w].conn] /\ conn[running[w].conn].fd # fd
      BY <1>3, <1>8, <2>4 DEF Serves
    <3>2. /\ conn[running[w].conn].fd \in DOMAIN connMap' <=> conn[running[w].conn].fd \in DOMAIN connMap
          /\ conn[running[w].conn].fd \in DOMAIN connMap =>
                 connMap'[conn[running[w].conn].fd] = connMap[conn[running[w].conn].fd]
      BY <1>4, <3>1
    <3> QED BY <1>1, <1>5, <1>7, <2>1, <2>4, <3>1, <3>2 DEF WorkerPlace
  <2> QED BY <2>2, <2>3, <2>4
<1>12. Events'
  <2>1. \A e \in batch : e.fd # ListenFd => EventPlace(e)'
    <3> TAKE e \in batch
    <3> HAVE e.fd # ListenFd
    <3>1. EventPlace(e) /\ e.fd # fd BY <1>0, <1>3 DEF Events
    <3>2. cur' # connMap[e.fd]
      <4>1. connMap[e.fd] # NoConn BY <1>8, <3>1, Constants DEF EventPlace
      <4> QED BY <1>2, <3>1, <4>1 DEF EventPlace
    <3> QED BY <1>1, <1>4, <1>7, <1>8, <3>1, <3>2 DEF EventPlace
  <2> QED BY <1>0, <1>1, <2>1 DEF Events
<1>13. Queued'
  <2> SUFFICES ASSUME NEW i \in DOMAIN mTasks PROVE TaskPlace(i)'
    BY <1>1 DEF Queued
  <2>1. TaskPlace(i) /\ conn[mTasks[i].conn].fd # fd BY <1>0, <1>3 DEF Queued
  <2>2. cur' # mTasks[i].conn
    <3>1. mTasks[i].conn # NoConn BY <1>0, Elements, Constants
    <3> QED BY <1>2, <2>1, <3>1 DEF TaskPlace
  <2> QED BY <1>1, <1>4, <1>7, <1>8, <2>1, <2>2 DEF TaskPlace
<1>14. /\ \A w \in Workers : Serves(w)' => Serves(w)
       /\ \A w \in Workers : w # x => Serves(w)' = Serves(w)
  BY <1>1, <1>2, <1>3, <1>5 DEF Serves
<1>15. AllApart'
  <2> SUFFICES ASSUME NEW w \in Workers, Serves(w) PROVE Apart(w)'
    BY <1>14 DEF AllApart
  <2>1. Apart(w) /\ running[w].conn \in Conns BY <1>0, Elements DEF AllApart, Serves
  <2>2. cur' # running[w].conn BY <1>2, <2>1, Constants DEF Apart
  <2>3. conn'[running[w].conn] = conn[running[w].conn] BY <1>8 DEF Serves
  <2> QED BY <1>1, <1>14, <2>1, <2>2, <2>3 DEF Apart
<1>16. AllKept'
  <2> SUFFICES ASSUME NEW g \in DOMAIN connMap' \ {BadFd} PROVE Kept(g)'
    BY DEF AllKept
  <2>1. /\ g \in DOMAIN connMap \ {fd} /\ connMap'[g] = connMap[g] /\ connMap[g] # c
    BY <1>4, <1>8
  <2>2. Kept(g) BY <1>0, <2>1 DEF AllKept
  <2>3. cur = connMap[g] => cur' = connMap[g] BY <1>2, <1>3, <2>1
  <2>4. \A w \in Workers : Serves(w) /\ running[w].conn = connMap[g] => Serves(w)'
    BY <1>3, <1>14, <2>1, Constants
  <2> QED BY <1>1, <1>7, <2>1, <2>2, <2>3, <2>4 DEF Kept
<1>17. AllUnblocked'
  <2> SUFFICES ASSUME NEW g \in DOMAIN connMap' \ {BadFd} PROVE Unblocked(g)'
    BY DEF AllUnblocked
  <2>1. g \in DOMAIN connMap \ {fd} /\ connMap'[g] = connMap[g] BY <1>4
  <2>2. Unblocked(g) /\ conn'[connMap[g]] = conn[connMap[g]]
    BY <1>0, <1>8, <2>1 DEF AllUnblocked
  <2>3. pc[Main] \in {"accept_add", "accept_nonblock"} => cur' = cur /\ pc'[Main] = pc[Main]
    BY <1>2, <1>5
  <2> QED BY <2>1, <2>2, <2>3 DEF Unblocked
<1> QED
  BY <1>7, <1>9, <1>10, <1>11, <1>12, <1>13, <1>15, <1>16, <1>17 DEF Placed, AtWork

\* A handler rearms its connection, and has given it up then.
LEMMA RearmStep ==
    ASSUME ServerInv, NEW w \in Workers, Rearm(w)
    PROVE  Placed'
<1> USE DEF loop, pool, table
<1>0. /\ TypeOK /\ Objects /\ Table /\ MainPlace
      /\ AtWork /\ Events /\ Queued /\ AllApart /\ AllKept /\ AllUnblocked
  BY DEF ServerInv, Placed
<1>1. UNCHANGED <<backlog, conn, batch, cur, todo, connMap, mTasks, running, mode>>
  BY DEF Rearm
<1>2. /\ pc[w] = "rearm" /\ pc'[w] = "return"
      /\ \A v \in Workers : v # w => pc'[v] = pc[v]
      /\ pc'[Main] = pc[Main]
  BY <1>0, Constants DEF Rearm, Goto, TypeOK
<1> DEFINE c == running[w].conn
           fd == conn[c].fd
<1>3. /\ running[w] # NoTask /\ c \in Conns /\ fd \in Fds /\ mode[w] \in {"in", "out"}
      /\ \/ fd \in DOMAIN connMap /\ connMap[fd] = c /\ interest[fd] = "off"
         \/ interest[fd] = "none" /\ fd \notin DOMAIN connMap
      /\ Serves(w) /\ Apart(w)
  <2>1. WorkerPlace(w) BY <1>0 DEF AtWork
  <2>2. running[w] # NoTask BY <1>2, <2>1 DEF WorkerPlace
  <2>3. Serves(w) BY <1>2, <2>2 DEF Serves
  <2> QED BY <1>0, <1>2, <2>1, <2>2, <2>3, Elements
          DEF WorkerPlace, AllApart, Registered, InTable
<1>4. \A g \in Fds : \/ interest'[g] = interest[g]
                     \/ g = fd /\ interest[g] = "off" /\ interest'[g] = mode[w]
  BY <1>3 DEF Rearm
<1>5. fd \in DOMAIN connMap => interest'[fd] = mode[w]
  BY <1>3 DEF Rearm
<1>6. /\ \A e \in batch : e.fd # fd
      /\ \A i \in DOMAIN mTasks : mTasks[i].conn # c
      /\ \A v \in Workers : Serves(v) /\ v # w => running[v].conn # c
      /\ cur # c
  BY <1>3 DEF Apart
<1> HIDE DEF fd, c
<1>7. Referenced' = Referenced
  <2>1. Accepting' = Accepting BY <1>1, <1>2 DEF Accepting
  <2> QED BY <1>1, <2>1 DEF Referenced, TaskConns
<1> USE DEF Registered, InTable
<1>8. Objects' BY <1>0, <1>1, <1>7 DEF Objects
<1>9. Table' BY <1>0, <1>1, <1>4 DEF Table
<1>10. \A d \in Conns : conn[d].fd \in Fds /\ InTable(d) /\ d # c =>
                           interest'[conn[d].fd] = interest[conn[d].fd]
  BY <1>3, <1>4
<1>11. MainPlace'
  <2>1. TaskConns' = TaskConns BY <1>1 DEF TaskConns
  <2>2. cur # NoConn => cur \in Conns BY <1>0, Elements
  <2>3. cur # NoConn /\ conn[cur].fd \in Fds /\ InTable(cur) =>
             interest'[conn[cur].fd] = interest[conn[cur].fd]
    BY <1>6, <1>10, <2>2
  <2> QED BY <1>0, <1>1, <1>2, <2>1, <2>3, Constants DEF MainPlace
<1>12. \A v \in Workers : WorkerPlace(v)'
  <2> TAKE v \in Workers
  <2>1. WorkerPlace(v) BY <1>0 DEF AtWork
  <2>2. CASE v = w BY <1>1, <1>2, <1>3, <2>1, <2>2 DEF WorkerPlace, c
  <2>3. CASE v # w /\ ~Serves(v) BY <1>1, <1>2, <2>1, <2>3 DEF WorkerPlace, Serves
  <2>4. CASE v # w /\ Serves(v)
    <3>1. running[v].conn \in Conns /\ running[v].conn # c /\ running[v] # NoTask
      BY <1>0, <1>6, <2>4, Elements DEF Serves
    <3>2. CASE InTable(running[v].conn)
      <4>1. interest'[conn[running[v].conn].fd] = interest[conn[running[v].conn].fd]
        BY <1>10, <2>1, <3>1, <3>2 DEF WorkerPlace
      <4> QED BY <1>1, <1>2, <2>1, <2>4, <3>1, <4>1 DEF WorkerPlace
    <3>3. CASE ~InTable(running[v].conn)
      <4>1. pc[v] \in WorkerStates \ {"idle", "return"}
        BY <1>0, <2>1, <2>4 DEF TypeOK, Serves, WorkerPlace
      <4>2. pc[v] = "rearm" /\ interest[conn[running[v].conn].fd] = "none"
        BY <2>1, <3>3, <4>1 DEF WorkerPlace, WorkerStates
      <4>3. interest'[conn[running[v].conn].fd] = "none"
        BY <1>4, <2>1, <3>1, <4>2 DEF WorkerPlace
      <4> QED BY <1>1, <1>2, <2>1, <2>4, <3>1, <3>3, <4>2, <4>3 DEF WorkerPlace
    <3> QED BY <3>2, <3>3
  <2> QED BY <2>2, <2>3, <2>4
<1>13. Events'
  <2>1. \A e \in batch : e.fd # ListenFd => e.fd \in Fds /\ interest'[e.fd] = interest[e.fd]
    BY <1>0, <1>4, <1>6, Elements
  <2> QED BY <1>0, <1>1, <2>1 DEF Events, EventPlace
<1>14. Queued'
  <2> SUFFICES ASSUME NEW i \in DOMAIN mTasks PROVE TaskPlace(i)'
    BY <1>1 DEF Queued
  <2>1. TaskPlace(i) /\ mTasks[i].conn \in Conns /\ mTasks[i].conn # c
    BY <1>0, <1>6, Elements DEF Queued
  <2>2. interest'[conn[mTasks[i].conn].fd] = "off" BY <1>10, <2>1 DEF TaskPlace
  <2> QED BY <1>1, <2>1, <2>2 DEF TaskPlace
<1>15. ~Serves(w)' /\ \A v \in Workers : v # w => Serves(v)' = Serves(v)
  BY <1>1, <1>2 DEF Serves
<1>16. AllApart' BY <1>0, <1>1, <1>15 DEF AllApart, Apart
<1>17. AllKept'
  <2> SUFFICES ASSUME NEW g \in DOMAIN connMap \ {BadFd} PROVE Kept(g)'
    BY <1>1 DEF AllKept
  <2>1. Kept(g) /\ g \in Fds BY <1>0, Elements DEF AllKept
  <2>2. CASE g = fd BY <1>3, <1>5, <2>2 DEF Kept
  <2>3. CASE g # fd
    <3>1. connMap[g] # c /\ interest'[g] = interest[g]
      BY <1>0, <1>4, <2>1, <2>3 DEF Table, fd
    <3>2. \A v \in Workers : Serves(v) /\ running[v].conn = connMap[g] => Serves(v)'
      BY <1>15, <3>1 DEF c
    <3> QED BY <1>1, <2>1, <3>1, <3>2 DEF Kept
  <2> QED BY <2>2, <2>3
<1>18. AllUnblocked' BY <1>0, <1>1, <1>2 DEF AllUnblocked, Unblocked
<1> QED
  BY <1>8, <1>9, <1>11, <1>12, <1>13, <1>14, <1>16, <1>17, <1>18 DEF Placed, AtWork

\* A handler returns: only its reference to the object goes, and with the last one the
\* object.
LEMMA ReturnStep ==
    ASSUME ServerInv, NEW w \in Workers, Return(w)
    PROVE  Placed'
<1> USE DEF loop, table
<1>0. /\ TypeOK /\ Objects /\ Table /\ MainPlace
      /\ AtWork /\ Events /\ Queued /\ AllApart /\ AllKept /\ AllUnblocked
  BY DEF ServerInv, Placed
<1>1. UNCHANGED <<backlog, batch, cur, todo, connMap, mTasks, mode>>
  BY DEF Return, Pool!Finish
<1>2. /\ pc[w] = "return" /\ pc'[w] = "idle" /\ running'[w] = NoTask
      /\ \A v \in Workers : v # w => pc'[v] = pc[v] /\ running'[v] = running[v]
      /\ pc'[Main] = pc[Main]
  BY <1>0, Constants DEF Return, Goto, Pool!Finish, TypeOK
<1>3. /\ Referenced' \subseteq Referenced
      /\ Range(connMap) \cup Accepting \subseteq Referenced'
      /\ TaskConns' \subseteq TaskConns
  <2>1. Accepting' = Accepting BY <1>1, <1>2 DEF Accepting
  <2>2. TaskConns' \subseteq TaskConns BY <1>1, <1>2 DEF TaskConns
  <2> QED BY <1>1, <2>1, <2>2 DEF Referenced
<1>4. /\ interest' = interest
      /\ \A d \in Conns : d \in Referenced' => conn'[d] = conn[d]
      /\ Objects'
  <2>1. \A g \in Fds : interest[g] # "none" =>
           g \in DOMAIN connMap' /\ connMap'[g] \in Conns /\ conn[connMap'[g]].fd = g
    BY <1>0, <1>1, Elements DEF Table
  <2>2. Destroy BY DEF Return
  <2> QED BY <1>0, <1>3, <2>1, <2>2, DestroyKeeps
<1>5. /\ \A g \in DOMAIN connMap : conn'[connMap[g]] = conn[connMap[g]]
      /\ \A i \in DOMAIN mTasks : conn'[mTasks[i].conn] = conn[mTasks[i].conn]
      /\ \A v \in Workers : v # w /\ running[v] # NoTask =>
                                conn'[running[v].conn] = conn[running[v].conn]
      /\ cur # NoConn => conn'[cur] = conn[cur]
  <2>1. \A g \in DOMAIN connMap : connMap[g] \in Conns /\ connMap[g] \in Referenced'
    BY <1>0, <1>3, Elements DEF Range
  <2>2. \A i \in DOMAIN mTasks : mTasks[i].conn \in Conns /\ mTasks[i].conn \in Referenced'
    BY <1>0, <1>1, Elements DEF Referenced, TaskConns
  <2>3. \A v \in Workers : v # w /\ running[v] # NoTask =>
             running[v].conn \in Conns /\ running[v].conn \in Referenced'
    BY <1>0, <1>2, Elements DEF Referenced, TaskConns
  <2>4. cur # NoConn => cur \in Conns /\ cur \in Referenced'
    <3>1. pc[Main] \in MainStates BY <1>0 DEF TypeOK
    <3>2. cur # NoConn => cur \in Accepting \/ InTable(cur)
      BY <1>0, <3>1 DEF MainPlace, MainStates, Accepting, Registered
    <3>3. InTable(cur) => cur \in Range(connMap) BY DEF InTable, Range
    <3> QED BY <1>0, <1>3, <3>2, <3>3, Elements
  <2> QED BY <1>4, <2>1, <2>2, <2>3, <2>4
<1> USE DEF Registered, InTable
<1>6. Table' BY <1>0, <1>1, <1>4, <1>5 DEF Table
<1>7. MainPlace' BY <1>0, <1>1, <1>2, <1>3, <1>4, <1>5, Constants DEF MainPlace
<1>8. \A v \in Workers : WorkerPlace(v)'
  <2> TAKE v \in Workers
  <2>1. WorkerPlace(v) BY <1>0 DEF AtWork
  <2>2. CASE v = w BY <1>1, <1>2, <2>2 DEF WorkerPlace
  <2>3. CASE v # w BY <1>1, <1>2, <1>4, <1>5, <2>1, <2>3 DEF WorkerPlace
  <2> QED BY <2>2, <2>3
<1>9. Events' BY <1>0, <1>1, <1>4, <1>5 DEF Events, EventPlace
<1>10. Queued' BY <1>0, <1>1, <1>4, <1>5 DEF Queued, TaskPlace
<1>11. /\ \A v \in Workers : Serves(v)' = Serves(v)
       /\ ~Serves(w)
  BY <1>1, <1>2 DEF Serves
<1>12. AllApart'
  <2> SUFFICES ASSUME NEW v \in Workers, Serves(v) PROVE Apart(v)'
    BY <1>11 DEF AllApart
  <2>1. Apart(v) /\ v # w BY <1>0, <1>11 DEF AllApart
  <2>2. running'[v] = running[v] /\ conn'[running[v].conn] = conn[running[v].conn]
    BY <1>2, <1>5, <2>1 DEF Serves
  <2>3. \A u \in Workers : Serves(u)' /\ running'[u].conn = running[v].conn => u = v
    BY <1>2, <1>11, <2>1 DEF Apart
  <2> QED BY <1>1, <2>1, <2>2, <2>3 DEF Apart
<1>13. AllKept'
  <2> SUFFICES ASSUME NEW g \in DOMAIN connMap \ {BadFd} PROVE Kept(g)'
    BY <1>1 DEF AllKept
  <2>1. Kept(g) BY <1>0 DEF AllKept
  <2> QED BY <1>1, <1>2, <1>4, <1>11, <2>1 DEF Kept
<1>14. AllUnblocked' BY <1>0, <1>1, <1>2, <1>5 DEF AllUnblocked, Unblocked
<1> QED
  BY <1>4, <1>6, <1>7, <1>8, <1>9, <1>10, <1>12, <1>13, <1>14 DEF Placed, AtWork

-----------------------------------------------------------------------------
(* The theorems.                                                             *)

\* Whether the process has died has no part in where a connection is.
LEMMA PlacedKept ==
    ASSUME Placed, UNCHANGED <<sockets, loop, table, pool, pc, mode>>
    PROVE  Placed'
<1> USE DEF sockets, loop, table, pool, InTable, Registered
<1>1. Objects' BY DEF Placed, Objects, Referenced, TaskConns, Accepting
<1>2. Table' BY DEF Placed, Table
<1>3. MainPlace' BY DEF Placed, MainPlace, TaskConns
<1>4. AtWork' BY DEF Placed, AtWork, WorkerPlace
<1>5. Events' BY DEF Placed, Events, EventPlace
<1>6. Queued' BY DEF Placed, Queued, TaskPlace
<1>7. AllApart' BY DEF Placed, AllApart, Apart, Serves
<1>8. AllKept' BY DEF Placed, AllKept, Kept, Serves
<1>9. AllUnblocked' BY DEF Placed, AllUnblocked, Unblocked
<1> QED BY <1>1, <1>2, <1>3, <1>4, <1>5, <1>6, <1>7, <1>8, <1>9 DEF Placed

\* ServerInv is inductive.
LEMMA ServerInvStep == ServerInv /\ [Next]_vars => ServerInv'
<1> SUFFICES ASSUME ServerInv, [Next]_vars PROVE Placed'
  BY TypeStep DEF ServerInv
<1>1. CASE Peer BY <1>1, PeerStep
<1>2. CASE MainStep
  <2>1. ASSUME NEW e \in batch, LookupCrash(e) PROVE Placed'
    <3>1. UNCHANGED <<sockets, loop, table, pool, pc, mode>> BY <2>1 DEF LookupCrash
    <3> QED BY <3>1, PlacedKept DEF ServerInv
  <2> QED
    BY <1>2, <2>1, EpollWaitStep, MainQuietStep, AcceptStep, LookupStep, AcceptInsertStep,
       AcceptAddStep, AcceptNonblockStep, AddTaskStep, CloseDelStep, CloseEraseStep, Constants
       DEF MainStep
<1>3. ASSUME NEW w \in Workers, WorkerStep(w) PROVE Placed'
  BY <1>3, TakeTaskStep, WorkerQuietStep, RearmStep, ReturnStep, CloseDelStep, CloseEraseStep,
     Constants
     DEF WorkerStep
<1>4. CASE UNCHANGED vars
  BY <1>4, PlacedKept DEF vars, ServerInv
<1> QED BY <1>1, <1>2, <1>3, <1>4 DEF Next

LEMMA ServerInvAlways == Spec => []ServerInv
BY ServerInvInit, ServerInvStep, PTL DEF Spec

\* Every state variable of Server stays of its type.
THEOREM ServerTypes == Spec => []TypeOK
BY ServerInvAlways, PTL DEF ServerInv

\* connMap maps an open descriptor to the object that closes it, and a descriptor that
\* accept returns is never still in the table (Server.cpp:117-123).
THEOREM TableIsTrue == Spec => []MapMatchesObjects
<1>1. ServerInv => MapMatchesObjects
  <2> SUFFICES ASSUME ServerInv PROVE MapMatchesObjects
    OBVIOUS
  <2>0. TypeOK /\ Objects /\ Table /\ MainPlace BY DEF ServerInv, Placed
  <2>1. \A f \in DOMAIN connMap : conn[connMap[f]].exists /\ conn[connMap[f]].fd = f
    BY <2>0, Entry
  <2>2. ASSUME pc[Main] = "accept_insert", conn[cur].fd \in DOMAIN connMap \ {BadFd} PROVE FALSE
    <3>1. cur \in Conns /\ cur \in Referenced
      BY <2>0, <2>2, Elements, References DEF MainPlace
    <3>2. connMap[conn[cur].fd] = cur
      BY <2>0, <2>2, <3>1, Entry DEF Objects
    <3> QED BY <2>0, <2>2, <3>2 DEF MainPlace, Range
  <2> QED BY <2>1, <2>2 DEF MapMatchesObjects
<1> QED BY <1>1, ServerInvAlways, PTL

\* The places of the handlers of connection c exclude each other.
LEMMA HandlersAlike ==
    ASSUME ServerInv, NEW c \in Conns, NEW a \in Handlers(c), NEW b \in Handlers(c)
    PROVE  a = b
<1>0. /\ TypeOK /\ Objects /\ Table /\ MainPlace
      /\ AtWork /\ Events /\ Queued /\ AllApart
  BY DEF ServerInv, Placed
<1> DEFINE Armed == conn[c].fd \in Fds /\ interest[conn[c].fd] \in {"in", "out"}
           Reported == \E e \in batch : e.fd = conn[c].fd
           InLoop == cur = c /\ pc[Main] # "accept_nonblock"
           Waits(i) == i \in DOMAIN mTasks /\ mTasks[i].conn = c
           Has(w) == w \in Workers /\ Serves(w) /\ running[w].conn = c
           Is(h) == \/ h = <<"armed", conn[c].fd>> /\ Armed
                    \/ h = <<"event", conn[c].fd>> /\ Reported
                    \/ h = <<"main", c>> /\ InLoop
                    \/ \E i : h = <<"queued", i>> /\ Waits(i)
                    \/ \E w : h = <<"running", w>> /\ Has(w)
<1>1. \A h \in Handlers(c) : Is(h) BY DEF Handlers, Serves
<1>2. conn[c].fd \in Fds \cup {BadFd} /\ (conn[c].fd \in Fds => conn[c].exists)
  <2>1. conn[c].fd \in Fds \cup {BadFd} BY <1>0, Elements
  <2> QED BY <1>0, <2>1, Constants DEF Objects, NoObject
<1>3. conn[c].fd \in Fds /\ conn[c].fd \in DOMAIN connMap => connMap[conn[c].fd] = c
  BY <1>0, <1>2, Entry DEF Objects
<1>4. Reported => /\ conn[c].fd \in Fds /\ interest[conn[c].fd] = "off"
                  /\ cur # c
  <2> SUFFICES ASSUME NEW e \in batch, e.fd = conn[c].fd
               PROVE  conn[c].fd \in Fds /\ interest[conn[c].fd] = "off" /\ cur # c
    OBVIOUS
  <2>1. e.fd # ListenFd /\ e.fd \in Fds BY <1>0, <1>2, Elements, Constants
  <2> QED BY <1>0, <1>3, <2>1 DEF Events, EventPlace
<1>5. InLoop => ~Armed
  <2> SUFFICES ASSUME InLoop, Armed PROVE FALSE
    OBVIOUS
  <2>1. InTable(cur) BY <1>0, <1>3 DEF Table, InTable
  <2>2. cur \in Range(connMap) BY <2>1 DEF InTable, Range
  <2>3. pc[Main] \in MainStates /\ cur # NoConn BY <1>0, Constants DEF TypeOK
  <2> QED BY <1>0, <2>2, <2>3 DEF MainPlace, MainStates, Registered
<1>6. \A i : Waits(i) => /\ ~Armed /\ ~Reported /\ ~InLoop
                         /\ \A j : Waits(j) => j = i
                         /\ \A w : ~Has(w)
  BY <1>0 DEF Queued, TaskPlace, Registered, AllApart, Apart
<1>7. \A w : Has(w) => /\ ~Armed /\ ~Reported /\ ~InLoop
                       /\ \A v : Has(v) => v = w
  <2> SUFFICES ASSUME NEW w, Has(w)
               PROVE  /\ ~Armed /\ ~Reported /\ ~InLoop
                      /\ \A v : Has(v) => v = w
    OBVIOUS
  <2>1. ~Armed BY <1>0, ServedDisarmed
  <2> QED BY <1>0, <2>1 DEF AllApart, Apart
<1> HIDE DEF Armed, Reported, InLoop, Waits, Has
<1>8. ~(Armed /\ Reported) /\ ~(Reported /\ InLoop) BY <1>4 DEF Armed, InLoop
<1> QED BY <1>1, <1>5, <1>6, <1>7, <1>8

\* EPOLLONESHOT hands each connection to one thread at a time: nothing else handles it,
\* or is about to, until that thread has rearmed it (Server.cpp:60-92,160).
THEOREM OneThreadHandles == Spec => []OneHandler
<1>1. ServerInv => OneHandler
  <2> SUFFICES ASSUME ServerInv, NEW c \in Conns PROVE Cardinality(Handlers(c)) <= 1
    BY DEF OneHandler
  <2>1. CASE Handlers(c) = {} BY <2>1, FS_EmptySet
  <2>2. ASSUME NEW h \in Handlers(c) PROVE Cardinality(Handlers(c)) <= 1
    <3>1. Handlers(c) = {h} BY HandlersAlike
    <3>2. Cardinality({h}) = 1 BY FS_Singleton
    <3> QED BY <3>1, <3>2
  <2> QED BY <2>1, <2>2
<1> QED BY <1>1, ServerInvAlways, PTL

\* What is in connMap is armed or has a handler: no connection is forgotten
\* (Server.cpp:60-92).
THEOREM NothingForgotten == Spec => []NoOrphan
<1>1. ServerInv => NoOrphan
  <2> SUFFICES ASSUME ServerInv, NEW f \in DOMAIN connMap \ {BadFd}
               PROVE  Handlers(connMap[f]) # {}
    BY DEF NoOrphan
  <2>0. TypeOK /\ Objects /\ Table /\ MainPlace /\ Kept(f)
    BY DEF ServerInv, Placed, AllKept
  <2> DEFINE c == connMap[f]
  <2>1. f \in Fds /\ conn[c].fd = f BY <2>0, Entry
  <2>2. CASE interest[f] \in {"in", "out"}
    <3>1. <<"armed", f>> \in Handlers(c) BY <2>1, <2>2 DEF Handlers
    <3> QED BY <3>1
  <2>3. ASSUME NEW e \in batch, e.fd = f PROVE Handlers(c) # {}
    <3>1. <<"event", e.fd>> \in Handlers(c) BY <2>1, <2>3 DEF Handlers
    <3> QED BY <3>1
  <2>4. CASE cur = c
    <3>1. CASE pc[Main] = "accept_nonblock" BY <2>0, <2>1, <2>2, <2>4, <3>1 DEF MainPlace
    <3>2. CASE pc[Main] # "accept_nonblock"
      <4>1. <<"main", c>> \in Handlers(c) BY <2>4, <3>2 DEF Handlers
      <4> QED BY <4>1
    <3> QED BY <3>1, <3>2
  <2>5. ASSUME NEW i \in DOMAIN mTasks, mTasks[i].conn = c PROVE Handlers(c) # {}
    <3>1. <<"queued", i>> \in Handlers(c) BY <2>5 DEF Handlers
    <3> QED BY <3>1
  <2>6. ASSUME NEW w \in Workers, Serves(w), running[w].conn = c PROVE Handlers(c) # {}
    <3>1. <<"running", w>> \in Handlers(c) BY <2>6 DEF Handlers, Serves
    <3> QED BY <3>1
  <2> QED BY <2>0, <2>2, <2>3, <2>4, <2>5, <2>6 DEF Kept
<1> QED BY <1>1, ServerInvAlways, PTL

\* The entry the event loop reads without mapLock is there, and is not the one a worker
\* is erasing (Server.cpp:128,134,137).
THEOREM EntryIsThere == Spec => []EventHasEntry
<1>1. ServerInv => EventHasEntry
  <2> SUFFICES ASSUME ServerInv, NEW e \in batch, e.fd # ListenFd
               PROVE  /\ e.fd \in DOMAIN connMap
                      /\ \A w \in Workers : pc[w] \in {"close_lock", "close_del", "close_erase"} =>
                                             conn[running[w].conn].fd # e.fd
    BY DEF EventHasEntry
  <2>0. AtWork /\ Events /\ AllApart BY DEF ServerInv, Placed
  <2>1. e.fd \in DOMAIN connMap BY <2>0 DEF Events, EventPlace
  <2>2. ASSUME NEW w \in Workers, pc[w] \in {"close_lock", "close_del", "close_erase"}
        PROVE  conn[running[w].conn].fd # e.fd
    <3>1. Serves(w) BY <2>0, <2>2 DEF AtWork, WorkerPlace, Serves
    <3> QED BY <2>0, <3>1 DEF AllApart, Apart
  <2> QED BY <2>1, <2>2
<1> QED BY <1>1, ServerInvAlways, PTL

\* A rearm, also the one after CloseConn (Server.cpp:88), finds its Connection alive and
\* on its descriptor no registration but its own.
THEOREM RearmIsOwn == Spec => []RearmsOwn
<1>1. ServerInv => RearmsOwn
  <2> SUFFICES ASSUME ServerInv, NEW w \in Workers, pc[w] = "rearm"
               PROVE  /\ conn[running[w].conn].exists
                      /\ interest[conn[running[w].conn].fd] # "none" =>
                             running[w].conn \in Range(connMap)
    BY DEF RearmsOwn
  <2>0. TypeOK /\ Objects /\ WorkerPlace(w) BY DEF ServerInv, Placed, AtWork
  <2>1. running[w] # NoTask BY <2>0 DEF WorkerPlace
  <2>2. conn[running[w].conn].exists BY <2>0, <2>1, Elements, References DEF Objects
  <2> QED BY <2>0, <2>2 DEF WorkerPlace, Registered, InTable, Range
<1> QED BY <1>1, ServerInvAlways, PTL

\* A handler comes to recv with input to read, and to recv and send with a descriptor
\* that does not block (Server.cpp:64,161,167).
THEOREM HandlersAreReady == Spec => []HandlerReady
<1>1. ServerInv => HandlerReady
  <2> SUFFICES ASSUME ServerInv, NEW w \in Workers, pc[w] \in {"recv", "send"}
               PROVE  /\ conn[running[w].conn].nonblock
                      /\ pc[w] = "recv" => conn[running[w].conn].data
    BY DEF HandlerReady
  <2>0. WorkerPlace(w) /\ AllApart /\ AllUnblocked BY DEF ServerInv, Placed, AtWork
  <2>1. Serves(w) /\ Registered(running[w].conn, "off") BY <2>0 DEF WorkerPlace, Serves
  <2>2. cur # running[w].conn BY <2>0, <2>1 DEF AllApart, Apart
  <2>3. conn[running[w].conn].nonblock
    BY <2>0, <2>1, <2>2, Constants DEF AllUnblocked, Unblocked, Registered, InTable
  <2> QED BY <2>0, <2>3 DEF WorkerPlace
<1> QED BY <1>1, ServerInvAlways, PTL

-----------------------------------------------------------------------------
(* mapLock.                                                                  *)

\* The critical sections of mapLock.
Writes(x) == pc[x] \in {"accept_insert", "close_del", "close_erase"}

\* connMap is written by one thread at a time, also when main closes one connection
\* while workers close others (Server.cpp:99,120).
WritersExclusive == \A x \in Threads : mapLock = x <=> Writes(x)

\* A step that leaves mapLock alone neither enters nor leaves a critical section, one
\* that takes it does so for its thread, and one that releases it was in it.
LEMMA LockTurns ==
    ASSUME TypeOK, [Next]_vars
    PROVE  \/ UNCHANGED mapLock /\ \A x \in Threads : Writes(x)' = Writes(x)
           \/ \E x \in Threads : /\ mapLock = NoConn /\ mapLock' = x /\ Writes(x)'
                                /\ \A y \in Threads \ {x} : Writes(y)' = Writes(y)
           \/ \E x \in Threads : /\ Writes(x) /\ ~Writes(x)' /\ mapLock' = NoConn
                                /\ \A y \in Threads \ {x} : Writes(y)' = Writes(y)
<1> DEFINE Keeps == UNCHANGED mapLock /\ \A x \in Threads : Writes(x)' = Writes(x)
           Takes(x) == /\ mapLock = NoConn /\ mapLock' = x /\ Writes(x)'
                       /\ \A y \in Threads \ {x} : Writes(y)' = Writes(y)
           Leaves(x) == /\ Writes(x) /\ ~Writes(x)' /\ mapLock' = NoConn
                        /\ \A y \in Threads \ {x} : Writes(y)' = Writes(y)
<1>0. pc \in [Threads -> MainStates \cup WorkerStates] BY DEF TypeOK
\* A step of x from one place to another.
<1>1. ASSUME NEW x \in Threads, NEW label, Goto(x, label)
      PROVE  /\ pc'[x] = label
             /\ \A y \in Threads \ {x} : pc'[y] = pc[y]
             /\ \A y \in Threads \ {x} : Writes(y)' = Writes(y)
  BY <1>0, <1>1 DEF Goto, Writes
<1>2. ASSUME NEW x \in Threads, NEW label, Goto(x, label), UNCHANGED mapLock,
             pc[x] = "close_del" \/ ~Writes(x),
             label = "close_erase" <=> pc[x] = "close_del",
             label \notin {"accept_insert", "close_del"}
      PROVE  Keeps
  <2>1. Writes(x)' = Writes(x) BY <1>1, <1>2 DEF Writes
  <2> QED BY <1>1, <1>2, <2>1
<1>3. ASSUME UNCHANGED <<pc, mapLock>> PROVE Keeps
  BY <1>3 DEF Writes
<1>4. CASE UNCHANGED vars
  BY <1>3, <1>4 DEF vars, table
<1>5. CASE Peer
  BY <1>3, <1>5 DEF Peer, PeerConnect, PeerSend, PeerClose, table
<1>6. ASSUME NEW x \in Threads, Shutdown(x) \/ CloseDel(x) PROVE Keeps
  BY <1>2, <1>6 DEF Shutdown, CloseDel, table, Writes
<1>7. ASSUME NEW x \in Threads, CloseLock(x) PROVE Takes(x)
  BY <1>1, <1>7 DEF CloseLock, Lock, Writes
<1>8. ASSUME NEW x \in Threads, CloseErase(x) PROVE Leaves(x)
  <2>1. \E label \in {"next", "return", "rearm"} : Goto(x, label)
    BY <1>8 DEF CloseErase
  <2>2. pc[x] = "close_erase" /\ mapLock' = NoConn
    BY <1>8 DEF CloseErase, Unlock
  <2> QED BY <1>1, <2>1, <2>2 DEF Writes
<1>9. CASE MainStep
  <2> USE Constants
  <2>1. CASE EpollWait BY <1>2, <2>1 DEF EpollWait, table, Writes
  <2>2. CASE BatchDone BY <1>2, <2>2 DEF BatchDone, table, Writes
  <2>3. ASSUME NEW e \in batch, Accept(e) PROVE Keeps
    BY <1>2, <2>3 DEF Accept, table, Writes
  <2>4. ASSUME NEW e \in batch, Lookup(e) PROVE Keeps
    <3>1. \E label \in {"shutdown", "add_task"} : Goto(Main, label)
      BY <2>4 DEF Lookup
    <3> QED BY <1>2, <2>4, <3>1 DEF Lookup, table, Writes
  <2>5. ASSUME NEW e \in batch, LookupCrash(e) PROVE Keeps
    BY <1>3, <2>5 DEF LookupCrash, table
  <2>6. CASE AcceptLock
    <3>1. Takes(Main) BY <1>1, <2>6 DEF AcceptLock, Lock, Writes
    <3> QED BY <3>1
  <2>7. CASE AcceptInsert
    <3>1. Leaves(Main) BY <1>1, <2>7 DEF AcceptInsert, Unlock, Writes
    <3> QED BY <3>1
  <2>8. CASE AcceptAdd BY <1>2, <2>8 DEF AcceptAdd, table, Writes
  <2>9. CASE AcceptNonblock BY <1>2, <2>9 DEF AcceptNonblock, table, Writes
  <2>10. CASE AddTask BY <1>2, <2>10 DEF AddTask, table, Writes
  <2> QED
    BY <1>6, <1>7, <1>8, <1>9, <2>1, <2>2, <2>3, <2>4, <2>5, <2>6, <2>7, <2>8, <2>9, <2>10
       DEF MainStep
<1>10. ASSUME NEW w \in Workers, WorkerStep(w)
       PROVE  Keeps \/ Takes(w) \/ Leaves(w)
  <2> w \in Threads BY DEF Threads
  <2>1. CASE TakeTask(w)
    <3>1. \E label \in {"recv", "send"} : Goto(w, label) BY <2>1 DEF TakeTask
    <3> QED BY <1>2, <2>1, <3>1 DEF TakeTask, table, Writes
  <2>2. CASE Recv(w)
    <3>1. \E label \in {"read_cb", "shutdown"} : Goto(w, label) BY <2>2 DEF Recv
    <3> QED BY <1>2, <2>2, <3>1 DEF Recv, table, Writes
  <2>3. CASE ReadCb(w)
    <3>1. UNCHANGED pc \/ Goto(w, "rearm") BY <2>3 DEF ReadCb, Then
    <3>2. pc[w] = "read_cb" /\ UNCHANGED mapLock BY <2>3 DEF ReadCb, table
    <3> QED BY <1>2, <1>3, <3>1, <3>2 DEF Writes
  <2>4. CASE Send(w)
    <3>1. \/ UNCHANGED pc
          \/ \E label \in {"shutdown", "rearm", "write_cb"} : Goto(w, label)
      BY <2>4 DEF Send
    <3>2. pc[w] = "send" /\ UNCHANGED mapLock BY <2>4 DEF Send, table
    <3> QED BY <1>2, <1>3, <3>1, <3>2 DEF Writes
  <2>5. CASE WriteCb(w)
    <3>1. \E label \in {"rearm", "shutdown"} : Goto(w, label) BY <2>5 DEF WriteCb
    <3> QED BY <1>2, <2>5, <3>1 DEF WriteCb, table, Writes
  <2>6. CASE Rearm(w) BY <1>2, <2>6 DEF Rearm, table, Writes
  <2>7. CASE Return(w) BY <1>2, <2>7 DEF Return, table, Writes
  <2> QED
    BY <1>6, <1>7, <1>8, <1>10, <2>1, <2>2, <2>3, <2>4, <2>5, <2>6, <2>7 DEF WorkerStep
<1> QED
  <2>1. Workers \subseteq Threads BY DEF Threads
  <2>2. Keeps \/ \E x \in Threads : Takes(x) \/ Leaves(x)
    BY <1>4, <1>5, <1>9, <1>10, <2>1 DEF Next
  <2> QED BY <2>2

\* mapLock, taken and released in CloseConn and in the accept branch, keeps the
\* threads that change connMap apart (Server.cpp:99-102,120-122).
THEOREM OneWriter == Spec => []WritersExclusive
<1>1. Init => WritersExclusive
  BY Constants DEF Init, WritersExclusive, Writes
<1>2. TypeOK /\ WritersExclusive /\ [Next]_vars => WritersExclusive'
  <2> SUFFICES ASSUME TypeOK, WritersExclusive, [Next]_vars
               PROVE  \A x \in Threads : mapLock' = x <=> Writes(x)'
    BY DEF WritersExclusive, Writes
  <2>1. \A x \in Threads : mapLock = x <=> Writes(x)
    BY DEF WritersExclusive, Writes
  <2> QED BY <2>1, LockTurns, Constants
<1> QED BY <1>1, <1>2, ServerTypes, PTL DEF Spec

\* The event loop waits before a full queue for workers, and workers wait for mapLock:
\* whoever is waited for can go on (Server.cpp:99,120,134,137).
THEOREM NobodyIsStuck == Spec => []NoCircle
<1>1. TypeOK /\ WritersExclusive => NoCircle
  <2> SUFFICES ASSUME TypeOK, WritersExclusive PROVE NoCircle
    OBVIOUS
  <2>1. mapLock # NoConn => mapLock \in Threads /\ Writes(mapLock)
    BY DEF TypeOK, WritersExclusive, Writes
  <2>2. mapLock # NoConn => ~Blocked(mapLock)
    BY <2>1 DEF Blocked, Writes
  <2>3. ASSUME pc[Main] = "add_task", Blocked(Main) PROVE \E w \in Workers : ~Blocked(w)
    <3>1. mTasks # <<>>
      BY <2>3, ServerAssumption DEF Blocked, TypeOK, ServerAssumption
    <3>2. CASE mapLock = NoConn
      <4>1. PICK w \in Workers : TRUE BY ServerAssumption DEF ServerAssumption
      <4>2. pc[w] # "add_task" BY DEF TypeOK, WorkerStates
      <4> QED BY <3>1, <3>2, <4>1, <4>2 DEF Blocked
    <3>3. CASE mapLock # NoConn
      <4>1. mapLock \in Workers BY <2>1, <2>3, <3>3 DEF Threads, Writes
      <4> QED BY <2>2, <3>3, <4>1
    <3> QED BY <3>2, <3>3
  <2> QED BY <2>2, <2>3 DEF NoCircle
<1> QED BY <1>1, ServerTypes, OneWriter, PTL

=============================================================================
