-------------------------- MODULE ServerLifeProofs --------------------------
(***************************************************************************)
(* Server implements ConnectionLife, for any number of workers, of         *)
(* descriptors and of connections.  Life depends on four facts about a     *)
(* connection, and ServerInv says, for the connection a step is about,     *)
(* which of them hold before and after it; for every other connection the  *)
(* step changes none.                                                      *)
(***************************************************************************)
EXTENDS ServerProofs

-----------------------------------------------------------------------------
(* The four facts.                                                           *)

IsOpen(c) == conn[c].exists /\ conn[c].fd # BadFd
IsOwned(c) == c \in Range(connMap) \cup Accepting
IsArmed(c) == interest[conn[c].fd] \in {"in", "out"}

\* What can have become of connection c in a step, as ConnectionLife has it.
Moves(c) == Life(c)' = Life(c) \/ Lives!Step(c)

\* None of the facts changes that Life depends on.
Alone(c) ==
    /\ IsOpen(c)' = IsOpen(c)
    /\ IsOpen(c) => /\ IsOwned(c)' = IsOwned(c)
                    /\ IsArmed(c)' = IsArmed(c)
                    /\ IsReported(c)' = IsReported(c)

LEMMA AloneMoves ==
    ASSUME NEW c \in Conns, Alone(c)
    PROVE  Moves(c)
<1>1. IsOpen(c)' <=> IsOpen(c) BY DEF Alone
<1>2. IsOpen(c) => /\ IsOwned(c)' <=> IsOwned(c)
                   /\ IsArmed(c)' <=> IsArmed(c)
                   /\ IsReported(c)' <=> IsReported(c)
  BY DEF Alone
<1>3. Life(c) = IF ~IsOpen(c) THEN "none" ELSE IF ~IsOwned(c) THEN "closed"
                ELSE IF IsArmed(c) THEN "waiting"
                ELSE IF IsReported(c) THEN "reported" ELSE "held"
  BY DEF Life, IsOpen, IsOwned, IsArmed
<1>4. Life(c)' = IF ~IsOpen(c)' THEN "none" ELSE IF ~IsOwned(c)' THEN "closed"
                 ELSE IF IsArmed(c)' THEN "waiting"
                 ELSE IF IsReported(c)' THEN "reported" ELSE "held"
  BY DEF Life, IsOpen, IsOwned, IsArmed
<1> QED BY <1>1, <1>2, <1>3, <1>4 DEF Moves

\* A move of ConnectionLife.
LEMMA StepMoves ==
    ASSUME NEW c \in Conns,
           \/ Life(c) = "none" /\ Life(c)' = "held"
           \/ Life(c) = "held" /\ Life(c)' = "waiting"
           \/ Life(c) = "waiting" /\ Life(c)' = "reported"
           \/ Life(c) = "reported" /\ Life(c)' = "held"
           \/ Life(c) = "held" /\ Life(c)' = "closed"
           \/ Life(c) = "held" /\ Life(c)' = "none"
           \/ Life(c) = "closed" /\ Life(c)' = "none"
    PROVE  Moves(c)
BY DEF Moves, Lives!Step, Lives!Open, Lives!Wait, Lives!Report, Lives!Handle, Lives!Close,
       Lives!Free, Lives!Move

-----------------------------------------------------------------------------
(* The steps that move no connection.                                        *)

\* What a step may write into an object that stays.
LEMMA FieldKept ==
    ASSUME TypeOK, NEW d, NEW v,
           \/ conn' = [conn EXCEPT ![d].data = v]
           \/ conn' = [conn EXCEPT ![d].hup = v]
           \/ conn' = [conn EXCEPT ![d].nonblock = v]
    PROVE  \A c \in Conns : conn'[c].fd = conn[c].fd /\ conn'[c].exists = conn[c].exists
<1> TAKE c \in Conns
<1>1. CASE conn' = [conn EXCEPT ![d].data = v] BY <1>1 DEF TypeOK
<1>2. CASE conn' = [conn EXCEPT ![d].hup = v] BY <1>2 DEF TypeOK
<1>3. CASE conn' = [conn EXCEPT ![d].nonblock = v] BY <1>3 DEF TypeOK
<1> QED BY <1>1, <1>2, <1>3

LEMMA AllAlone ==
    ASSUME TypeOK,
           UNCHANGED <<interest, batch, connMap, mTasks>>,
           \A c \in Conns : conn'[c].fd = conn[c].fd /\ conn'[c].exists = conn[c].exists,
           Range(connMap) \cup Accepting' = Range(connMap) \cup Accepting,
           \A c \in Conns : c = cur' /\ pc'[Main] = "add_task" <=>
                            c = cur /\ pc[Main] = "add_task"
    PROVE  \A c \in Conns : Moves(c)
<1> SUFFICES ASSUME NEW c \in Conns PROVE Alone(c)
  BY AloneMoves
<1>1. IsOpen(c)' <=> IsOpen(c) BY DEF IsOpen
<1>2. IsOwned(c)' <=> IsOwned(c) BY DEF IsOwned
<1>3. IsArmed(c)' <=> IsArmed(c) BY DEF IsArmed
<1>4. IsReported(c)' <=> IsReported(c) BY DEF IsReported
<1> QED BY <1>1, <1>2, <1>3, <1>4 DEF Alone, IsOpen, IsOwned, IsArmed, IsReported

\* A peer's step, a thread's step within a handler, within the accept branch or within
\* CloseConn: the connection stays where it is.
LEMMA QuietMoves ==
    ASSUME ServerInv,
           \/ Peer \/ BatchDone \/ AcceptLock \/ AcceptNonblock
           \/ \E e \in batch : LookupCrash(e)
           \/ \E x \in Threads : Shutdown(x) \/ CloseLock(x)
           \/ \E w \in Workers : Recv(w) \/ ReadCb(w) \/ Send(w) \/ WriteCb(w)
    PROVE  \A c \in Conns : Moves(c)
<1> USE DEF sockets, loop, table, pool
<1>0. TypeOK /\ MainPlace BY DEF ServerInv, Placed
<1>1. UNCHANGED <<interest, batch, connMap, mTasks>>
  BY DEF Peer, PeerConnect, PeerSend, PeerClose, BatchDone, AcceptLock, AcceptNonblock,
         LookupCrash, Shutdown, CloseLock, Recv, ReadCb, Send, WriteCb
<1>2. \A c \in Conns : conn'[c].fd = conn[c].fd /\ conn'[c].exists = conn[c].exists
  <2>1. CASE UNCHANGED conn BY <2>1
  <2>2. ASSUME NEW d \in Conns, PeerSend(d) \/ PeerClose(d)
        PROVE  \A c \in Conns : conn'[c].fd = conn[c].fd /\ conn'[c].exists = conn[c].exists
    BY <1>0, <2>2, FieldKept DEF PeerSend, PeerClose
  <2>3. CASE AcceptNonblock
    <3>1. conn' = [conn EXCEPT ![cur].nonblock = (conn[cur].fd # BadFd)]
      BY <2>3 DEF AcceptNonblock, setnonblocking
    <3> QED BY <1>0, <3>1, FieldKept
  <2>4. ASSUME NEW x \in Threads, Shutdown(x)
        PROVE  \A c \in Conns : conn'[c].fd = conn[c].fd /\ conn'[c].exists = conn[c].exists
    BY <1>0, <2>4, FieldKept DEF Shutdown, ShutRd
  <2>5. ASSUME NEW w \in Workers, Recv(w)
        PROVE  \A c \in Conns : conn'[c].fd = conn[c].fd /\ conn'[c].exists = conn[c].exists
    <3>1. UNCHANGED conn \/ \E left \in BOOLEAN : conn' = [conn EXCEPT ![running[w].conn].data = left]
      BY <2>5 DEF Recv
    <3> QED BY <1>0, <2>1, <3>1, FieldKept
  <2> QED BY <2>1, <2>2, <2>3, <2>4, <2>5
          DEF Peer, PeerConnect, BatchDone, AcceptLock, LookupCrash, CloseLock, ReadCb, Send,
              WriteCb
<1>3. \/ AcceptNonblock
      \/ cur' = cur /\ pc'[Main] = pc[Main]
      \/ /\ cur' = cur
         /\ pc[Main] = "accept_lock" /\ pc'[Main] = "accept_insert"
      \/ /\ cur' = cur
         /\ pc[Main] \in {"next", "shutdown", "close_lock"}
         /\ pc'[Main] \in {"epoll_wait", "close_lock", "close_del"}
  <2>1. \A w \in Workers : w # Main BY Constants
  <2>2. ASSUME NEW w \in Workers, Recv(w) \/ ReadCb(w) \/ Send(w) \/ WriteCb(w)
        PROVE  cur' = cur /\ pc'[Main] = pc[Main]
    <3>1. cur' = cur BY <2>2 DEF Recv, ReadCb, Send, WriteCb
    <3>2. pc' = pc \/ \E label : pc' = [pc EXCEPT ![w] = label]
      <4>1. Recv(w) => \E label : pc' = [pc EXCEPT ![w] = label] BY Zenon DEF Recv, Goto
      <4>2. ReadCb(w) => pc' = pc \/ \E label : pc' = [pc EXCEPT ![w] = label]
        BY Zenon DEF ReadCb, Goto
      <4>3. Send(w) => pc' = pc \/ \E label : pc' = [pc EXCEPT ![w] = label]
        BY DEF Send, Goto
      <4>4. WriteCb(w) => \E label : pc' = [pc EXCEPT ![w] = label] BY Zenon DEF WriteCb, Goto
      <4> QED BY <2>2, <4>1, <4>2, <4>3, <4>4
    <3> QED BY <1>0, <2>1, <3>1, <3>2, Constants DEF TypeOK
  <2>3. ASSUME NEW x \in Threads, Shutdown(x) \/ CloseLock(x)
        PROVE  \/ cur' = cur /\ pc'[Main] = pc[Main]
               \/ /\ cur' = cur /\ pc[Main] \in {"shutdown", "close_lock"}
                  /\ pc'[Main] \in {"close_lock", "close_del"}
    BY <1>0, <2>3, Constants DEF Shutdown, CloseLock, Goto, TypeOK
  <2>4. ASSUME Peer \/ \E e \in batch : LookupCrash(e) PROVE cur' = cur /\ pc'[Main] = pc[Main]
    BY <2>4 DEF Peer, PeerConnect, PeerSend, PeerClose, LookupCrash
  <2>5. CASE BatchDone BY <1>0, <2>5, Constants DEF BatchDone, Goto, TypeOK
  <2>6. CASE AcceptLock BY <1>0, <2>6, Constants DEF AcceptLock, Goto, TypeOK
  <2> QED BY <2>2, <2>3, <2>4, <2>5, <2>6
<1>4. Range(connMap) \cup Accepting' = Range(connMap) \cup Accepting
  <2>1. CASE AcceptNonblock
    <3>1. pc[Main] = "accept_nonblock" /\ pc'[Main] = "next"
      BY <1>0, <2>1, Constants DEF AcceptNonblock, Goto, TypeOK
    <3>2. cur \in Range(connMap) BY <1>0, <3>1 DEF MainPlace, InTable, Range
    <3> QED BY <3>1, <3>2 DEF Accepting
  <2>2. CASE ~AcceptNonblock BY <1>3, <2>2 DEF Accepting
  <2> QED BY <2>1, <2>2
<1>5. \A c \in Conns : c = cur' /\ pc'[Main] = "add_task" <=> c = cur /\ pc[Main] = "add_task"
  <2>1. CASE AcceptNonblock
    <3>1. pc[Main] = "accept_nonblock" /\ pc'[Main] = "next"
      BY <1>0, <2>1, Constants DEF AcceptNonblock, Goto, TypeOK
    <3> QED BY <3>1
  <2>2. CASE ~AcceptNonblock BY <1>3, <2>2
  <2> QED BY <2>1, <2>2
<1> QED BY <1>0, <1>1, <1>2, <1>4, <1>5, AllAlone

-----------------------------------------------------------------------------
(* The steps that move one connection, or those that epoll_wait reports.     *)

\* What ServerInv says of an open connection.
LEMMA OpenIs ==
    ASSUME ServerInv, NEW c \in Conns, IsOpen(c)
    PROVE  /\ conn[c].fd \in Fds /\ conn[c].fd # ListenFd
           /\ c \in Range(connMap) <=> InTable(c)
           /\ interest[conn[c].fd] # "none" => InTable(c)
           /\ \A d \in Conns : conn[d].exists /\ conn[d].fd = conn[c].fd => d = c
           /\ \A e \in batch : e.fd = conn[c].fd => InTable(c) /\ interest[conn[c].fd] = "off"
<1>0. TypeOK /\ Objects /\ Table /\ Events BY DEF ServerInv, Placed
<1>1. conn[c].fd \in Fds /\ conn[c].fd # ListenFd
  BY <1>0, Elements, Constants DEF IsOpen
<1>2. \A d \in Conns : conn[d].exists /\ conn[d].fd = conn[c].fd => d = c
  BY <1>0, <1>1 DEF Objects, IsOpen
<1>3. conn[c].fd \in DOMAIN connMap => connMap[conn[c].fd] = c
  BY <1>0, <1>2, Entry
<1>4. c \in Range(connMap) <=> InTable(c)
  BY <1>0, Entry DEF Range, InTable
<1>5. interest[conn[c].fd] # "none" => InTable(c)
  BY <1>0, <1>1, <1>3 DEF Table, InTable
<1>6. \A e \in batch : e.fd = conn[c].fd => InTable(c) /\ interest[conn[c].fd] = "off"
  BY <1>0, <1>1, <1>3 DEF Events, EventPlace, InTable
<1> QED BY <1>1, <1>2, <1>4, <1>5, <1>6

\* What epoll_wait returns was waiting, and is reported.
LEMMA EpollWaitMoves ==
    ASSUME ServerInv, EpollWait
    PROVE  \A c \in Conns : Moves(c)
<1> SUFFICES ASSUME NEW c \in Conns PROVE Moves(c)
  OBVIOUS
<1> USE DEF table, pool
<1>0. TypeOK /\ Objects /\ Table /\ MainPlace BY DEF ServerInv, Placed
<1>1. UNCHANGED <<conn, cur, connMap, mTasks>> BY DEF EpollWait
<1>2. /\ pc[Main] = "epoll_wait" /\ pc'[Main] = "next" /\ batch = {}
  BY <1>0, Constants DEF EpollWait, Goto, TypeOK, MainPlace
<1>3. PICK fired \in SUBSET Fds :
        /\ \A f \in fired : Ready(f) \/ interest[f] = "out"
        /\ batch' = {Event(f) : f \in fired} \cup
                    (IF backlog > 0 THEN {[fd |-> ListenFd, kind |-> "in"]} ELSE {})
        /\ interest' = Harvested(fired)
  BY DEF EpollWait
<1>4. /\ \A f \in fired : interest[f] \in {"in", "out"} /\ interest'[f] = "off"
      /\ \A f \in Fds \ fired : interest'[f] = interest[f]
  BY <1>3 DEF Harvested, Ready
<1>5. /\ \A f \in fired : \E e \in batch' : e.fd = f
      /\ \A e \in batch' : e.fd = ListenFd \/ e.fd \in fired
  <2>1. \A f \in fired : Event(f).fd = f /\ Event(f) \in batch' BY <1>3 DEF Event
  <2>2. \A e \in batch' : \/ e = [fd |-> ListenFd, kind |-> "in"]
                          \/ \E f \in fired : e = Event(f)
    BY <1>3
  <2> QED BY <2>1, <2>2
<1>6. IsOpen(c)' <=> IsOpen(c) BY <1>1 DEF IsOpen
<1>7. IsOwned(c)' <=> IsOwned(c) BY <1>1, <1>2 DEF IsOwned, Accepting
<1>8. CASE ~IsOpen(c)
  <2>1. Alone(c) BY <1>6, <1>8 DEF Alone, IsOpen
  <2> QED BY <2>1, AloneMoves
<1>9. CASE IsOpen(c) /\ conn[c].fd \in fired
  <2>1. c \in Range(connMap) /\ interest[conn[c].fd] \in {"in", "out"}
    BY <1>4, <1>9, OpenIs
  <2>2. Life(c) = "waiting" BY <1>9, <2>1 DEF Life, IsOpen
  <2>3. Life(c)' = "reported" BY <1>1, <1>4, <1>5, <1>9, <2>1 DEF Life, IsOpen, IsReported
  <2> QED BY <2>2, <2>3, StepMoves
<1>10. CASE IsOpen(c) /\ conn[c].fd \notin fired
  <2>1. IsArmed(c)' <=> IsArmed(c) BY <1>1, <1>4, <1>10, OpenIs DEF IsArmed
  <2>2. IsReported(c)' <=> IsReported(c)
    BY <1>1, <1>2, <1>5, <1>10, OpenIs DEF IsReported
  <2>3. Alone(c) BY <1>6, <1>7, <2>1, <2>2 DEF Alone, IsOpen, IsOwned, IsArmed, IsReported
  <2> QED BY <2>3, AloneMoves
<1> QED BY <1>8, <1>9, <1>10

\* accept makes the new connection, which the event loop has.
LEMMA AcceptMoves ==
    ASSUME ServerInv, NEW e \in batch, Accept(e)
    PROVE  \A c \in Conns : Moves(c)
<1> SUFFICES ASSUME NEW c \in Conns PROVE Moves(c)
  OBVIOUS
<1> USE DEF table, pool
<1>0. TypeOK /\ Objects /\ Table /\ MainPlace /\ Events BY DEF ServerInv, Placed
<1>1. UNCHANGED <<interest, connMap, mTasks>> BY DEF Accept
<1>2. /\ pc[Main] = "next" /\ pc'[Main] = "accept_lock" /\ cur = NoConn
      /\ e.fd = ListenFd /\ batch' = batch \ {e}
  BY <1>0, Constants DEF Accept, Goto, TypeOK, MainPlace
<1>3. cur' \in Conns /\ ~conn[cur'].exists BY Accepted
<1>4. PICK f \in Fds \cup {BadFd} :
        /\ \A d \in Conns : conn[d].exists /\ f \in Fds => conn[d].fd # f
        /\ conn' = [conn EXCEPT ![cur'] = NewObject(f)]
  BY Accepted
<1>5. /\ conn'[cur'].exists /\ conn'[cur'].fd = f
      /\ c # cur' => conn'[c] = conn[c]
  BY <1>0, <1>3, <1>4 DEF TypeOK, NewObject, NoObject
<1>6. Accepting = {} /\ Accepting' = {cur'} BY <1>2 DEF Accepting
<1>7. CASE c # cur'
  <2>1. IsOpen(c)' <=> IsOpen(c) BY <1>5, <1>7 DEF IsOpen
  <2>2. IsOwned(c)' <=> IsOwned(c) BY <1>1, <1>6, <1>7 DEF IsOwned
  <2>3. IsArmed(c)' <=> IsArmed(c) BY <1>1, <1>5, <1>7 DEF IsArmed
  <2>4. IsOpen(c) => (IsReported(c)' <=> IsReported(c))
    BY <1>1, <1>2, <1>5, <1>7, OpenIs DEF IsReported
  <2>5. Alone(c) BY <2>1, <2>2, <2>3, <2>4 DEF Alone, IsOpen, IsOwned, IsArmed, IsReported
  <2> QED BY <2>5, AloneMoves
<1>8. CASE c = cur' /\ f = BadFd
  <2>1. ~IsOpen(c) /\ ~IsOpen(c)' BY <1>3, <1>5, <1>8 DEF IsOpen
  <2>2. Alone(c) BY <2>1 DEF Alone, IsOpen
  <2> QED BY <2>2, AloneMoves
<1>9. CASE c = cur' /\ f # BadFd
  <2>1. f \in Fds /\ f \notin DOMAIN connMap BY <1>0, <1>4, <1>9, Entry
  <2>2. interest[f] = "none" BY <1>0, <2>1 DEF Table
  <2>3. \A d \in batch' : d.fd # f
    BY <1>0, <1>2, <2>1, Constants DEF Events, EventPlace
  <2>4. \A i \in DOMAIN mTasks : mTasks[i].conn # c
    BY <1>0, <1>3, <1>9, References DEF Objects
  <2>5. ~IsReported(c)' BY <1>1, <1>2, <1>5, <1>9, <2>3, <2>4 DEF IsReported
  <2>6. Life(c) = "none" BY <1>3, <1>9 DEF Life
  <2>7. Life(c)' = "held"
    BY <1>1, <1>5, <1>6, <1>9, <2>2, <2>5 DEF Life
  <2> QED BY <2>6, <2>7, StepMoves
<1> QED BY <1>7, <1>8, <1>9

\* The event loop comes to an event: it closes the connection, or has it queued.
LEMMA LookupMoves ==
    ASSUME ServerInv, NEW e \in batch, Lookup(e)
    PROVE  \A c \in Conns : Moves(c)
<1> SUFFICES ASSUME NEW c \in Conns PROVE Moves(c)
  OBVIOUS
<1> USE DEF sockets, table, pool
<1>0. TypeOK /\ Objects /\ Table /\ MainPlace /\ Events /\ Queued
  BY DEF ServerInv, Placed
<1>1. UNCHANGED <<conn, interest, connMap, mTasks>> BY DEF Lookup
<1>2. /\ pc[Main] = "next" /\ pc'[Main] \in {"shutdown", "add_task"} /\ cur = NoConn
      /\ e.fd \in DOMAIN connMap /\ batch' = batch \ {e} /\ cur' = connMap[e.fd]
  BY <1>0, Constants DEF Lookup, Goto, TypeOK, MainPlace
<1>3. e.fd \in Fds
  BY <1>0, <1>2, Elements, Entry, Constants
<1>4. cur' \in Conns /\ conn[cur'].fd = e.fd /\ IsOpen(cur')
  BY <1>0, <1>2, <1>3, Entry, Constants DEF IsOpen
<1>5. IsOpen(c)' <=> IsOpen(c) BY <1>1 DEF IsOpen
<1>6. IsOwned(c)' <=> IsOwned(c) BY <1>1, <1>2 DEF IsOwned, Accepting
<1>7. IsArmed(c)' <=> IsArmed(c) BY <1>1 DEF IsArmed
<1>8. CASE c # cur'
  <2>1. IsOpen(c) => conn[c].fd # e.fd BY <1>2, <1>4, <1>8, OpenIs DEF IsOpen
  <2>2. IsOpen(c) => (IsReported(c)' <=> IsReported(c))
    BY <1>1, <1>2, <1>8, <2>1 DEF IsReported
  <2>3. Alone(c) BY <1>5, <1>6, <1>7, <2>2 DEF Alone, IsOpen, IsOwned, IsArmed, IsReported
  <2> QED BY <2>3, AloneMoves
<1>9. CASE c = cur'
  <2>1. /\ c \in Range(connMap) /\ interest[conn[c].fd] = "off"
        /\ \A d \in batch' : d.fd # conn[c].fd
        /\ \A i \in DOMAIN mTasks : mTasks[i].conn # c
    <3>1. interest[conn[c].fd] = "off" /\ c \in Range(connMap)
      BY <1>4, <1>9, OpenIs
    <3>2. \A d \in batch' : d.fd # conn[c].fd
      BY <1>0, <1>2, <1>3, <1>4, <1>9, Constants DEF Events, EventPlace
    <3>3. \A i \in DOMAIN mTasks : mTasks[i].conn # c
      BY <1>0, <1>4, <1>9 DEF Queued, TaskPlace
    <3> QED BY <3>1, <3>2, <3>3
  <2>2. Life(c) = "reported" BY <1>4, <1>9, <2>1 DEF Life, IsOpen, IsReported
  <2>3. Life(c)' = IF pc'[Main] = "add_task" THEN "reported" ELSE "held"
    BY <1>1, <1>4, <1>9, <2>1 DEF Life, IsOpen, IsReported
  <2> QED BY <2>2, <2>3, StepMoves DEF Moves
<1> QED BY <1>8, <1>9

\* AddTask leaves the connection reported.
LEMMA AddTaskMoves ==
    ASSUME ServerInv, AddTask
    PROVE  \A c \in Conns : Moves(c)
<1> SUFFICES ASSUME NEW c \in Conns PROVE Moves(c)
  OBVIOUS
<1> USE DEF sockets, table
<1>0. TypeOK /\ MainPlace BY DEF ServerInv, Placed
<1>1. UNCHANGED <<conn, interest, batch, connMap>> BY DEF AddTask
<1>2. /\ pc[Main] = "add_task" /\ pc'[Main] = "next" /\ todo.conn = cur /\ todo \in Tasks
      /\ mTasks \in Seq(Tasks) /\ mTasks' = Append(mTasks, todo)
  BY <1>0, Constants DEF AddTask, Goto, TypeOK, MainPlace, Pool!Put
<1>3. (\E i \in DOMAIN mTasks' : mTasks'[i].conn = c)
         <=> (\E i \in DOMAIN mTasks : mTasks[i].conn = c) \/ cur = c
  <2>1. /\ DOMAIN mTasks' = DOMAIN mTasks \cup {Len(mTasks) + 1}
        /\ mTasks'[Len(mTasks) + 1] = todo
        /\ \A i \in DOMAIN mTasks : mTasks'[i] = mTasks[i]
    BY <1>2
  <2> QED BY <1>2, <2>1
<1>4. IsOpen(c)' <=> IsOpen(c) BY <1>1 DEF IsOpen
<1>5. IsOwned(c)' <=> IsOwned(c) BY <1>1, <1>2 DEF IsOwned, Accepting
<1>6. IsArmed(c)' <=> IsArmed(c) BY <1>1 DEF IsArmed
<1>7. IsReported(c)' <=> IsReported(c) BY <1>1, <1>2, <1>3 DEF IsReported
<1>8. Alone(c) BY <1>4, <1>5, <1>6, <1>7 DEF Alone, IsOpen, IsOwned, IsArmed, IsReported
<1> QED BY <1>8, AloneMoves

\* AcceptInsert: the connection stays with the event loop, now by its entry too.
LEMMA AcceptInsertMoves ==
    ASSUME ServerInv, AcceptInsert
    PROVE  \A c \in Conns : Moves(c)
<1> SUFFICES ASSUME NEW c \in Conns PROVE Moves(c)
  OBVIOUS
<1> USE DEF loop, pool
<1>0. TypeOK /\ Objects /\ Table /\ MainPlace BY DEF ServerInv, Placed
<1>1. UNCHANGED <<batch, cur, mTasks, running, todo>> BY DEF AcceptInsert
<1>2. pc[Main] = "accept_insert" /\ pc'[Main] = "accept_add"
  BY <1>0, Constants DEF AcceptInsert, Goto, TypeOK
<1> DEFINE fd == conn[cur].fd
<1>3. cur \in Conns /\ cur \in Referenced /\ conn[cur].exists /\ cur \notin Range(connMap)
  BY <1>0, <1>2, Elements, References DEF MainPlace, Objects
<1>4. /\ DOMAIN connMap' = DOMAIN connMap \cup {fd} /\ connMap'[fd] = cur
      /\ \A g \in DOMAIN connMap \ {fd} : connMap'[g] = connMap[g]
  BY DEF AcceptInsert
<1>5. fd # BadFd => fd \notin DOMAIN connMap
  <2>1. fd # BadFd /\ fd \in DOMAIN connMap => connMap[fd] = cur
    BY <1>0, <1>3, Entry DEF Objects
  <2> QED BY <2>1, <1>3 DEF Range
<1> HIDE DEF fd
<1>6. Accepting' = {cur} /\ Accepting = {cur} /\ TaskConns' = TaskConns
  BY <1>1, <1>2 DEF Accepting, TaskConns
<1>7. Range(connMap') \subseteq Range(connMap) \cup {cur}
  BY <1>4 DEF Range
<1>8. \A d \in Conns : IsOpen(d) /\ d \in Range(connMap) => d \in Range(connMap')
  <2> SUFFICES ASSUME NEW g \in DOMAIN connMap, IsOpen(connMap[g])
               PROVE  connMap[g] \in Range(connMap')
    BY DEF Range
  <2>1. g # BadFd BY <1>0, Entry DEF IsOpen
  <2>2. g # fd BY <1>5, <2>1
  <2> QED BY <1>4, <2>2 DEF Range
<1>9. /\ interest' = interest
      /\ \A d \in Conns : d \in Referenced' => conn'[d] = conn[d]
      /\ \A d \in Conns : d \notin Referenced' => conn'[d] = NoObject
  <2>1. Destroy BY DEF AcceptInsert
  <2>2. Referenced' \subseteq Referenced BY <1>3, <1>6, <1>7 DEF Referenced
  <2>3. \A g \in Fds : interest[g] # "none" =>
           g \in DOMAIN connMap' /\ connMap'[g] \in Conns /\ conn[connMap'[g]].fd = g
    <3> TAKE g \in Fds
    <3> HAVE interest[g] # "none"
    <3>1. g \in DOMAIN connMap /\ connMap[g] \in Conns /\ conn[connMap[g]].fd = g /\ g # BadFd
      BY <1>0, Entry, Constants DEF Table
    <3> QED BY <1>4, <1>5, <3>1
  <2> QED BY <1>0, <2>1, <2>2, <2>3, DestroyKeeps
<1>10. CASE ~IsOpen(c)
  <2>1. ~IsOpen(c)' BY <1>9, <1>10 DEF IsOpen, NoObject
  <2>2. Alone(c) BY <1>10, <2>1 DEF Alone, IsOpen
  <2> QED BY <2>2, AloneMoves
<1>11. CASE IsOpen(c)
  <2>1. conn'[c] = conn[c]
    <3>1. c \in Referenced BY <1>0, <1>11 DEF Objects, IsOpen
    <3>2. c \in Referenced' BY <1>6, <1>8, <1>11, <3>1 DEF Referenced
    <3> QED BY <1>9, <3>2
  <2>2. IsOpen(c)' <=> IsOpen(c) BY <2>1 DEF IsOpen
  <2>3. IsOwned(c)' <=> IsOwned(c) BY <1>6, <1>7, <1>8, <1>11 DEF IsOwned
  <2>4. IsArmed(c)' <=> IsArmed(c) BY <1>9, <2>1 DEF IsArmed
  <2>5. IsReported(c)' <=> IsReported(c) BY <1>1, <1>2, <2>1 DEF IsReported
  <2>6. Alone(c) BY <2>2, <2>3, <2>4, <2>5 DEF Alone, IsOpen, IsOwned, IsArmed, IsReported
  <2> QED BY <2>6, AloneMoves
<1> QED BY <1>10, <1>11

\* epoll_add lets the new connection wait.
LEMMA AcceptAddMoves ==
    ASSUME ServerInv, AcceptAdd
    PROVE  \A c \in Conns : Moves(c)
<1> SUFFICES ASSUME NEW c \in Conns PROVE Moves(c)
  OBVIOUS
<1> USE DEF loop, pool, table
<1>0. TypeOK /\ Objects /\ Table /\ MainPlace /\ Events /\ Queued BY DEF ServerInv, Placed
<1>1. UNCHANGED <<conn, batch, cur, connMap, mTasks>> BY DEF AcceptAdd
<1>2. /\ pc[Main] = "accept_add" /\ pc'[Main] = "accept_nonblock"
      /\ cur \in Conns /\ InTable(cur)
      /\ conn[cur].fd \in Fds => interest[conn[cur].fd] = "none"
  BY <1>0, Constants DEF AcceptAdd, Goto, TypeOK, MainPlace
<1>3. \A g \in Fds : interest'[g] = IF g = conn[cur].fd THEN "in" ELSE interest[g]
  BY DEF AcceptAdd
<1>4. IsOpen(c)' <=> IsOpen(c) BY <1>1 DEF IsOpen
<1>5. IsOwned(c)' <=> IsOwned(c) BY <1>1, <1>2 DEF IsOwned, Accepting
<1>6. IsReported(c)' <=> IsReported(c) BY <1>1, <1>2 DEF IsReported
<1>7. conn[cur].exists BY <1>0, <1>2, References DEF InTable, Objects
<1>8. CASE ~IsOpen(c) \/ c # cur
  <2>1. IsOpen(c) => (IsArmed(c)' <=> IsArmed(c))
    <3> SUFFICES ASSUME IsOpen(c) PROVE IsArmed(c)' <=> IsArmed(c)
      OBVIOUS
    <3>1. conn[c].fd \in Fds /\ conn[c].fd # conn[cur].fd BY <1>2, <1>7, <1>8, OpenIs
    <3> QED BY <1>1, <1>3, <3>1 DEF IsArmed
  <2>2. Alone(c) BY <1>4, <1>5, <1>6, <2>1 DEF Alone, IsOpen, IsOwned, IsArmed, IsReported
  <2> QED BY <2>2, AloneMoves
<1>9. CASE IsOpen(c) /\ c = cur
  <2>1. conn[c].fd \in Fds /\ c \in Range(connMap) BY <1>2, <1>9, OpenIs
  <2>2. ~IsReported(c) BY <1>0, <1>2, <1>9, <2>1, OpenIs DEF IsReported, Queued, TaskPlace
  <2>3. Life(c) = "held" BY <1>2, <1>9, <2>1, <2>2 DEF Life, IsOpen
  <2>4. Life(c)' = "waiting" BY <1>1, <1>3, <1>9, <2>1 DEF Life, IsOpen
  <2> QED BY <2>3, <2>4, StepMoves
<1> QED BY <1>8, <1>9

\* A worker takes the task of a reported connection.
LEMMA TakeTaskMoves ==
    ASSUME ServerInv, NEW w \in Workers, TakeTask(w)
    PROVE  \A c \in Conns : Moves(c)
<1> SUFFICES ASSUME NEW c \in Conns PROVE Moves(c)
  OBVIOUS
<1> USE DEF sockets, loop, table
<1>0. TypeOK /\ Objects /\ Table /\ MainPlace /\ Events /\ Queued BY DEF ServerInv, Placed
<1>1. UNCHANGED <<conn, interest, batch, cur, connMap>> /\ pc'[Main] = pc[Main]
  BY <1>0, Constants DEF TakeTask, Goto, TypeOK
<1>2. mTasks \in Seq(Tasks) /\ mTasks # <<>> /\ mTasks' = Tail(mTasks)
  BY <1>0 DEF TypeOK, TakeTask, Pool!Take
<1>3. /\ 1 \in DOMAIN mTasks
      /\ \A i \in DOMAIN mTasks' : i + 1 \in DOMAIN mTasks /\ i + 1 # 1 /\ mTasks'[i] = mTasks[i + 1]
      /\ \A i \in DOMAIN mTasks \ {1} : \E j \in DOMAIN mTasks' : i = j + 1
  <2>1. /\ DOMAIN mTasks = 1..Len(mTasks) /\ Len(mTasks) \in Nat
        /\ DOMAIN mTasks' = 1..(Len(mTasks) - 1)
        /\ 1 \in DOMAIN mTasks
        /\ \A i \in DOMAIN mTasks' : i + 1 \in DOMAIN mTasks /\ i + 1 # 1 /\ mTasks'[i] = mTasks[i + 1]
    BY <1>2
  <2>2. ASSUME NEW i \in DOMAIN mTasks \ {1} PROVE \E j \in DOMAIN mTasks' : i = j + 1
    <3>1. i - 1 \in DOMAIN mTasks' /\ i = (i - 1) + 1 BY <2>1
    <3> QED BY <3>1
  <2> QED BY <2>1, <2>2
<1>4. IsOpen(c)' <=> IsOpen(c) BY <1>1 DEF IsOpen
<1>5. IsOwned(c)' <=> IsOwned(c) BY <1>1 DEF IsOwned, Accepting
<1>6. IsArmed(c)' <=> IsArmed(c) BY <1>1 DEF IsArmed
<1>7. CASE c # mTasks[1].conn
  <2>1. (\E i \in DOMAIN mTasks' : mTasks'[i].conn = c) <=> (\E i \in DOMAIN mTasks : mTasks[i].conn = c)
    BY <1>3, <1>7
  <2>2. IsReported(c)' <=> IsReported(c) BY <1>1, <2>1 DEF IsReported
  <2>3. Alone(c) BY <1>4, <1>5, <1>6, <2>2 DEF Alone, IsOpen, IsOwned, IsArmed, IsReported
  <2> QED BY <2>3, AloneMoves
<1>8. CASE c = mTasks[1].conn
  <2>1. TaskPlace(1) BY <1>0, <1>3 DEF Queued
  <2>2. /\ conn[c].fd \in Fds /\ InTable(c) /\ interest[conn[c].fd] = "off"
        /\ cur # c /\ \A e \in batch : e.fd # conn[c].fd
        /\ \A i \in DOMAIN mTasks' : mTasks'[i].conn # c
    BY <1>3, <1>8, <2>1 DEF TaskPlace, Registered
  <2>3. IsOpen(c) BY <1>0, <2>2, References, Constants DEF IsOpen, InTable, Objects
  <2>4. c \in Range(connMap) BY <2>2 DEF InTable, Range
  <2>5. Life(c) = "reported" BY <1>3, <1>8, <2>2, <2>3, <2>4 DEF Life, IsOpen, IsReported
  <2>6. Life(c)' = "held" BY <1>1, <2>2, <2>3, <2>4 DEF Life, IsOpen, IsReported
  <2> QED BY <2>5, <2>6, StepMoves
<1> QED BY <1>7, <1>8

\* EPOLL_CTL_DEL on a connection that is disarmed anyway.
LEMMA CloseDelMoves ==
    ASSUME ServerInv, NEW x \in Threads, CloseDel(x)
    PROVE  \A c \in Conns : Moves(c)
<1> SUFFICES ASSUME NEW c \in Conns PROVE Moves(c)
  OBVIOUS
<1> USE DEF loop, pool, table
<1>0. TypeOK BY DEF ServerInv
<1>1. UNCHANGED <<conn, batch, cur, connMap, mTasks>> BY DEF CloseDel
<1>2. /\ pc[x] = "close_del"
      /\ IF x = Main THEN pc[Main] = "close_del" /\ pc'[Main] = "close_erase"
         ELSE pc'[Main] = pc[Main]
  BY <1>0, Constants DEF CloseDel, Goto, TypeOK
<1> DEFINE d == Closing(x)
<1>3. conn[d].fd \in Fds /\ interest[conn[d].fd] = "off"
  BY <1>2, ClosingIs DEF Registered
<1>4. \A g \in Fds : interest'[g] = IF g = conn[d].fd THEN "none" ELSE interest[g]
  BY DEF CloseDel, Deleted
<1> HIDE DEF d
<1>5. IsOpen(c)' <=> IsOpen(c) BY <1>1 DEF IsOpen
<1>6. IsOwned(c)' <=> IsOwned(c) BY <1>1, <1>2 DEF IsOwned, Accepting
<1>7. IsReported(c)' <=> IsReported(c) BY <1>1, <1>2 DEF IsReported
<1>8. IsOpen(c) => (IsArmed(c)' <=> IsArmed(c))
  BY <1>1, <1>3, <1>4, OpenIs DEF IsArmed
<1>9. Alone(c) BY <1>5, <1>6, <1>7, <1>8 DEF Alone, IsOpen, IsOwned, IsArmed, IsReported
<1> QED BY <1>9, AloneMoves

\* A connection is closed by the thread that has it, and freed then unless a handler
\* still refers to it.
LEMMA CloseEraseMoves ==
    ASSUME ServerInv, NEW x \in Threads, CloseErase(x)
    PROVE  \A c \in Conns : Moves(c)
<1> SUFFICES ASSUME NEW c \in Conns PROVE Moves(c)
  OBVIOUS
<1> USE DEF pool
<1>0. TypeOK /\ Objects /\ Table BY DEF ServerInv, Placed
<1>1. UNCHANGED <<batch, mTasks, running, todo>> BY DEF CloseErase
<1>2. /\ pc[x] = "close_erase"
      /\ IF x = Main THEN pc[Main] = "close_erase" /\ pc'[Main] = "next"
         ELSE pc'[Main] = pc[Main] /\ cur' = cur
  BY <1>0, Constants DEF CloseErase, Goto, TypeOK
<1> DEFINE d == Closing(x)
           fd == conn[d].fd
<1>3. /\ d \in Conns /\ conn[d].exists /\ fd \in Fds /\ InTable(d)
      /\ \A e \in batch : e.fd # fd
      /\ \A i \in DOMAIN mTasks : mTasks[i].conn # d
      /\ x # Main => cur # d
  BY <1>2, ClosingApart
<1>4. interest[fd] = "none" /\ (x = Main => d = cur)
  BY <1>2, ClosingIs DEF Registered, Closing
<1>5. /\ DOMAIN connMap' = DOMAIN connMap \ {fd}
      /\ \A g \in DOMAIN connMap \ {fd} : connMap'[g] = connMap[g]
  BY DEF CloseErase, Restrict
<1>6. fd = conn[d].fd OBVIOUS
<1> HIDE DEF d, fd
<1>7. Accepting' = Accepting BY <1>2 DEF Accepting
<1>8. Range(connMap') \subseteq Range(connMap) /\ TaskConns' = TaskConns
  BY <1>1, <1>5 DEF Range, TaskConns
<1>9. d \notin Range(connMap')
  BY <1>0, <1>5, <1>6, Entry DEF Range
<1>10. c # d => (c \in Range(connMap') <=> c \in Range(connMap))
  <2> SUFFICES ASSUME c # d, NEW g \in DOMAIN connMap, connMap[g] = c
               PROVE  c \in Range(connMap')
    BY <1>8 DEF Range
  <2>1. g # fd BY <1>3, <1>6 DEF InTable
  <2> QED BY <1>5, <2>1 DEF Range
<1>11. /\ interest' = interest
       /\ \A b \in Conns : b \in Referenced' => conn'[b] = conn[b]
       /\ \A b \in Conns : b \notin Referenced' => conn'[b] = NoObject
  <2>1. Destroy BY DEF CloseErase
  <2>2. Referenced' \subseteq Referenced BY <1>7, <1>8 DEF Referenced
  <2>3. \A g \in Fds : interest[g] # "none" =>
           g \in DOMAIN connMap' /\ connMap'[g] \in Conns /\ conn[connMap'[g]].fd = g
    <3> TAKE g \in Fds
    <3> HAVE interest[g] # "none"
    <3>1. g \in DOMAIN connMap /\ g # fd BY <1>0, <1>4 DEF Table
    <3> QED BY <1>0, <1>5, <3>1, Entry
  <2> QED BY <1>0, <2>1, <2>2, <2>3, DestroyKeeps
<1>12. CASE ~IsOpen(c)
  <2>1. ~IsOpen(c)' BY <1>11, <1>12 DEF IsOpen, NoObject
  <2>2. Alone(c) BY <1>12, <2>1 DEF Alone, IsOpen
  <2> QED BY <2>2, AloneMoves
<1>13. CASE IsOpen(c) /\ c # d
  <2>1. conn'[c] = conn[c]
    <3>1. c \in Referenced BY <1>0, <1>13 DEF Objects, IsOpen
    <3>2. c \in Referenced' BY <1>7, <1>8, <1>10, <1>13, <3>1 DEF Referenced
    <3> QED BY <1>11, <3>2
  <2>2. IsOpen(c)' <=> IsOpen(c) BY <2>1 DEF IsOpen
  <2>3. IsOwned(c)' <=> IsOwned(c) BY <1>7, <1>10, <1>13 DEF IsOwned
  <2>4. IsArmed(c)' <=> IsArmed(c) BY <1>11, <2>1 DEF IsArmed
  <2>5. IsReported(c)' <=> IsReported(c) BY <1>1, <1>2, <2>1 DEF IsReported
  <2>6. Alone(c) BY <2>2, <2>3, <2>4, <2>5 DEF Alone, IsOpen, IsOwned, IsArmed, IsReported
  <2> QED BY <2>6, AloneMoves
<1>14. CASE IsOpen(c) /\ c = d
  <2>1. c \in Range(connMap) BY <1>3, <1>14 DEF InTable, Range
  <2>2. ~IsReported(c) BY <1>2, <1>3, <1>6, <1>14 DEF IsReported
  <2>3. Life(c) = "held" BY <1>4, <1>6, <1>14, <2>1, <2>2 DEF Life, IsOpen
  <2>4. c \notin Accepting'
    BY <1>2, <1>3, <1>14 DEF Accepting
  <2>5. Life(c)' \in {"none", "closed"} BY <1>9, <1>14, <2>4 DEF Life
  <2> QED BY <2>3, <2>5, StepMoves
<1> QED BY <1>12, <1>13, <1>14

\* A handler lets its connection wait, unless it has closed it.
LEMMA RearmMoves ==
    ASSUME ServerInv, NEW w \in Workers, Rearm(w)
    PROVE  \A c \in Conns : Moves(c)
<1> SUFFICES ASSUME NEW c \in Conns PROVE Moves(c)
  OBVIOUS
<1> USE DEF loop, pool, table
<1>0. TypeOK /\ Objects /\ AtWork /\ AllApart BY DEF ServerInv, Placed
<1>1. UNCHANGED <<conn, batch, cur, connMap, mTasks>> BY DEF Rearm
<1>2. pc[w] = "rearm" /\ pc'[Main] = pc[Main]
  BY <1>0, Constants DEF Rearm, Goto, TypeOK
<1> DEFINE d == running[w].conn
<1>3. /\ running[w] # NoTask /\ d \in Conns /\ conn[d].fd \in Fds /\ mode[w] \in {"in", "out"}
      /\ \/ InTable(d) /\ interest[conn[d].fd] = "off"
         \/ interest[conn[d].fd] = "none"
      /\ Apart(w)
  <2>1. WorkerPlace(w) BY <1>0 DEF AtWork
  <2>2. running[w] # NoTask BY <1>2, <2>1 DEF WorkerPlace
  <2>3. Serves(w) BY <1>2, <2>2 DEF Serves
  <2> QED BY <1>0, <1>2, <2>1, <2>2, <2>3, Elements DEF WorkerPlace, AllApart, Registered
<1>4. \A g \in Fds : interest'[g] = IF g = conn[d].fd /\ interest[g] # "none"
                                   THEN mode[w] ELSE interest[g]
  BY DEF Rearm
<1>5. /\ \A e \in batch : e.fd # conn[d].fd
      /\ \A i \in DOMAIN mTasks : mTasks[i].conn # d
      /\ cur # d
  BY <1>3 DEF Apart
<1>6. conn[d].exists BY <1>0, <1>3, References DEF Objects
<1> HIDE DEF d
<1>7. IsOpen(c)' <=> IsOpen(c) BY <1>1 DEF IsOpen
<1>8. IsOwned(c)' <=> IsOwned(c) BY <1>1, <1>2 DEF IsOwned, Accepting
<1>9. IsReported(c)' <=> IsReported(c) BY <1>1, <1>2 DEF IsReported
<1>10. CASE c # d \/ ~IsOpen(c) \/ interest[conn[d].fd] = "none"
  <2>1. IsOpen(c) => (IsArmed(c)' <=> IsArmed(c))
    <3> SUFFICES ASSUME IsOpen(c) PROVE IsArmed(c)' <=> IsArmed(c)
      OBVIOUS
    <3>1. conn[c].fd \in Fds /\ (conn[c].fd # conn[d].fd \/ interest[conn[c].fd] = "none")
      BY <1>3, <1>6, <1>10, OpenIs
    <3> QED BY <1>1, <1>4, <3>1 DEF IsArmed
  <2>2. Alone(c) BY <1>7, <1>8, <1>9, <2>1 DEF Alone, IsOpen, IsOwned, IsArmed, IsReported
  <2> QED BY <2>2, AloneMoves
<1>11. CASE c = d /\ IsOpen(c) /\ interest[conn[d].fd] # "none"
  <2>1. c \in Range(connMap) BY <1>3, <1>11 DEF InTable, Range
  <2>2. ~IsReported(c) BY <1>5, <1>11 DEF IsReported
  <2>3. Life(c) = "held" BY <1>3, <1>11, <2>1, <2>2 DEF Life, IsOpen
  <2>4. Life(c)' = "waiting" BY <1>1, <1>3, <1>4, <1>11, <2>1 DEF Life, IsOpen
  <2> QED BY <2>3, <2>4, StepMoves
<1> QED BY <1>10, <1>11

\* A handler returns: a closed connection nothing else refers to is freed.
LEMMA ReturnMoves ==
    ASSUME ServerInv, NEW w \in Workers, Return(w)
    PROVE  \A c \in Conns : Moves(c)
<1> SUFFICES ASSUME NEW c \in Conns PROVE Moves(c)
  OBVIOUS
<1> USE DEF loop, table
<1>0. TypeOK /\ Objects /\ Table BY DEF ServerInv, Placed
<1>1. UNCHANGED <<batch, cur, todo, connMap, mTasks>> /\ pc'[Main] = pc[Main]
  BY <1>0, Constants DEF Return, Goto, Pool!Finish, TypeOK
<1>2. Accepting' = Accepting BY <1>1 DEF Accepting
<1>3. Referenced' \subseteq Referenced
  <2>1. /\ running'[w] = NoTask
        /\ \A v \in Workers : v # w => running'[v] = running[v]
    BY <1>0 DEF Return, Pool!Finish, TypeOK
  <2>2. TaskConns' \subseteq TaskConns BY <1>1, <2>1 DEF TaskConns
  <2> QED BY <1>1, <1>2, <2>2 DEF Referenced
<1>4. /\ interest' = interest
      /\ \A d \in Conns : d \in Referenced' => conn'[d] = conn[d]
      /\ \A d \in Conns : d \notin Referenced' => conn'[d] = NoObject
  <2>1. \A g \in Fds : interest[g] # "none" =>
           g \in DOMAIN connMap' /\ connMap'[g] \in Conns /\ conn[connMap'[g]].fd = g
    BY <1>0, <1>1, Elements DEF Table
  <2>2. Destroy BY DEF Return
  <2> QED BY <1>0, <1>3, <2>1, <2>2, DestroyKeeps
<1>5. CASE c \in Referenced'
  <2>1. conn'[c] = conn[c] BY <1>4, <1>5
  <2>2. IsOpen(c)' <=> IsOpen(c) BY <2>1 DEF IsOpen
  <2>3. IsOwned(c)' <=> IsOwned(c) BY <1>1, <1>2 DEF IsOwned
  <2>4. IsArmed(c)' <=> IsArmed(c) BY <1>4, <2>1 DEF IsArmed
  <2>5. IsReported(c)' <=> IsReported(c) BY <1>1, <2>1 DEF IsReported
  <2>6. Alone(c) BY <2>2, <2>3, <2>4, <2>5 DEF Alone, IsOpen, IsOwned, IsArmed, IsReported
  <2> QED BY <2>6, AloneMoves
<1>6. CASE c \notin Referenced'
  <2>1. c \notin Range(connMap) \cup Accepting BY <1>1, <1>2, <1>6 DEF Referenced
  <2>2. Life(c)' = "none" BY <1>4, <1>6 DEF Life, NoObject
  <2>3. Life(c) \in {"none", "closed"} BY <2>1 DEF Life
  <2> QED BY <2>2, <2>3, StepMoves DEF Moves
<1> QED BY <1>5, <1>6

-----------------------------------------------------------------------------
(* The theorem.                                                              *)

LEMMA NextMoves ==
    ASSUME ServerInv, [Next]_vars
    PROVE  \A c \in Conns : Moves(c)
<1>1. CASE Peer BY <1>1, QuietMoves
<1>2. CASE MainStep
  BY <1>2, QuietMoves, EpollWaitMoves, AcceptMoves, LookupMoves, AcceptInsertMoves,
     AcceptAddMoves, AddTaskMoves, CloseDelMoves, CloseEraseMoves, Constants
     DEF MainStep
<1>3. ASSUME NEW w \in Workers, WorkerStep(w) PROVE \A c \in Conns : Moves(c)
  BY <1>3, QuietMoves, TakeTaskMoves, RearmMoves, ReturnMoves, CloseDelMoves,
     CloseEraseMoves, Constants
     DEF WorkerStep
<1>4. CASE UNCHANGED vars
  <2> TAKE c \in Conns
  <2>1. Life(c)' = Life(c)
    BY <1>4 DEF vars, sockets, loop, table, pool, Life, Accepting, IsReported
  <2> QED BY <2>1 DEF Moves
<1> QED BY <1>1, <1>2, <1>3, <1>4 DEF Next

\* A connection is passed from the kernel to one thread and back: only an event takes it
\* out of its wait, only the thread that has it closes it, and what is closed is never
\* handled again (EventLoop, handleRead, handleWrite and CloseConn of Server.cpp).
THEOREM LivesAsPromised == Spec => ImplementsConnectionLife
<1>1. Init => Lives!LifeInit
  <2> SUFFICES ASSUME Init PROVE [c \in Conns |-> Life(c)] = [c \in Conns |-> "none"]
    BY DEF Lives!LifeInit
  <2>1. \A c \in Conns : Life(c) = "none" BY DEF Init, Life, NoObject
  <2> QED BY <2>1
<1>2. ServerInv /\ [Next]_vars => [Lives!LifeNext]_([c \in Conns |-> Life(c)])
  <2> SUFFICES ASSUME ServerInv, [Next]_vars PROVE Lives!LifeNext
    OBVIOUS
  <2>1. \A c \in Conns : Moves(c) BY NextMoves
  <2> QED BY <2>1 DEF Moves, Lives!LifeNext
<1> QED BY <1>1, <1>2, ServerInvAlways, PTL DEF Spec, ImplementsConnectionLife, Lives!LifeSpec, Lives!LifeRuns

=============================================================================
