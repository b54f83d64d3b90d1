------------------------------- MODULE Thread -------------------------------
(***************************************************************************)
(* base::Thread and base::CurrentThread (base/Thread.h, base/Thread.cpp):  *)
(* the object, the thread pthread_create starts for it, and the id that    *)
(* each thread keeps in thread-local storage.  One owner constructs,       *)
(* starts, joins and destroys the objects.                                 *)
(*                                                                         *)
(* The thread reads runningData, which is inside the object; the owner     *)
(* keeps the object until the task has returned, and starts and joins a    *)
(* thread once, as ThreadPool does.                                        *)
(***************************************************************************)
EXTENDS Naturals

CONSTANTS Threads,   \* the Thread objects
          Tids,      \* the kernel's thread ids, also as the text sprintf makes of them
          NoTid      \* 0, a Tid that has not been asked for

ASSUME TidAssumption == NoTid \notin Tids

VARIABLES object,    \* object[t]: whether it exists, isRunning and isJoin
          calling,   \* the call the owner is in: "none", or start or join of a thread
          life,      \* the kernel's thread: "none", "new", "task", or "done" and not reaped
          tid,       \* the id the kernel has given it
          Tid,       \* __thread Tid, with TidStr
          failed     \* an assert has failed

threadVars == <<object, calling, life, tid, Tid, failed>>

NoThread == [made |-> FALSE, isRunning |-> FALSE, isJoin |-> FALSE]

ThreadInit ==
    /\ object = [t \in Threads |-> NoThread]
    /\ calling = <<"none">>
    /\ life = [t \in Threads |-> "none"]
    /\ tid = [t \in Threads |-> NoTid] /\ Tid = tid
    /\ failed = FALSE

-----------------------------------------------------------------------------
(* The owner.                                                                *)

Construct(t) ==
    /\ calling = <<"none">> /\ ~object[t].made
    /\ object' = [object EXCEPT ![t] = [NoThread EXCEPT !.made = TRUE]]
    /\ UNCHANGED <<calling, life, tid, Tid, failed>>

\* start: pthread_create gives the thread an id that no live thread has, and zeroed
\* thread-local variables.  It may run before start goes on.
Create(t) ==
    /\ calling = <<"none">> /\ object[t] = [NoThread EXCEPT !.made = TRUE]
    /\ calling' = <<"start", t>>
    /\ life' = [life EXCEPT ![t] = "new"]
    /\ \E k \in Tids \ {tid[u] : u \in Threads} :
          tid' = [tid EXCEPT ![t] = k]
    /\ Tid' = [Tid EXCEPT ![t] = NoTid]
    /\ UNCHANGED <<object, failed>>

Started(t) ==
    /\ calling = <<"start", t>>
    /\ object' = [object EXCEPT ![t].isRunning = TRUE]
    /\ calling' = <<"none">>
    /\ UNCHANGED <<life, tid, Tid, failed>>

Join(t) ==
    /\ calling = <<"none">> /\ object[t].isRunning /\ ~object[t].isJoin
    /\ calling' = <<"join", t>>
    /\ UNCHANGED <<object, life, tid, Tid, failed>>

\* Mutant: join does not note that the thread is gone.
JoinedUnnoted(t) == object

Joined(t) == [object EXCEPT ![t].isJoin = TRUE]

\* pthread_join returns when the thread has ended, and reaps it.
JoinReturns(t) ==
    /\ calling = <<"join", t>> /\ life[t] = "done"
    /\ object' = Joined(t)
    /\ life' = [life EXCEPT ![t] = "none"]
    /\ calling' = <<"none">>
    /\ UNCHANGED <<tid, Tid, failed>>

\* The destructor detaches a thread nobody has joined, which reaps it if it has
\* ended, and asserts that there was one.
Destroy(t) ==
    /\ calling = <<"none">> /\ object[t].made
    /\ life[t] \in {"none", "done"}
    /\ object' = [object EXCEPT ![t] = NoThread]
    /\ IF object[t].isRunning /\ ~object[t].isJoin
       THEN life' = [life EXCEPT ![t] = "none"] /\ failed' = (failed \/ life[t] = "none")
       ELSE UNCHANGED <<life, failed>>
    /\ UNCHANGED <<calling, tid, Tid>>

-----------------------------------------------------------------------------
(* The thread.                                                               *)

\* runInThread calls runningData->mTask().
RunInThread(t) ==
    /\ life[t] = "new"
    /\ life' = [life EXCEPT ![t] = "task"]
    /\ UNCHANGED <<object, calling, tid, Tid, failed>>

\* The task returns, and with it runInThread; the kernel may use the id again.
TaskReturns(t) ==
    /\ life[t] = "task"
    /\ life' = [life EXCEPT ![t] = "done"]
    /\ tid' = [tid EXCEPT ![t] = NoTid] /\ Tid' = [Tid EXCEPT ![t] = NoTid]
    /\ UNCHANGED <<object, calling, failed>>

\* Mutant: Tid is one variable for all threads.
getTidShared(t) ==
    Tid' = IF Tid[t] = NoTid THEN [u \in Threads |-> tid[t]] ELSE Tid

\* CurrentThread::getTid, and getStr, ask the kernel once.
getTid(t) ==
    Tid' = IF Tid[t] = NoTid THEN [Tid EXCEPT ![t] = tid[t]] ELSE Tid

-----------------------------------------------------------------------------
Owner(t) ==
    Construct(t) \/ Create(t) \/ Started(t) \/ Join(t) \/ JoinReturns(t) \/ Destroy(t)

-----------------------------------------------------------------------------
\* A thread is reaped exactly once, by join or by the destructor: the assert in
\* ~Thread (Thread.cpp:29) holds, and no ended thread outlives its object.
ReapedOnce ==
    /\ ~failed
    /\ \A t \in Threads : object[t].made \/ life[t] = "none"
=============================================================================
