--------------------------- MODULE ThreadPoolProofs ---------------------------
(***************************************************************************)
(* Theorems about ThreadPool, for any number of workers and producers and  *)
(* any queue capacity.                                                     *)
(*                                                                         *)
(* PoolInv is the inductive invariant they rest on.  MutexDiscipline alone *)
(* is not inductive: a thread enters a critical section from a wait, so    *)
(* the condition queues matter, and Stop keeps the mutex until every       *)
(* worker has exited, so the life cycle of the threads does.               *)
(***************************************************************************)
EXTENDS ThreadPool, TLAPS

\* An AddTask that has not queued its task yet holds one.
ArgsPending ==
    \A p \in Producers : pc[p] \in {"add_lock", "add_test", "add_wait"} => arg[p] \in Tasks

\* Between front() and pop() the queue is what front() saw.
PopsHead ==
    \A w \in Workers : pc[w] = "take_pop" => mTasks # <<>> /\ task[w] = Head(mTasks)

\* A worker holds a task from front() until the task has returned.
HoldsTask ==
    \A w \in Workers : /\ task[w] # NoTask => pc[w] \in {"take_pop", "take_post", "run"}
                       /\ pc[w] = "run" => task[w] # NoTask

\* The life of the worker threads: created by Start while isRunning, running until
\* Stop clears it, and all gone when Stop returns.
Lifecycle ==
    /\ \A w \in Workers : w \in mThreads <=> pc[w] # "unborn"
    /\ pc[Owner] = "start" => isRunning
    /\ pc[Owner] \in {"stop_lock", "stop_crit", "stop_join", "stopped"} => mThreads = Workers
    /\ mThreads # {} /\ ~Stopping => isRunning
    /\ pc[Owner] = "stopped" => \A w \in Workers : pc[w] = "exited"
    /\ \A w \in Workers : pc[w] = "exited" => Stopping

PoolInv == TypeOK /\ MutexDiscipline /\ ArgsPending /\ PopsHead /\ HoldsTask /\ Lifecycle

-----------------------------------------------------------------------------
USE PoolAssumption DEF PoolAssumption

\* The initial state satisfies the invariant of the pool.
LEMMA PoolInvInit == Init => PoolInv
<1> SUFFICES ASSUME Init PROVE PoolInv
  OBVIOUS
<1> USE DEF Init, Threads, Clients
<1>1. TypeOK
  <2>1. pc \in [Threads -> ClientStates \cup WorkerStates] BY DEF ClientStates, WorkerStates
  <2>2. \A x \in Threads : pc[x] \in IF x \in Workers THEN WorkerStates ELSE ClientStates
    BY DEF ClientStates, WorkerStates
  <2>3. mTasks \in Seq(Tasks) OBVIOUS
  <2> QED BY <2>1, <2>2, <2>3 DEF TypeOK
<1>2. MutexDiscipline BY DEF MutexDiscipline, Critical
<1>3. ArgsPending /\ PopsHead /\ HoldsTask BY DEF ArgsPending, PopsHead, HoldsTask
<1>4. Lifecycle BY DEF Lifecycle, Stopping
<1> QED BY <1>1, <1>2, <1>3, <1>4 DEF PoolInv

\* Every step of a thread keeps the types.
LEMMA TypeStep == PoolInv /\ [Next]_vars => TypeOK'
<1> SUFFICES ASSUME PoolInv, [Next]_vars PROVE TypeOK'
  OBVIOUS
<1> USE DEF PoolInv, TypeOK, Threads, Clients, ClientStates, WorkerStates, Goto, Lock,
Unlock, Post
<1>1. CASE Start BY <1>1 DEF Start
<1>2. CASE Stop BY <1>2 DEF Stop
<1>3. ASSUME NEW w \in Workers, StartThread(w) PROVE TypeOK'
  BY <1>3 DEF StartThread
<1>4. CASE StopLock BY <1>4 DEF StopLock
<1>5. CASE StopBroadcast BY <1>5 DEF StopBroadcast
<1>6. CASE StopJoined BY <1>6 DEF StopJoined
<1>7. ASSUME NEW p \in Producers, NEW t \in Tasks, AddTask(p, t) PROVE TypeOK'
  BY <1>7 DEF AddTask
<1>8. ASSUME NEW p \in Producers, AddTaskLock(p) PROVE TypeOK'
  BY <1>8 DEF AddTaskLock
<1>9. ASSUME NEW p \in Producers, AddTaskWait(p) PROVE TypeOK'
  BY <1>9 DEF AddTaskWait, Full
<1>10. ASSUME NEW p \in Producers, AddTaskWake(p) PROVE TypeOK'
  BY <1>10 DEF AddTaskWake
<1>11. ASSUME NEW p \in Producers, AddTaskPush(p) PROVE TypeOK'
  BY <1>11 DEF AddTaskPush, Full, ArgsPending
<1>12. ASSUME NEW p \in Producers, AddTaskPost(p) PROVE TypeOK'
  BY <1>12 DEF AddTaskPost, JustFilled
<1>13. ASSUME NEW w \in Workers, RunLoop(w) PROVE TypeOK'
  BY <1>13 DEF RunLoop
<1>14. ASSUME NEW w \in Workers, TakeLock(w) PROVE TypeOK'
  BY <1>14 DEF TakeLock
<1>15. ASSUME NEW w \in Workers, TakeWait(w) PROVE TypeOK'
  BY <1>15 DEF TakeWait
<1>16. ASSUME NEW w \in Workers, TakeWake(w) PROVE TypeOK'
  BY <1>16 DEF TakeWake
<1>17. ASSUME NEW w \in Workers, TakeFront(w) PROVE TypeOK'
  BY <1>17 DEF TakeFront
<1>18. ASSUME NEW w \in Workers, TakePop(w) PROVE TypeOK'
  BY <1>18 DEF TakePop, PopsHead
<1>19. ASSUME NEW w \in Workers, TakePost(w) PROVE TypeOK'
  BY <1>19 DEF TakePost, JustFreed
<1>20. ASSUME NEW w \in Workers, RunTask(w) PROVE TypeOK'
  BY <1>20 DEF RunTask
<1>21. ASSUME NEW x \in Threads, SpuriousWake(x) PROVE TypeOK'
  BY <1>21 DEF SpuriousWake
<1>22. CASE UNCHANGED vars BY <1>22 DEF vars
<1> QED
  BY <1>1, <1>2, <1>3, <1>4, <1>5, <1>6, <1>7, <1>8, <1>9, <1>10, <1>11, <1>12, <1>13, <1>14,
     <1>15, <1>16, <1>17, <1>18, <1>19, <1>20, <1>21, <1>22
     DEF Next, OwnerStep, ProducerStep, PoolStep

\* Every step of a thread keeps the lock discipline.
LEMMA PoolInvStep == PoolInv /\ [Next]_vars => PoolInv'
<1> SUFFICES ASSUME PoolInv, [Next]_vars PROVE PoolInv'
  OBVIOUS
<1>0. TypeOK'
  BY TypeStep
<1> USE DEF PoolInv, Threads, Clients, ClientStates, WorkerStates, Goto, Lock, Unlock, Post,
            MutexDiscipline, Critical, ArgsPending, PopsHead, HoldsTask, Lifecycle, Stopping, TypeOK
<1>1. CASE Start
  BY <1>0, <1>1 DEF Start
<1>2. CASE Stop
  BY <1>0, <1>2 DEF Stop
<1>3. ASSUME NEW w \in Workers, StartThread(w) PROVE PoolInv'
  BY <1>0, <1>3 DEF StartThread
<1>4. CASE StopLock
  BY <1>0, <1>4 DEF StopLock
<1>5. CASE StopBroadcast
  BY <1>0, <1>5 DEF StopBroadcast
<1>6. CASE StopJoined
  BY <1>0, <1>6 DEF StopJoined
<1>7. ASSUME NEW p \in Producers, NEW t \in Tasks, AddTask(p, t) PROVE PoolInv'
  BY <1>0, <1>7 DEF AddTask
<1>8. ASSUME NEW p \in Producers, AddTaskLock(p) PROVE PoolInv'
  BY <1>0, <1>8 DEF AddTaskLock
<1>9. ASSUME NEW p \in Producers, AddTaskWait(p) PROVE PoolInv'
  BY <1>0, <1>9 DEF AddTaskWait, Full
<1>10. ASSUME NEW p \in Producers, AddTaskWake(p) PROVE PoolInv'
  BY <1>0, <1>10 DEF AddTaskWake
<1>11. ASSUME NEW p \in Producers, AddTaskPush(p) PROVE PoolInv'
  BY <1>0, <1>11 DEF AddTaskPush, Full
<1>12. ASSUME NEW p \in Producers, AddTaskPost(p) PROVE PoolInv'
  BY <1>0, <1>12 DEF AddTaskPost, JustFilled
<1>13. ASSUME NEW w \in Workers, RunLoop(w) PROVE PoolInv'
  BY <1>0, <1>13 DEF RunLoop
<1>14. ASSUME NEW w \in Workers, TakeLock(w) PROVE PoolInv'
  BY <1>0, <1>14 DEF TakeLock
<1>15. ASSUME NEW w \in Workers, TakeWait(w) PROVE PoolInv'
  BY <1>0, <1>15 DEF TakeWait
<1>16. ASSUME NEW w \in Workers, TakeWake(w) PROVE PoolInv'
  BY <1>0, <1>16 DEF TakeWake
<1>17. ASSUME NEW w \in Workers, TakeFront(w) PROVE PoolInv'
  <2> USE <1>17 DEF TakeFront
  <2>1. \A v \in Workers \ {w} : pc[v] # "take_pop" /\ pc'[v] = pc[v] /\ task'[v] = task[v]
    OBVIOUS
  <2>2. PopsHead'
    BY <2>1
  <2>3. HoldsTask'
    BY <2>1
  <2>4. MutexDiscipline'
    OBVIOUS
  <2>5. ArgsPending' /\ Lifecycle'
    OBVIOUS
  <2> QED
    BY <1>0, <2>2, <2>3, <2>4, <2>5
<1>18. ASSUME NEW w \in Workers, TakePop(w) PROVE PoolInv'
  <2> USE <1>18 DEF TakePop
  <2>1. \A v \in Workers : pc'[v] # "take_pop"
    OBVIOUS
  <2>2. MutexDiscipline'
    OBVIOUS
  <2>3. ArgsPending' /\ HoldsTask' /\ Lifecycle'
    OBVIOUS
  <2> QED
    BY <1>0, <2>1, <2>2, <2>3
<1>19. ASSUME NEW w \in Workers, TakePost(w) PROVE PoolInv'
  BY <1>0, <1>19 DEF TakePost, JustFreed
<1>20. ASSUME NEW w \in Workers, RunTask(w) PROVE PoolInv'
  BY <1>0, <1>20 DEF RunTask
<1>21. ASSUME NEW x \in Threads, SpuriousWake(x) PROVE PoolInv'
  BY <1>0, <1>21 DEF SpuriousWake
<1>22. CASE UNCHANGED vars
  BY <1>22 DEF vars
<1> QED
  BY <1>1, <1>2, <1>3, <1>4, <1>5, <1>6, <1>7, <1>8, <1>9, <1>10, <1>11, <1>12, <1>13,
     <1>14, <1>15, <1>16, <1>17, <1>18, <1>19, <1>20, <1>21, <1>22
     DEF Next, OwnerStep, ProducerStep, PoolStep

\* The invariant of the pool holds in every reachable state.
LEMMA PoolInvAlways == Spec => []PoolInv
BY PoolInvInit, PoolInvStep, PTL DEF Spec

\* Type correctness of the pool.
THEOREM Typing == Spec => []TypeOK
BY PoolInvAlways, PTL DEF PoolInv

\* mMutex is held exactly by the thread that is in a critical section, so at most one
\* thread is in one, and only threads in a wait are asleep.
THEOREM MutualExclusion == Spec => []MutexDiscipline
BY PoolInvAlways, PTL DEF PoolInv

\* The invariant says what isRunning is for a worker inside take().
LEMMA CriticalWorkerSeesRunning == PoolInv => TakeSeesRunning
BY DEF PoolInv, TypeOK, MutexDiscipline, Lifecycle, Stopping, TakeSeesRunning, Critical,
   Threads,
       Clients

\* No worker inside take() ever finds isRunning cleared: the branch that would let it
\* leave with an empty task is dead code.
THEOREM DeadBranch == Spec => []TakeSeesRunning
BY CriticalWorkerSeesRunning, PoolInvAlways, PTL

\* While Stop joins, no worker that is inside take() moves: the join of one that waits
\* for tasks cannot return.
THEOREM StopDeadlocks == Spec => StopBlocksTake
<1> DEFINE Joins == Stopping /\ pc[Owner] # "stopped"
           Stuck == \A w \in Workers : pc[w] \in {"take_lock", "take_wait"} => pc'[w] = pc[w]
<1>1. PoolInv /\ [Next]_vars => (Joins => Stuck)
  <2> SUFFICES ASSUME PoolInv, [Next]_vars, Joins, NEW v \in Workers,
                      pc[v] \in {"take_lock", "take_wait"}
               PROVE  pc'[v] = pc[v]
    OBVIOUS
  <2> USE DEF PoolInv, TypeOK, MutexDiscipline, Lifecycle, Stopping, Critical, Threads, Clients,
              Goto, Lock, Unlock
  <2>1. mutex = Owner /\ mutex # NoThread /\ v # Owner /\ mThreads = Workers
    OBVIOUS
  <2> QED
    BY <2>1 DEF Next, OwnerStep, ProducerStep, PoolStep, vars, Start, Stop, StartThread,
       StopLock,
                StopBroadcast, StopJoined, AddTask, AddTaskLock, AddTaskWait, AddTaskWake,
                AddTaskPush, Full, AddTaskPost, JustFilled, RunLoop, TakeLock, TakeWait,
                TakeWake, TakeFront, TakePop, TakePost, JustFreed, RunTask, SpuriousWake
<1>2. PoolInv /\ [Next]_vars => [Joins => Stuck]_vars
  BY <1>1
<1> QED
  BY <1>2, PoolInvAlways, PTL DEF Spec, StopBlocksTake

-----------------------------------------------------------------------------
(* The signal on the 0 -> 1 transition is enough.                            *)

Awake == \E w \in Workers : w \notin isEmpty /\ pc[w] # "exited"

\* The case NoLostWakeup leaves out: an AddTask about to signal found the queue empty,
\* or found it with tasks and somebody awake to take them.
SignalPending ==
    \A p \in Producers : pc[p] = "add_post" =>
        /\ mTasks # <<>>
        /\ Len(mTasks) # 1 /\ ~Stopping => Awake

WakeupInv == NoLostWakeup /\ SignalPending

\* The initial state satisfies the wake-up invariant.
LEMMA WakeupInvInit == Init => WakeupInv
BY DEF Init, WakeupInv, NoLostWakeup, SignalPending, Threads, Clients

\* Every step keeps the wake-up invariant: a signal is sent, due, or not needed.
LEMMA WakeupInvStep == PoolInv /\ PoolInv' /\ WakeupInv /\ [Next]_vars => WakeupInv'
<1> SUFFICES ASSUME PoolInv, PoolInv', WakeupInv, [Next]_vars PROVE WakeupInv'
  OBVIOUS
<1> USE DEF PoolInv, TypeOK, MutexDiscipline, Lifecycle, Stopping, Critical, Threads, Clients,
            Goto, Lock, Unlock, Post, PopsHead, WakeupInv, NoLostWakeup, SignalPending, Awake
<1>1. CASE Start
  BY <1>1 DEF Start
<1>2. CASE Stop
  BY <1>2 DEF Stop
<1>3. ASSUME NEW w \in Workers, StartThread(w) PROVE WakeupInv'
  BY <1>3 DEF StartThread
<1>4. CASE StopLock
  BY <1>4 DEF StopLock
<1>5. CASE StopBroadcast
  BY <1>5 DEF StopBroadcast
<1>6. CASE StopJoined
  BY <1>6 DEF StopJoined
<1>7. ASSUME NEW p \in Producers, NEW t \in Tasks, AddTask(p, t) PROVE WakeupInv'
  BY <1>7 DEF AddTask
<1>8. ASSUME NEW p \in Producers, AddTaskLock(p) PROVE WakeupInv'
  BY <1>8 DEF AddTaskLock
<1>9. ASSUME NEW p \in Producers, AddTaskWait(p) PROVE WakeupInv'
  BY <1>9 DEF AddTaskWait, Full
<1>10. ASSUME NEW p \in Producers, AddTaskWake(p) PROVE WakeupInv'
  BY <1>10 DEF AddTaskWake
<1>11. ASSUME NEW p \in Producers, AddTaskPush(p) PROVE WakeupInv'
  <2> USE <1>11 DEF AddTaskPush, Full
  <2>1. pc'[p] = "add_post" /\ p \in Threads
    OBVIOUS
  <2>2. \A q \in Producers : pc[q] # "add_post"
    OBVIOUS
  <2>3. arg[p] \in Tasks
    BY DEF ArgsPending
  <2>4. mTasks' # <<>> /\ Len(mTasks') = Len(mTasks) + 1
    BY <2>3
  <2>5. Len(mTasks') # 1 /\ ~Stopping' => Awake'
    BY <2>2, <2>4
  <2>6. \A q \in Producers : q # p => pc'[q] # "add_post"
    BY <2>2
  <2> QED
    BY <2>1, <2>4, <2>5, <2>6
<1>12. ASSUME NEW p \in Producers, AddTaskPost(p) PROVE WakeupInv'
  <2> USE <1>12 DEF AddTaskPost, JustFilled
  <2>1. \A q \in Producers : pc'[q] # "add_post"
    OBVIOUS
  <2>2. ASSUME ~Stopping' PROVE Awake'
    <3>1. ~Stopping /\ mTasks # <<>> /\ \A w \in Workers : pc[w] # "exited" /\ pc'[w] = pc[w]
      BY <2>2
    <3>2. CASE Len(mTasks) # 1
      BY <3>1, <3>2
    <3>3. CASE Len(mTasks) = 1 /\ isEmpty = {}
      BY <3>1, <3>3
    <3>4. CASE Len(mTasks) = 1 /\ isEmpty # {}
      <4>1. PICK v \in isEmpty : isEmpty' = isEmpty \ {v}
        BY <3>4
      <4> QED
        BY <3>1, <4>1
    <3> QED
      BY <3>2, <3>3, <3>4
  <2> QED
    BY <2>1, <2>2
<1>13. ASSUME NEW w \in Workers, RunLoop(w) PROVE WakeupInv'
  BY <1>13 DEF RunLoop
<1>14. ASSUME NEW w \in Workers, TakeLock(w) PROVE WakeupInv'
  BY <1>14 DEF TakeLock
<1>15. ASSUME NEW w \in Workers, TakeWait(w) PROVE WakeupInv'
  BY <1>15 DEF TakeWait
<1>16. ASSUME NEW w \in Workers, TakeWake(w) PROVE WakeupInv'
  BY <1>16 DEF TakeWake
<1>17. ASSUME NEW w \in Workers, TakeFront(w) PROVE WakeupInv'
  BY <1>17 DEF TakeFront
<1>18. ASSUME NEW w \in Workers, TakePop(w) PROVE WakeupInv'
  BY <1>18 DEF TakePop
<1>19. ASSUME NEW w \in Workers, TakePost(w) PROVE WakeupInv'
  BY <1>19 DEF TakePost, JustFreed
<1>20. ASSUME NEW w \in Workers, RunTask(w) PROVE WakeupInv'
  BY <1>20 DEF RunTask
<1>21. ASSUME NEW x \in Threads, SpuriousWake(x) PROVE WakeupInv'
  BY <1>21 DEF SpuriousWake
<1>22. CASE UNCHANGED vars
  BY <1>22 DEF vars
<1> QED
  BY <1>1, <1>2, <1>3, <1>4, <1>5, <1>6, <1>7, <1>8, <1>9, <1>10, <1>11, <1>12, <1>13,
     <1>14, <1>15, <1>16, <1>17, <1>18, <1>19, <1>20, <1>21, <1>22
     DEF Next, OwnerStep, ProducerStep, PoolStep

\* No lost wake-up: whenever tasks are queued in a pool that is not being stopped, and
\* no AddTask is about to signal, some worker is awake to take them.
THEOREM WakeupNotLost == Spec => []NoLostWakeup
<1>1. Spec => []WakeupInv
  BY WakeupInvInit, WakeupInvStep, PoolInvAlways, PTL DEF Spec
<1> QED
  BY <1>1, PTL DEF WakeupInv

-----------------------------------------------------------------------------
(* Every task is run once.                                                   *)

\* What Append and Tail do to the elements of a sequence without repetitions.
LEMMA AppendElements ==
    ASSUME NEW S, NEW s \in Seq(S), NEW e \in S
    PROVE  /\ Range(Append(s, e)) = Range(s) \cup {e}
           /\ IsInjective(s) /\ e \notin Range(s) => IsInjective(Append(s, e))
<1>1. /\ DOMAIN Append(s, e) = DOMAIN s \cup {Len(s) + 1}
      /\ Append(s, e)[Len(s) + 1] = e
      /\ \A i \in DOMAIN s : i # Len(s) + 1 /\ Append(s, e)[i] = s[i]
  OBVIOUS
<1>2. Range(Append(s, e)) = Range(s) \cup {e}
  BY <1>1 DEF Range
<1>3. IsInjective(s) /\ e \notin Range(s) => IsInjective(Append(s, e))
  BY <1>1 DEF Range, IsInjective
<1> QED
  BY <1>2, <1>3

\* What Tail leaves of a sequence without repetitions.
LEMMA TailElements ==
    ASSUME NEW S, NEW s \in Seq(S), s # <<>>
    PROVE  /\ Head(s) \in Range(s)
           /\ Range(Tail(s)) \subseteq Range(s)
           /\ IsInjective(s) => Head(s) \notin Range(Tail(s)) /\ IsInjective(Tail(s))
BY DEF Range, IsInjective

\* No two AddTask calls in progress were passed the same task.
ArgsDistinct ==
    \A p, q \in Producers : arg[p] = arg[q] => p = q \/ arg[p] = NoTask

OnceInv == ExactlyOnce /\ ArgsDistinct

\* The initial state has every task in one place at most.
LEMMA OnceInvInit == Init => OnceInv
BY DEF Init, OnceInv, ExactlyOnce, ArgsDistinct, Range, IsInjective, Taken, Threads, Clients

\* Every step moves a task from one place to the next, or leaves it.
LEMMA OnceInvStep == PoolInv /\ PoolInv' /\ OnceInv /\ [Next]_vars => OnceInv'
<1> SUFFICES ASSUME PoolInv, PoolInv', OnceInv, [Next]_vars PROVE OnceInv'
  OBVIOUS
<1> USE DEF PoolInv, TypeOK, Threads, Clients, HoldsTask, Goto, OnceInv, ExactlyOnce,
ArgsDistinct, Taken
<1>0. NoTask \notin Range(mTasks)
  BY DEF Range
<1>1. CASE Start
  BY <1>1 DEF Start
<1>2. CASE Stop
  BY <1>2 DEF Stop
<1>3. ASSUME NEW w \in Workers, StartThread(w) PROVE OnceInv'
  <2>1. \A v \in Workers : Taken(v)' = Taken(v)
    BY <1>3 DEF StartThread, Lifecycle
  <2> QED
    BY <1>3, <2>1 DEF StartThread
<1>4. CASE StopLock
  BY <1>4 DEF StopLock
<1>5. CASE StopBroadcast
  BY <1>5 DEF StopBroadcast
<1>6. CASE StopJoined
  BY <1>6 DEF StopJoined
<1>7. ASSUME NEW p \in Producers, NEW t \in Tasks, AddTask(p, t) PROVE OnceInv'
  <2> USE <1>7 DEF AddTask
  <2>1. /\ t \notin Range(mTasks)
        /\ \A q \in Producers : arg[q] # t
        /\ \A w \in Workers : task[w] # t
    BY DEF InUse, Range
  <2>2. \A w \in Workers : Taken(w)' = Taken(w)
    OBVIOUS
  <2>3. \A q \in Producers : arg'[q] = IF q = p THEN t ELSE arg[q]
    OBVIOUS
  <2> QED
    BY <2>1, <2>2, <2>3
<1>8. ASSUME NEW p \in Producers, AddTaskLock(p) PROVE OnceInv'
  BY <1>8 DEF AddTaskLock
<1>9. ASSUME NEW p \in Producers, AddTaskWait(p) PROVE OnceInv'
  BY <1>9 DEF AddTaskWait, Full
<1>10. ASSUME NEW p \in Producers, AddTaskWake(p) PROVE OnceInv'
  BY <1>10 DEF AddTaskWake
<1>11. ASSUME NEW p \in Producers, AddTaskPush(p) PROVE OnceInv'
  <2> USE <1>11 DEF AddTaskPush, Full
  <2>1. arg[p] \in Tasks /\ arg[p] # NoTask
    BY DEF ArgsPending
  <2>2. Range(mTasks') = Range(mTasks) \cup {arg[p]} /\ IsInjective(mTasks')
    BY <2>1, AppendElements
  <2>3. \A w \in Workers : Taken(w)' = Taken(w) /\ Taken(w) # arg[p]
    BY <2>1
  <2>4. \A q \in Producers : /\ arg'[q] = IF q = p THEN NoTask ELSE arg[q]
                             /\ q # p => arg[q] # arg[p]
    BY <2>1
  <2> QED
    BY <1>0, <2>1, <2>2, <2>3, <2>4
<1>12. ASSUME NEW p \in Producers, AddTaskPost(p) PROVE OnceInv'
  BY <1>12 DEF AddTaskPost, JustFilled
<1>13. ASSUME NEW w \in Workers, RunLoop(w) PROVE OnceInv'
  BY <1>13 DEF RunLoop
<1>14. ASSUME NEW w \in Workers, TakeLock(w) PROVE OnceInv'
  BY <1>14 DEF TakeLock
<1>15. ASSUME NEW w \in Workers, TakeWait(w) PROVE OnceInv'
  BY <1>15 DEF TakeWait
<1>16. ASSUME NEW w \in Workers, TakeWake(w) PROVE OnceInv'
  BY <1>16 DEF TakeWake
<1>17. ASSUME NEW w \in Workers, TakeFront(w) PROVE OnceInv'
  BY <1>17 DEF TakeFront
<1>18. ASSUME NEW w \in Workers, TakePop(w) PROVE OnceInv'
  <2> USE <1>18 DEF TakePop
  <2>1. mTasks # <<>> /\ task[w] = Head(mTasks)
    BY DEF PopsHead
  <2>2. /\ task[w] \in Range(mTasks) \ Range(mTasks')
        /\ Range(mTasks') \subseteq Range(mTasks)
        /\ IsInjective(mTasks')
    BY <2>1, TailElements
  <2>3. Taken(w)' = task[w] /\ \A v \in Workers \ {w} : Taken(v)' = Taken(v)
    OBVIOUS
  <2> QED
    BY <2>2, <2>3
<1>19. ASSUME NEW w \in Workers, TakePost(w) PROVE OnceInv'
  BY <1>19 DEF TakePost, JustFreed
<1>20. ASSUME NEW w \in Workers, RunTask(w) PROVE OnceInv'
  <2> USE <1>20 DEF RunTask
  <2>1. Taken(w)' = NoTask /\ \A v \in Workers \ {w} : Taken(v)' = Taken(v)
    OBVIOUS
  <2> QED
    BY <1>0, <2>1
<1>21. ASSUME NEW x \in Threads, SpuriousWake(x) PROVE OnceInv'
  BY <1>21 DEF SpuriousWake
<1>22. CASE UNCHANGED vars
  BY <1>22 DEF vars
<1> QED
  BY <1>1, <1>2, <1>3, <1>4, <1>5, <1>6, <1>7, <1>8, <1>9, <1>10, <1>11, <1>12, <1>13,
     <1>14, <1>15, <1>16, <1>17, <1>18, <1>19, <1>20, <1>21, <1>22
     DEF Next, OwnerStep, ProducerStep, PoolStep

\* A task is never in two places, so it is run once at most.  (That it gets from the
\* queue to a worker and is not lost is Implementation.)
THEOREM TasksRunOnce == Spec => []ExactlyOnce
<1>1. Spec => []OnceInv
  BY OnceInvInit, OnceInvStep, PoolInvAlways, PTL DEF Spec
<1> QED
  BY <1>1, PTL DEF OnceInv

-----------------------------------------------------------------------------
(* The capacity, and the signal on the qSize -> qSize - 1 transition.        *)

Bounded == Len(mTasks) <= qSize

\* The queue never exceeds qSize.
LEMMA BoundedAlways == Spec => []Bounded
<1>1. Init => Bounded
  BY DEF Init, Bounded
<1>2. PoolInv /\ Bounded /\ [Next]_vars => Bounded'
  <2> SUFFICES ASSUME PoolInv, Bounded, [Next]_vars PROVE Bounded'
    OBVIOUS
  <2> USE DEF PoolInv, TypeOK, Bounded
  <2>1. ASSUME NEW p \in Producers, AddTaskPush(p) PROVE Bounded'
    BY <2>1 DEF AddTaskPush, Full, ArgsPending
  <2>2. ASSUME NEW w \in Workers, TakePop(w) PROVE Bounded'
    BY <2>2 DEF TakePop, PopsHead
  <2>3. CASE UNCHANGED mTasks
    BY <2>3
  <2> QED
    BY <2>1, <2>2, <2>3
       DEF Next, OwnerStep, ProducerStep, PoolStep, vars, Start, Stop, StartThread, StopLock,
           StopBroadcast, StopJoined, AddTask, AddTaskLock, AddTaskWait, Full, AddTaskWake,
           AddTaskPost, JustFilled, RunLoop, TakeLock, TakeWait, TakeWake, TakeFront,
           TakePost, JustFreed, RunTask, SpuriousWake
<1> QED
  BY <1>1, <1>2, PoolInvAlways, PTL DEF Spec

\* The event loop is a server's only producer.
OneProducer == \A p, q \in Producers : p = q

\* The queue has been full since the producer fell asleep, but for the task that a
\* worker about to post has just popped.
FullWhileAsleep ==
    \A p \in isFull : Len(mTasks) = IF \E w \in Workers : pc[w] = "take_post"
                                   THEN qSize - 1 ELSE qSize

\* With one producer, every step keeps the reason why it sleeps.
LEMMA FullWhileAsleepStep ==
    OneProducer /\ PoolInv /\ PoolInv' /\ Bounded /\ FullWhileAsleep /\ [Next]_vars
        => FullWhileAsleep'
<1> SUFFICES ASSUME OneProducer, PoolInv, PoolInv', Bounded, FullWhileAsleep, [Next]_vars
             PROVE  FullWhileAsleep'
  OBVIOUS
<1> USE DEF OneProducer, PoolInv, TypeOK, MutexDiscipline, Critical, Threads, Clients,
Goto, Lock,
            Unlock, Post, Bounded, FullWhileAsleep
<1>1. CASE Start
  BY <1>1 DEF Start
<1>2. CASE Stop
  BY <1>2 DEF Stop
<1>3. ASSUME NEW w \in Workers, StartThread(w) PROVE FullWhileAsleep'
  BY <1>3 DEF StartThread
<1>4. CASE StopLock
  BY <1>4 DEF StopLock
<1>5. CASE StopBroadcast
  BY <1>5 DEF StopBroadcast
<1>6. CASE StopJoined
  BY <1>6 DEF StopJoined
<1>7. ASSUME NEW p \in Producers, NEW t \in Tasks, AddTask(p, t) PROVE FullWhileAsleep'
  BY <1>7 DEF AddTask
<1>8. ASSUME NEW p \in Producers, AddTaskLock(p) PROVE FullWhileAsleep'
  BY <1>8 DEF AddTaskLock
<1>9. ASSUME NEW p \in Producers, AddTaskWait(p) PROVE FullWhileAsleep'
  BY <1>9 DEF AddTaskWait, Full
<1>10. ASSUME NEW p \in Producers, AddTaskWake(p) PROVE FullWhileAsleep'
  BY <1>10 DEF AddTaskWake
<1>11. ASSUME NEW p \in Producers, AddTaskPush(p) PROVE FullWhileAsleep'
  BY <1>11 DEF AddTaskPush, Full
<1>12. ASSUME NEW p \in Producers, AddTaskPost(p) PROVE FullWhileAsleep'
  BY <1>12 DEF AddTaskPost, JustFilled
<1>13. ASSUME NEW w \in Workers, RunLoop(w) PROVE FullWhileAsleep'
  BY <1>13 DEF RunLoop
<1>14. ASSUME NEW w \in Workers, TakeLock(w) PROVE FullWhileAsleep'
  BY <1>14 DEF TakeLock
<1>15. ASSUME NEW w \in Workers, TakeWait(w) PROVE FullWhileAsleep'
  BY <1>15 DEF TakeWait
<1>16. ASSUME NEW w \in Workers, TakeWake(w) PROVE FullWhileAsleep'
  BY <1>16 DEF TakeWake
<1>17. ASSUME NEW w \in Workers, TakeFront(w) PROVE FullWhileAsleep'
  <2>1. isRunning
    BY <1>17, CriticalWorkerSeesRunning DEF TakeFront, TakeSeesRunning
  <2>2. \A v \in Workers : pc[v] # "take_post" /\ pc'[v] # "take_post"
    BY <1>17, <2>1 DEF TakeFront
  <2> QED
    BY <1>17, <2>2 DEF TakeFront
<1>18. ASSUME NEW w \in Workers, TakePop(w) PROVE FullWhileAsleep'
  BY <1>18 DEF TakePop
<1>19. ASSUME NEW w \in Workers, TakePost(w) PROVE FullWhileAsleep'
  BY <1>19 DEF TakePost, JustFreed
<1>20. ASSUME NEW w \in Workers, RunTask(w) PROVE FullWhileAsleep'
  BY <1>20 DEF RunTask
<1>21. ASSUME NEW x \in Threads, SpuriousWake(x) PROVE FullWhileAsleep'
  BY <1>21 DEF SpuriousWake
<1>22. CASE UNCHANGED vars
  BY <1>22 DEF vars
<1> QED
  BY <1>1, <1>2, <1>3, <1>4, <1>5, <1>6, <1>7, <1>8, <1>9, <1>10, <1>11, <1>12, <1>13,
     <1>14, <1>15, <1>16, <1>17, <1>18, <1>19, <1>20, <1>21, <1>22
     DEF Next, OwnerStep, ProducerStep, PoolStep

\* With one producer no wake-up of AddTask is lost: it sleeps only while the queue is
\* full, or while the worker that made room is about to signal.
THEOREM SpaceNotLost == OneProducer /\ Spec => []NoLostSpace
<1>1. Init => FullWhileAsleep
  BY DEF Init, FullWhileAsleep
<1>2. OneProducer => OneProducer'
  BY DEF OneProducer
<1>3. OneProducer /\ Spec => []FullWhileAsleep
  BY <1>1, <1>2, FullWhileAsleepStep, BoundedAlways, PoolInvAlways, PTL DEF Spec
<1>4. FullWhileAsleep => NoLostSpace
  BY DEF FullWhileAsleep, NoLostSpace
<1> QED
  BY <1>3, <1>4, PTL

-----------------------------------------------------------------------------
(* The pool implements TaskQueue.                                            *)

\* The pool starts as a closed, empty queue.
LEMMA RefinesInit == Init => Queue!QueueInit
BY DEF Init, Queue!QueueInit, Taken, Threads, Clients

TakenSame == \A v \in Workers : Taken(v)' = Taken(v)

Simulated == Queue!QueueNext \/ UNCHANGED Queue!queueVars

\* A step that queues, takes and finishes no task is a stutter of the queue.
LEMMA StutterSimulated ==
    ASSUME mTasks' = mTasks, isRunning' = isRunning, TakenSame
    PROVE  Simulated
BY DEF Simulated, TakenSame, Queue!queueVars

\* Every step of the pool is a step of the queue or leaves it as it is.
LEMMA RefinesStep ==
    PoolInv /\ PoolInv' /\ [Next]_vars => [Queue!QueueNext]_Queue!queueVars
<1> SUFFICES ASSUME PoolInv, PoolInv', [Next]_vars
             PROVE  Simulated
  BY DEF Simulated
<1> USE DEF PoolInv, TypeOK, Threads, Clients, Goto, HoldsTask, Taken, TakenSame
<1>1. CASE Start
  <2> USE <1>1 DEF Start
  <2>1. TakenSame
    OBVIOUS
  <2>2. CASE isRunning
    BY StutterSimulated, <2>1, <2>2
  <2>3. CASE ~isRunning
    BY <2>1, <2>3 DEF Simulated, Queue!QueueNext, Queue!Open
  <2> QED
    BY <2>2, <2>3
<1>2. CASE Stop
  BY StutterSimulated, <1>2 DEF Stop
<1>3. ASSUME NEW w \in Workers, StartThread(w) PROVE Simulated
  <2>1. TakenSame
    BY <1>3 DEF StartThread, Lifecycle
  <2> QED
    BY StutterSimulated, <1>3, <2>1 DEF StartThread
<1>4. CASE StopLock
  BY StutterSimulated, <1>4 DEF StopLock
<1>5. CASE StopBroadcast
  <2> USE <1>5 DEF StopBroadcast
  <2>1. TakenSame
    OBVIOUS
  <2>2. CASE ~isRunning
    BY StutterSimulated, <2>1, <2>2
  <2>3. CASE isRunning
    BY <2>1, <2>3 DEF Simulated, Queue!QueueNext, Queue!Close
  <2> QED
    BY <2>2, <2>3
<1>6. CASE StopJoined
  BY StutterSimulated, <1>6 DEF StopJoined
<1>7. ASSUME NEW p \in Producers, NEW t \in Tasks, AddTask(p, t) PROVE Simulated
  BY StutterSimulated, <1>7 DEF AddTask
<1>8. ASSUME NEW p \in Producers, AddTaskLock(p) PROVE Simulated
  BY StutterSimulated, <1>8 DEF AddTaskLock
<1>9. ASSUME NEW p \in Producers, AddTaskWait(p) PROVE Simulated
  BY StutterSimulated, <1>9 DEF AddTaskWait, Full
<1>10. ASSUME NEW p \in Producers, AddTaskWake(p) PROVE Simulated
  BY StutterSimulated, <1>10 DEF AddTaskWake
<1>11. ASSUME NEW p \in Producers, AddTaskPush(p) PROVE Simulated
  <2> USE <1>11 DEF AddTaskPush, Full
  <2>1. TakenSame
    OBVIOUS
  <2>2. PICK t \in Tasks : t = arg[p]
    BY DEF ArgsPending
  <2>3. [v \in Workers |-> Taken(v)]' = [v \in Workers |-> Taken(v)]
    BY <2>1
  <2>4. Queue!Put(t)
    BY <2>2, <2>3 DEF Queue!Put
  <2> QED
    BY <2>4 DEF Simulated, Queue!QueueNext
<1>12. ASSUME NEW p \in Producers, AddTaskPost(p) PROVE Simulated
  BY StutterSimulated, <1>12 DEF AddTaskPost, JustFilled
<1>13. ASSUME NEW w \in Workers, RunLoop(w) PROVE Simulated
  BY StutterSimulated, <1>13 DEF RunLoop
<1>14. ASSUME NEW w \in Workers, TakeLock(w) PROVE Simulated
  BY StutterSimulated, <1>14 DEF TakeLock
<1>15. ASSUME NEW w \in Workers, TakeWait(w) PROVE Simulated
  BY StutterSimulated, <1>15 DEF TakeWait
<1>16. ASSUME NEW w \in Workers, TakeWake(w) PROVE Simulated
  BY StutterSimulated, <1>16 DEF TakeWake
<1>17. ASSUME NEW w \in Workers, TakeFront(w) PROVE Simulated
  BY StutterSimulated, <1>17 DEF TakeFront
<1>18. ASSUME NEW w \in Workers, TakePop(w) PROVE Simulated
  <2> USE <1>18 DEF TakePop
  <2>1. mTasks # <<>> /\ task[w] = Head(mTasks)
    BY DEF PopsHead
  <2>2. isRunning
    BY CriticalWorkerSeesRunning DEF TakeSeesRunning
  <2>3. Taken(w) = NoTask /\ Taken(w)' = task[w]
    OBVIOUS
  <2>4. \A v \in Workers \ {w} : Taken(v)' = Taken(v)
    OBVIOUS
  <2>5. Queue!Take(w)
    <3>1. [v \in Workers |-> Taken(v)]' = [[v \in Workers |-> Taken(v)] EXCEPT ![w] = Head(mTasks)]
      <4> HIDE DEF Taken
      <4> QED
        BY <2>1, <2>3, <2>4
    <3>2. mTasks' = Tail(mTasks) /\ isRunning' = isRunning
      OBVIOUS
    <3> HIDE DEF Taken
    <3> QED
      BY <2>1, <2>2, <2>3, <3>1, <3>2 DEF Queue!Take
  <2> QED
    BY <2>5 DEF Simulated, Queue!QueueNext
<1>19. ASSUME NEW w \in Workers, TakePost(w) PROVE Simulated
  BY StutterSimulated, <1>19 DEF TakePost, JustFreed
<1>20. ASSUME NEW w \in Workers, RunTask(w) PROVE Simulated
  <2> USE <1>20 DEF RunTask
  <2>1. Taken(w) # NoTask /\ Taken(w)' = NoTask
    OBVIOUS
  <2>2. \A v \in Workers \ {w} : Taken(v)' = Taken(v)
    OBVIOUS
  <2>3. Queue!Finish(w)
    <3>1. [v \in Workers |-> Taken(v)]' = [[v \in Workers |-> Taken(v)] EXCEPT ![w] = NoTask]
      BY <2>1, <2>2
    <3> QED
      BY <2>1, <3>1 DEF Queue!Finish
  <2> QED
    BY <2>3 DEF Simulated, Queue!QueueNext
<1>21. ASSUME NEW x \in Threads, SpuriousWake(x) PROVE Simulated
  BY StutterSimulated, <1>21 DEF SpuriousWake
<1>22. CASE UNCHANGED vars
  <2>1. TakenSame
    BY <1>22 DEF vars
  <2> QED
    BY StutterSimulated, <1>22, <2>1 DEF vars
<1> QED
  BY <1>1, <1>2, <1>3, <1>4, <1>5, <1>6, <1>7, <1>8, <1>9, <1>10, <1>11, <1>12, <1>13,
     <1>14, <1>15, <1>16, <1>17, <1>18, <1>19, <1>20, <1>21, <1>22
     DEF Next, OwnerStep, ProducerStep, PoolStep

\* The pool is a bounded FIFO queue whose tasks are taken oldest first, by one worker
\* each, and only while isRunning is set.
THEOREM Implementation == Spec => ImplementsTaskQueue
<1>1. Spec => Queue!QueueSpec
  BY RefinesInit, RefinesStep, PoolInvAlways, PTL DEF Spec, Queue!QueueSpec
<1> QED
  BY <1>1 DEF ImplementsTaskQueue
=============================================================================
