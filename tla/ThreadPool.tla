----------------------------- MODULE ThreadPool -----------------------------
(***************************************************************************)
(* base::ThreadPool (base/ThreadPool.cpp) with the Mutex, the two          *)
(* Conditions and the Threads it is built from.                            *)
(*                                                                         *)
(* A step is what a thread does between two points where another thread    *)
(* may interfere: an acquisition of mMutex, an access made while holding   *)
(* it, the atomic release-and-sleep of pthread_cond_wait, or a read of the *)
(* unprotected isRunning flag.                                             *)
(***************************************************************************)
EXTENDS Naturals, Sequences, FiniteSets, Functions

CONSTANTS Workers,   \* the threads Start creates; workers = Cardinality(Workers)
          Producers, \* the threads that call AddTask
          Owner,     \* the thread that calls Start and Stop
          Tasks,     \* one identity per AddTask call in progress or task in flight
          qSize,     \* the capacity given to the constructor
          MayStop,   \* whether the owner ever stops the pool
          NoTask,    \* an empty std::function
          NoThread   \* the holder of a free mutex

Clients == Producers \cup {Owner}
Threads == Workers \cup Clients

ASSUME PoolAssumption ==
    /\ Workers # {} /\ IsFiniteSet(Workers)
    /\ Workers \cap Clients = {}
    /\ NoThread \notin Threads
    /\ NoTask \notin Tasks
    /\ qSize \in Nat \ {0}
    /\ MayStop \in BOOLEAN

VARIABLES pc,        \* where each thread is
          mutex,     \* the thread holding mMutex, or NoThread
          isRunning,
          isFull,    \* the threads asleep in isFull.wait(), none of them signalled
          isEmpty,   \* the threads asleep in isEmpty.wait(), none of them signalled
          mTasks,
          arg,       \* arg[p]: the task p passed to the AddTask it is in
          task,      \* task[w]: the local ThreadTask t of take() and runInThread()
          mThreads   \* the workers created so far

vars == <<pc, mutex, isRunning, isFull, isEmpty, mTasks, arg, task, mThreads>>

ClientStates == {"idle", "start", "add_lock", "add_test", "add_wait", "add_post",
                 "stop_lock", "stop_crit", "stop_join", "stopped"}
WorkerStates == {"unborn", "loop", "take_lock", "take_test", "take_wait",
                 "take_pop", "take_post", "run", "exited"}

\* The control states in which a thread holds mMutex.
Critical == {"add_test", "add_post", "take_test", "take_pop", "take_post",
             "stop_crit", "stop_join"}

TypeOK ==
    /\ pc \in [Threads -> ClientStates \cup WorkerStates]
    /\ \A x \in Threads : pc[x] \in IF x \in Workers THEN WorkerStates ELSE ClientStates
    /\ mutex \in Threads \cup {NoThread}
    /\ isRunning \in BOOLEAN
    /\ isFull \subseteq Producers
    /\ isEmpty \subseteq Workers
    /\ mTasks \in Seq(Tasks)
    /\ arg \in [Producers -> Tasks \cup {NoTask}]
    /\ task \in [Workers -> Tasks \cup {NoTask}]
    /\ mThreads \subseteq Workers

Init ==
    /\ pc = [x \in Threads |-> IF x \in Workers THEN "unborn" ELSE "idle"]
    /\ mutex = NoThread
    /\ isRunning = FALSE
    /\ isFull = {}
    /\ isEmpty = {}
    /\ mTasks = <<>>
    /\ arg = [p \in Producers |-> NoTask]
    /\ task = [w \in Workers |-> NoTask]
    /\ mThreads = {}

-----------------------------------------------------------------------------
(* Mutex and Condition.                                                      *)

Goto(x, label) == pc' = [pc EXCEPT ![x] = label]

Lock(x) == mutex = NoThread /\ mutex' = x

Unlock == mutex' = NoThread

\* Condition::post: one sleeper is signalled, if there is one.
Post(sleepers, sleepersAfter) ==
    \/ sleepers = {} /\ sleepersAfter = {}
    \/ \E x \in sleepers : sleepersAfter = sleepers \ {x}

-----------------------------------------------------------------------------
(* Start: sets isRunning, then creates and starts one thread per iteration.  *)

Start ==
    /\ pc[Owner] = "idle"
    /\ mThreads = {}
    /\ isRunning' = TRUE
    /\ Goto(Owner, "start")
    /\ UNCHANGED <<mutex, isFull, isEmpty, mTasks, arg, task, mThreads>>

StartThread(w) ==
    /\ pc[Owner] = "start"
    /\ w \notin mThreads
    /\ mThreads' = mThreads \cup {w}
    /\ pc' = [pc EXCEPT ![w] = "loop",
                        ![Owner] = IF mThreads' = Workers THEN "idle" ELSE "start"]
    /\ UNCHANGED <<mutex, isRunning, isFull, isEmpty, mTasks, arg, task>>

-----------------------------------------------------------------------------
(* AddTask.                                                                  *)

\* The tasks queued, held by a worker, or passed to an AddTask that has not
\* queued them yet.
InUse == Range(mTasks) \cup Range(task) \cup Range(arg)

AddTask(p, t) ==
    /\ pc[p] = "idle"
    /\ t \notin InUse
    /\ arg' = [arg EXCEPT ![p] = t]
    /\ Goto(p, "add_lock")
    /\ UNCHANGED <<mutex, isRunning, isFull, isEmpty, mTasks, task, mThreads>>

AddTaskLock(p) ==
    /\ pc[p] = "add_lock"
    /\ Lock(p)
    /\ Goto(p, "add_test")
    /\ UNCHANGED <<isRunning, isFull, isEmpty, mTasks, arg, task, mThreads>>

\* Mutant: the capacity test is off by one.
FullOver == Len(mTasks) > qSize

Full == Len(mTasks) >= qSize

AddTaskWait(p) ==
    /\ pc[p] = "add_test"
    /\ Full
    /\ isFull' = isFull \cup {p}
    /\ Unlock
    /\ Goto(p, "add_wait")
    /\ UNCHANGED <<isRunning, isEmpty, mTasks, arg, task, mThreads>>

AddTaskWake(p) ==
    /\ pc[p] = "add_wait"
    /\ p \notin isFull
    /\ Lock(p)
    /\ Goto(p, "add_test")
    /\ UNCHANGED <<isRunning, isFull, isEmpty, mTasks, arg, task, mThreads>>

AddTaskPush(p) ==
    /\ pc[p] = "add_test"
    /\ ~Full
    /\ mTasks' = Append(mTasks, arg[p])
    /\ arg' = [arg EXCEPT ![p] = NoTask]
    /\ Goto(p, "add_post")
    /\ UNCHANGED <<mutex, isRunning, isFull, isEmpty, task, mThreads>>

\* Mutant: the signal is sent when the queue was already non-empty.
JustFilledLate == Len(mTasks) > 1

\* isEmpty is signalled only when the queue has just become non-empty.
JustFilled == Len(mTasks) = 1

AddTaskPost(p) ==
    /\ pc[p] = "add_post"
    /\ IF JustFilled THEN Post(isEmpty, isEmpty') ELSE UNCHANGED isEmpty
    /\ Unlock
    /\ Goto(p, "idle")
    /\ UNCHANGED <<isRunning, isFull, mTasks, arg, task, mThreads>>

-----------------------------------------------------------------------------
(* runInThread and take.                                                     *)

RunLoop(w) ==
    /\ pc[w] = "loop"
    /\ Goto(w, IF isRunning THEN "take_lock" ELSE "exited")
    /\ UNCHANGED <<mutex, isRunning, isFull, isEmpty, mTasks, arg, task, mThreads>>

TakeLock(w) ==
    /\ pc[w] = "take_lock"
    /\ Lock(w)
    /\ Goto(w, "take_test")
    /\ UNCHANGED <<isRunning, isFull, isEmpty, mTasks, arg, task, mThreads>>

TakeWait(w) ==
    /\ pc[w] = "take_test"
    /\ mTasks = <<>>
    /\ isEmpty' = isEmpty \cup {w}
    /\ Unlock
    /\ Goto(w, "take_wait")
    /\ UNCHANGED <<isRunning, isFull, mTasks, arg, task, mThreads>>

\* Mutant: the wait returns without the mutex.
TakeWakeUnlocked(w) ==
    /\ pc[w] = "take_wait"
    /\ w \notin isEmpty
    /\ Goto(w, "take_test")
    /\ UNCHANGED <<mutex, isRunning, isFull, isEmpty, mTasks, arg, task, mThreads>>

TakeWake(w) ==
    /\ pc[w] = "take_wait"
    /\ w \notin isEmpty
    /\ Lock(w)
    /\ Goto(w, "take_test")
    /\ UNCHANGED <<isRunning, isFull, isEmpty, mTasks, arg, task, mThreads>>

\* t = mTasks.front() while the pool runs, t = nullptr once it is stopped.
TakeFront(w) ==
    /\ pc[w] = "take_test"
    /\ mTasks # <<>>
    /\ IF isRunning
       THEN task' = [task EXCEPT ![w] = Head(mTasks)] /\ Goto(w, "take_pop")
       ELSE task' = [task EXCEPT ![w] = NoTask] /\ Goto(w, "take_post")
    /\ UNCHANGED <<mutex, isRunning, isFull, isEmpty, mTasks, arg, mThreads>>

\* Mutant: front() without pop().
TakeNoPop(w) ==
    /\ pc[w] = "take_pop"
    /\ Goto(w, "take_post")
    /\ UNCHANGED <<mutex, isRunning, isFull, isEmpty, mTasks, arg, task, mThreads>>

TakePop(w) ==
    /\ pc[w] = "take_pop"
    /\ mTasks' = Tail(mTasks)
    /\ Goto(w, "take_post")
    /\ UNCHANGED <<mutex, isRunning, isFull, isEmpty, arg, task, mThreads>>

\* Mutant: room is announced one pop too early.
JustFreedEarly == Len(mTasks) = qSize

\* isFull is signalled only when the queue has just stopped being full (or,
\* with t = nullptr, whenever it has qSize - 1 tasks).
JustFreed == Len(mTasks) = qSize - 1

TakePost(w) ==
    /\ pc[w] = "take_post"
    /\ IF JustFreed THEN Post(isFull, isFull') ELSE UNCHANGED isFull
    /\ Unlock
    /\ Goto(w, IF task[w] = NoTask THEN "loop" ELSE "run")
    /\ UNCHANGED <<isRunning, isEmpty, mTasks, arg, task, mThreads>>

\* t() returns, and t is destroyed at the end of the loop body.
RunTask(w) ==
    /\ pc[w] = "run"
    /\ task' = [task EXCEPT ![w] = NoTask]
    /\ Goto(w, "loop")
    /\ UNCHANGED <<mutex, isRunning, isFull, isEmpty, mTasks, arg, mThreads>>

-----------------------------------------------------------------------------
(* Stop, called by Server::~Server or by ~ThreadPool.  The MutexLock is a    *)
(* local of Stop, so mMutex is held until every join has returned.           *)

Stop ==
    /\ MayStop
    /\ pc[Owner] = "idle"
    /\ mThreads = Workers
    /\ Goto(Owner, "stop_lock")
    /\ UNCHANGED <<mutex, isRunning, isFull, isEmpty, mTasks, arg, task, mThreads>>

StopLock ==
    /\ pc[Owner] = "stop_lock"
    /\ Lock(Owner)
    /\ Goto(Owner, "stop_crit")
    /\ UNCHANGED <<isRunning, isFull, isEmpty, mTasks, arg, task, mThreads>>

\* Mutant: Stop clears the flag and releases mMutex before it joins.
StopBroadcastUnlock ==
    /\ pc[Owner] = "stop_crit"
    /\ isRunning' = FALSE
    /\ isFull' = {}
    /\ isEmpty' = {}
    /\ Unlock
    /\ Goto(Owner, "stop_join")
    /\ UNCHANGED <<mTasks, arg, task, mThreads>>

StopBroadcast ==
    /\ pc[Owner] = "stop_crit"
    /\ isRunning' = FALSE
    /\ isFull' = {}
    /\ isEmpty' = {}
    /\ Goto(Owner, "stop_join")
    /\ UNCHANGED <<mutex, mTasks, arg, task, mThreads>>

\* The loop of joins ends when every thread created has returned.
StopJoined ==
    /\ pc[Owner] = "stop_join"
    /\ \A w \in mThreads : pc[w] = "exited"
    /\ Unlock
    /\ Goto(Owner, "stopped")
    /\ UNCHANGED <<isRunning, isFull, isEmpty, mTasks, arg, task, mThreads>>

-----------------------------------------------------------------------------
(* pthread_cond_wait may return without a signal.                            *)

SpuriousWake(x) ==
    /\ x \in isFull \cup isEmpty
    /\ isFull' = isFull \ {x}
    /\ isEmpty' = isEmpty \ {x}
    /\ UNCHANGED <<pc, mutex, isRunning, mTasks, arg, task, mThreads>>

-----------------------------------------------------------------------------
\* What a thread does once it is inside an operation of the pool.
ProducerStep(p) ==
    \/ AddTaskLock(p) \/ AddTaskWait(p) \/ AddTaskWake(p)
    \/ AddTaskPush(p) \/ AddTaskPost(p)

OwnerStep == (\E w \in Workers : StartThread(w)) \/ StopLock \/ StopBroadcast \/ StopJoined

PoolStep(w) ==
    \/ RunLoop(w) \/ TakeLock(w) \/ TakeWait(w) \/ TakeWake(w)
    \/ TakeFront(w) \/ TakePop(w) \/ TakePost(w)

Next ==
    \/ Start \/ Stop \/ OwnerStep
    \/ \E p \in Producers : (\E t \in Tasks : AddTask(p, t)) \/ ProducerStep(p)
    \/ \E w \in Workers : PoolStep(w) \/ RunTask(w)
    \/ \E x \in Threads : SpuriousWake(x)

Spec == Init /\ [][Next]_vars

\* Every thread inside the pool is scheduled again and again, the tasks return
\* (the handlers the server queues do no blocking call), and spurious wake-ups
\* do not go on for ever.  Nobody is obliged to call Start, AddTask or Stop, and
\* a thread contending for mMutex may be overtaken any number of times (no
\* strong fairness).
Fairness ==
    /\ WF_vars(OwnerStep)
    /\ \A p \in Producers : WF_vars(ProducerStep(p))
    /\ \A w \in Workers : WF_vars(PoolStep(w)) /\ WF_vars(RunTask(w))
    /\ <>[][\A x \in Threads : ~SpuriousWake(x)]_vars

FairSpec == Spec /\ Fairness

-----------------------------------------------------------------------------
\* mMutex is held by exactly the thread that is inside a critical section, and
\* a thread asleep on a condition is inside the matching wait.
MutexDiscipline ==
    /\ \A x \in Threads : pc[x] \in Critical <=> mutex = x
    /\ \A p \in isFull : pc[p] = "add_wait"
    /\ \A w \in isEmpty : pc[w] = "take_wait"

Stopping == pc[Owner] \in {"stop_join", "stopped"}

\* Signalling isEmpty only on the 0 -> 1 transition (ThreadPool.cpp:61) never
\* strands the queue: while tasks are queued some worker is neither asleep
\* without a signal nor gone.  AddTaskPush has yet to signal at "add_post".
NoLostWakeup ==
    (mTasks # <<>> /\ ~Stopping /\ \A p \in Producers : pc[p] # "add_post")
        => \E w \in Workers : w \notin isEmpty /\ pc[w] # "exited"

\* Signalling isFull only on the qSize -> qSize - 1 transition
\* (ThreadPool.cpp:81) never strands the event loop, the only producer of a
\* server: it sleeps unsignalled only while the queue is full, or while the
\* worker that made room is on its way to post.
NoLostSpace ==
    \A p \in isFull : Len(mTasks) = qSize \/ \E w \in Workers : pc[w] = "take_post"

\* The task worker w has removed from the queue.
Taken(w) == IF pc[w] \in {"take_post", "run"} THEN task[w] ELSE NoTask

\* Every task is in one place only: no two workers run the same task, none is
\* queued twice or queued again while it runs.
ExactlyOnce ==
    /\ IsInjective(mTasks)
    /\ \A w \in Workers : Taken(w) \notin Range(mTasks)
    /\ \A v, w \in Workers : Taken(v) = Taken(w) => v = w \/ Taken(v) = NoTask
    /\ \A p \in Producers : arg[p] \notin Range(mTasks)
    /\ \A p \in Producers, w \in Workers : arg[p] = Taken(w) => arg[p] = NoTask

\* Stop joins its workers while holding the mutex that a worker inside take()
\* needs in order to return: while Stop joins, such a worker stays where it is.
StopBlocksTake ==
    [][Stopping /\ pc[Owner] # "stopped" =>
          \A w \in Workers : pc[w] \in {"take_lock", "take_wait"} => pc'[w] = pc[w]]_vars

\* A worker inside the critical section of take() always finds isRunning set:
\* the t = nullptr branch (ThreadPool.cpp:79) that is meant to let the workers
\* of a stopped pool leave is never taken.
TakeSeesRunning ==
    \A w \in Workers : pc[w] \in {"take_test", "take_pop", "take_post"} => isRunning

\* The pool is a bounded FIFO: a task leaves the queue when a worker pops it,
\* oldest first, and never after Stop has cleared isRunning.
Queue == INSTANCE TaskQueue WITH Capacity <- qSize, queue <- mTasks, serving <- isRunning,
                                 running <- [w \in Workers |-> Taken(w)]

ImplementsTaskQueue == Queue!QueueSpec

-----------------------------------------------------------------------------
\* Every task queued in a started pool is eventually run, although sleeping
\* workers are not signalled for the second and later tasks of a burst.
EveryTaskRuns ==
    \A t \in Tasks :
        isRunning /\ t \in Range(mTasks) ~> \E w \in Workers : Taken(w) = t

\* An AddTask called on a started pool eventually returns, although it waits
\* while the queue is full.  (Called before Start, it may wait for ever.)
AddTaskReturns ==
    \A p \in Producers : isRunning /\ pc[p] = "add_lock" ~> pc[p] = "idle"

-----------------------------------------------------------------------------
(* Statements of the repository the code does not keep.                      *)

\* "A thread pool based on a blocking queue processes the requests
\* concurrently" (README.md:8): no task is left queued while a worker sleeps
\* and nothing but other tasks is going on.
Quiescent ==
    /\ \A w \in Workers : w \in isEmpty \/ pc[w] = "run"
    /\ \A p \in Clients : pc[p] = "idle" \/ p \in isFull

ProcessesConcurrently ==
    Quiescent /\ mTasks # <<>> => isEmpty = {}

\* "Wake up the blocked threads" (ThreadPool.cpp:45): a worker blocked in
\* take() when Stop broadcasts does return from its wait.
StopWakesBlocked ==
    \A w \in Workers :
        (pc[Owner] = "stop_join" /\ pc[w] = "take_wait") ~> pc[w] # "take_wait"
=============================================================================
