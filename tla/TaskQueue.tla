------------------------------ MODULE TaskQueue ------------------------------
(***************************************************************************)
(* What base::ThreadPool promises its callers, with no thread, mutex or    *)
(* condition variable in sight: a bounded FIFO of tasks, filled by AddTask *)
(* and emptied by the workers, each of which runs one task at a time and   *)
(* takes the oldest one, and only while the pool is serving.               *)
(*                                                                         *)
(* ThreadPool implements this module (ThreadPool!ImplementsTaskQueue), and *)
(* Server composes it with the event loop in place of the detailed pool.   *)
(***************************************************************************)
EXTENDS Naturals, Sequences

CONSTANTS Tasks,     \* the values a queued ThreadTask may take
          Workers,   \* the worker threads
          Capacity,  \* qSize, the largest number of queued tasks
          NoTask     \* an empty std::function

VARIABLES queue,     \* the tasks queued, oldest first
          running,   \* running[w]: the task worker w runs, or NoTask
          serving    \* workers may take tasks: between Start and Stop

queueVars == <<queue, running, serving>>

QueueTypeOK ==
    /\ queue \in Seq(Tasks)
    /\ Len(queue) <= Capacity
    /\ running \in [Workers -> Tasks \cup {NoTask}]
    /\ serving \in BOOLEAN

QueueInit ==
    /\ queue = <<>>
    /\ running = [w \in Workers |-> NoTask]
    /\ serving = FALSE

\* AddTask has queued t.
Put(t) ==
    /\ Len(queue) < Capacity
    /\ queue' = Append(queue, t)
    /\ running' = running
    /\ serving' = serving

\* Worker w has taken the oldest task and is about to run it.
Take(w) ==
    /\ serving
    /\ running[w] = NoTask
    /\ queue # <<>>
    /\ running' = [running EXCEPT ![w] = Head(queue)]
    /\ queue' = Tail(queue)
    /\ serving' = serving

\* The task worker w was running has returned.
Finish(w) ==
    /\ running[w] # NoTask
    /\ running' = [running EXCEPT ![w] = NoTask]
    /\ queue' = queue
    /\ serving' = serving

\* Start, and later Stop, have written isRunning.
Open ==
    /\ ~serving
    /\ serving' = TRUE
    /\ UNCHANGED <<queue, running>>

Close ==
    /\ serving
    /\ serving' = FALSE
    /\ UNCHANGED <<queue, running>>

QueueNext ==
    \/ \E t \in Tasks : Put(t)
    \/ \E w \in Workers : Take(w) \/ Finish(w)
    \/ Open
    \/ Close

QueueSpec == QueueInit /\ [][QueueNext]_queueVars
==============================================================================
