---------------------------- MODULE MCThreadPool ----------------------------
(* Model values of the instances of ThreadPool that TLC checks. *)
EXTENDS ThreadPool, TLC

CONSTANTS w1, w2, w3, p1, p2, main, o, t1, t2, t3, t4, t5, t6

TwoWorkers == {w1, w2}
ThreeWorkers == {w1, w2, w3}
TwoProducers == {p1, p2}
EventLoop == {main}
FiveTasks == {t1, t2, t3, t4, t5}
SixTasks == {t1, t2, t3, t4, t5, t6}

PoolSymmetry == Permutations(ThreeWorkers) \cup Permutations(TwoProducers)
                   \cup Permutations(SixTasks)
=============================================================================
