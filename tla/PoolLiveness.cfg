CONSTANTS
    w1 = w1  w2 = w2  w3 = w3
    p1 = p1  p2 = p2  main = main  o = o
    t1 = t1  t2 = t2  t3 = t3  t4 = t4  t5 = t5  t6 = t6
    NoTask = NoTask
    NoThread = NoThread
    Workers <- TwoWorkers
    Producers <- EventLoop
    Owner = main
    Tasks <- FiveTasks
    qSize = 2
    MayStop = FALSE
SPECIFICATION FairSpec
INVARIANTS
    NoLostSpace
PROPERTIES
    EveryTaskRuns
    AddTaskReturns
