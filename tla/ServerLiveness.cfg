CONSTANTS
    w1 = w1  w2 = w2
    Main = Main
    ListenFd = 3
    NoConn = NoConn  NoTask = NoTask
    Workers <- OneWorker
    Fds <- TwoFds
    Conns <- FourConns
    MaxBacklog = 1
    qSize = 1
SPECIFICATION FairSpec
PROPERTIES
    LoopReturns
    
\* A crashed process takes no step.
CHECK_DEADLOCK FALSE
