CONSTANTS
    w1 = w1  w2 = w2
    Main = Main
    ListenFd = 3
    NoConn = NoConn  NoTask = NoTask
    Workers <- TwoWorkers
    Fds <- TwoFds
    Conns <- FourConns
    MaxBacklog = 1
    qSize = 1
SYMMETRY WorkerSymmetry
SPECIFICATION Spec
INVARIANTS
    OneHandler
    
    EventHasEntry
    MapMatchesObjects
    RearmsOwn
    HandlerReady
    NoCircle
PROPERTIES
    ImplementsConnectionLife
\* A crashed process takes no step.
CHECK_DEADLOCK FALSE
