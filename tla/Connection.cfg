CONSTANTS
    kBufferSize = 3
    Bytes <- ByteNumbers
    Nul = 0
    SocketBuffer = 2
    MaxSent = 4
    MaxQueued = 4
SPECIFICATION FairSpec
INVARIANTS
    TypeOK
    StreamIntact
    ResponseIntact
    
    ClosedOnlyWhenDue
PROPERTIES
    ImplementsConnectionLife
    
    
\* A closed connection whose bytes have all arrived has nothing left to do.
CHECK_DEADLOCK FALSE
