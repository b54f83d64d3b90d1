CONSTANTS
    Conversations <- Ordinary
    LengthHeader <- Lengths
    kBufferSize = 8
    Bodies <- TwoBodies
    Files <- TwoFiles
SPECIFICATION ServerFairSpec
INVARIANTS
    ServerTypeOK
    NothingSkipped
    AnswersExactly
    
PROPERTIES
    VerdictReached
    KeptByBoth
\* A closed connection, or a client that has nothing more to send, takes no step.
CHECK_DEADLOCK FALSE
