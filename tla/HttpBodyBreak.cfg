CONSTANTS
    Conversations <- BodyWithBreak
    LengthHeader <- Lengths
    kBufferSize = 8
SPECIFICATION Spec
INVARIANTS
    NoRequestMeansUnread
\* A client that has sent its requests takes no step.
CHECK_DEADLOCK FALSE
