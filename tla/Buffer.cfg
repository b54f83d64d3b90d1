CONSTANTS
    kBufferSize = 4
    Bytes <- ThreeBytes
    Nul = 0
SPECIFICATION BufferSpec
INVARIANTS
    PointerOrder
PROPERTIES
    ImplementsByteQueue
