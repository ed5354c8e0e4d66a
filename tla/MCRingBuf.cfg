SPECIFICATION Spec
CONSTANTS
    N = 4
    MaxChunk = 5
    Zero = Zero
    Byte = {Zero, One}
    NULL = NULL
    Chunk <- MCChunk
    ReadSize <- MCReadSize
CHECK_DEADLOCK FALSE
INVARIANTS
    CursorsAgree
PROPERTIES
    FifoSpec
    FullIsStuck
