SPECIFICATION BuffersSpec
CONSTANTS
    Sig <- SomeSigs
    OutLen = {1, 2}
    SUCCESS = 0
    FAILURE = 1
    a = a
    b = b
    sp = sp
    NUL = NUL
    Char <- Letters
    Blank <- Blanks
    DEFAULT_STRING_LEN = 2
    MaxLen = 4
    MaxArg = 2
CHECK_DEADLOCK FALSE
INVARIANTS
    
    TypeOK
    WellFormed
    SplitJoins
PROPERTIES
    LocalSpec
    ValueSpec
