SPECIFICATION Spec
CONSTANTS
    Sig <- SomeSigs
    OutLen = {1, 2}
    SUCCESS = 0
    FAILURE = 1
CHECK_DEADLOCK FALSE
INVARIANTS
    BareReturns
