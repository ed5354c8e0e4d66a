SPECIFICATION Spec
CONSTANTS
    n1 = n1
    n2 = n2
    n3 = n3
    n4 = n4
    Node = {n1, n2, n3, n4}
    Nil = Nil
    Index <- AllIndexes
    MinLeft = 1
SYMMETRY Symmetric
CHECK_DEADLOCK FALSE
INVARIANTS
    WellFormed
    IterationComplete
PROPERTIES
    SequenceSpec
