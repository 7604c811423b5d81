CONSTANTS
    Main = main
    Threads = {main}
    Nodes = {n1, n2, n3}
    NULL = NULL
    Intervals = {1}
    MaxReg = 3
    MaxTime = 3
SYMMETRY BlockSymmetry
SPECIFICATION ScopedSpec
CHECK_DEADLOCK FALSE
INVARIANT StillInTheFuture
