SPECIFICATION ScopedSpec
CONSTANTS
  Main = main
  NULL = NULL
  Threads = {main, roll}
  Nodes = {n1, n2, n3}
  Intervals = {1, 2}
  MaxReg = 3
  MaxTime = 3
SYMMETRY BlockSymmetry
CHECK_DEADLOCK FALSE
INVARIANTS TypeOK EngineAlive ListSound NoOversleep
PROPERTIES EngineSpec
