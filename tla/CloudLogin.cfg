SPECIFICATION Spec
CONSTANTS
  Rollers = {r1}
  Addrs = {a1, a2}
  NoAddr = NoAddr
  MaxSessions = 3
SYMMETRY LoginSymmetry
INVARIANTS TypeOK CopyFollowsLogin ChangeIsExact
PROPERTIES RetryIsNew
