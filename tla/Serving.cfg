SPECIFICATION Serving
CONSTANTS
  Clients = {c1, c2, c3}
  NoClient = NoClient
  Rollers = {r1}
  PollLimit = 1
  NoticeBeat = 2
  MaxLost = 1
CHECK_DEADLOCK FALSE
INVARIANTS LoopTypeOK CodeIsTheOutcome
PROPERTIES TerminalsSpec TerminalIsServed RollerEnds
