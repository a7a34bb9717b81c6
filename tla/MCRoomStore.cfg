CONSTANTS
  t1 = t1
  t2 = t2
  w1 = w1
  w2 = w2
  Token = {t1, t2}
  Worker = {w1, w2}
  Ticker = ticker
  Machine = machine
  Nobody = nobody
  Absent = absent
  InitialMs = 1
  BotMoveDelayMs = 1
  WonOnBoard = "checkmate"
  MaxMoves = 2
  MaxTime = 2
  MaxRequests = 3
  MaxRestarts = 1
SPECIFICATION Spec
SYMMETRY Symmetry
CHECK_DEADLOCK FALSE
INVARIANTS
  AllSound
PROPERTIES
  UndoneOnlyByStaleCopy
