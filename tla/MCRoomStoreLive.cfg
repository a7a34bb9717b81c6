CONSTANTS
  t1 = t1
  t2 = t2
  w1 = w1
  Token = {t1, t2}
  Worker = {w1}
  Ticker = ticker
  Machine = machine
  Nobody = nobody
  Absent = absent
  InitialMs = 1
  BotMoveDelayMs = 1
  WonOnBoard = "checkmate"
  MaxMoves = 2
  MaxTime = 3
  MaxRequests = 3
  MaxRestarts = 1
SPECIFICATION LiveSpec
CHECK_DEADLOCK FALSE
PROPERTIES
  TrackedAgain
  ClockStops
