CONSTANTS
  t1 = t1
  t2 = t2
  Token = {t1, t2}
  Machine = machine
  Nobody = nobody
  Absent = absent
  InitialMs = 2
  BotMoveDelayMs = 1
  WonOnBoard = "checkmate"
  MaxMoves = 3
  MaxTime = 5
  EngineUpAt = 3
SPECIFICATION LiveSpec
CHECK_DEADLOCK FALSE
PROPERTIES
  TimedGameEnds
  BotReplies
