CONSTANTS
  t1 = t1
  t2 = t2
  t3 = t3
  Token = {t1, t2, t3}
  Machine = machine
  Nobody = nobody
  Absent = absent
  InitialMs = 2
  BotMoveDelayMs = 1
  WonOnBoard = "checkmate"
  MaxMoves = 3
  MaxTime = 4
SPECIFICATION Spec
SYMMETRY TokenSymmetry
CHECK_DEADLOCK FALSE
INVARIANTS
  RoomSound
PROPERTIES
  FinishedIsFinal
  SeatsKept
  NoMoveAfterFlag
  ImplementsMatch
