CONSTANTS
  t1 = t1
  t2 = t2
  Token = {t1, t2}
  Machine = machine
  Nobody = nobody
  Absent = absent
  InitialMs = 1
  BotMoveDelayMs = 0
  WonOnBoard = "won"
  MaxMoves = 9
  MaxTime = 1
SPECIFICATION Spec
SYMMETRY TokenSymmetry
CHECK_DEADLOCK FALSE
INVARIANTS
  TablesAlike
  VerdictOnBoard
  MarksAlternate
PROPERTIES
  EasyPriorities
  ImplementsMatch

