CONSTANTS
  r1 = r1
  r2 = r2
  t1 = t1
  t2 = t2
  s1 = s1
  s2 = s2
  RoomCode = {r1, r2}
  Token = {t1, t2}
  Socket = {s1, s2}
  o = o
  Other = {o}
  NoCopy = NoCopy
  NoSession = NoSession
  NoSocket = NoSocket
  MaxQueue = 2
  MaxRequests = 3
  MaxRestarts = 1
SYMMETRY Symmetry
SPECIFICATION Spec
INVARIANTS
  TypeOK
  HearsOnlyItsRoomOrOnesLeft
  ConfirmedPageHears
  PresenceAccounted
CHECK_DEADLOCK FALSE
