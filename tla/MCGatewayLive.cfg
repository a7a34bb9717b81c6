CONSTANTS
  r1 = r1
  t1 = t1
  s1 = s1
  s2 = s2
  RoomCode = {r1}
  Token = {t1}
  Socket = {s1, s2}
  o = o
  Other = {o}
  NoCopy = NoCopy
  NoSession = NoSession
  NoSocket = NoSocket
  MaxQueue = 2
  MaxRequests = 2
  MaxRestarts = 1
SPECIFICATION LiveSpec
PROPERTIES
  PresenceRepaired
  GoneIsShownAway
CHECK_DEADLOCK FALSE
