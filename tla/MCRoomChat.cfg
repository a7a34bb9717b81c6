CONSTANTS
  p1 = p1
  p2 = p2
  Page = {p1, p2}
  Ticker = Ticker
  NoRoomChat = NoRoomChat
  MaxChatHistory = 3
  MaxMessages = 5
  MaxMoves = 2
SYMMETRY Symmetry
SPECIFICATION Spec
INVARIANTS
  HistorySound
  NoMessageMissed
  NoCommentTwiceInARow
CHECK_DEADLOCK FALSE
