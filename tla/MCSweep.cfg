CONSTANTS
  c1 = c1
  c2 = c2
  t1 = t1
  ChessRoom <- ChessRooms
  TicTacToeRoom <- TicTacToeRooms
  Training <- InTraining
  Unreadable <- Broken
  Deadline = 5
  BotTimeout = 3
SPECIFICATION LiveSpec
PROPERTIES
  EveryRoomServed
