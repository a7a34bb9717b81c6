CONSTANTS
  a1 = a1
  a2 = a2
  b1 = b1
  b2 = b2
  h1 = h1
  h2 = h2
  Code <- As
  Pod <- Bs
  Maker <- Handlers
  MaxGames = 2
  MaxAttempts = 2
  Game <- As
  FinishedStatus = {"resigned"}
  Handler <- Handlers
  MaxCounted = 2
  MaxFailures = 1
  MaxRestarts = 1
  Writer <- Handlers
  LastTime = 3
  OnePair = "e7e8"
  AnotherPair = "e7d8"
  User <- As
  Attempt <- Handlers
  MaxReloads = 1
  MaxStops = 1
SPECIFICATION Spec
INVARIANTS
  PrimedRoomsTicked
  SeriesTruthful
  ActiveRoomsAreTracked
  FinishedCountedOnce
  LoadedTimesInOrder
  AnswersUnderstood
  CreationsTruthful
  BotPlaysAsDrawn
  GoogleMeansRecorded
  AttemptsAccounted
PROPERTIES
  ReplacedOnlyUnseen
SYMMETRY Alike
CHECK_DEADLOCK FALSE
