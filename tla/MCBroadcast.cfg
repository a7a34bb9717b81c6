CONSTANTS
  p1 = p1
  p2 = p2
  Page = {p1, p2}
  Ticker = Ticker
  MaxVersion = 3
SPECIFICATION LiveSpec
INVARIANTS
  ShownWasSaved
PROPERTIES
  PagesConverge
