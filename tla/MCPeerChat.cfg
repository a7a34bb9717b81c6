CONSTANTS
  MaxSignals = 4
SPECIFICATION Spec
INVARIANTS
  PeersWithOthers
