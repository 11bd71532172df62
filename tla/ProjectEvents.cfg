SPECIFICATION FairSpec
CONSTANTS
  Clients = {c1, c2}
  Capacity = 2
  MaxRuntimes = 2
  MaxSeq = 3
CHECK_DEADLOCK FALSE
INVARIANTS
  StreamInv
  NoGap
  CaughtUp
PROPERTIES
  ImplementsLog
  EventsArrive
