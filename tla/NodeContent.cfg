SPECIFICATION FairSpec
CONSTANTS
  n1 = n1
  n2 = n2
  empty = empty
  t1 = t1
  t2 = t2
  Nodes = {n1}
  Texts = {empty, t1, t2}
  Empty = empty
  MaxChain = 2
  MaxTyping = 2
  MaxForeign = 1
  MaxFaults = 2
  MaxReplies = 2
  None = None
CHECK_DEADLOCK FALSE
INVARIANTS
  UnsavedIsVisible
PROPERTIES
  NoBlindOverwrite
  FrozenNeverWrites
  UpdateSparesPending
  SavedOrTold
