SPECIFICATION FairSpec
CONSTANTS
  e1 = e1
  e2 = e2
  a1 = a1
  b1 = b1
  Local = {e1, e2}
  Agent = {a1}
  Other = {b1}
  MaxFaults = 1
  MaxBreaks = 1
  None = None
CHECK_DEADLOCK FALSE
INVARIANTS
  GateMeansBehind
  UnsavedIsPending
PROPERTIES
  NoLostEdit
  SavesEnd
