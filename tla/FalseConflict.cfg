SPECIFICATION Spec
CONSTANTS
  n1 = n1
  n2 = n2
  empty = empty
  t1 = t1
  t2 = t2
  Nodes = {n1, n2}
  Texts = {empty, t1, t2}
  Empty = empty
  MaxChain = 1
  MaxTyping = 1
  MaxForeign = 1
  MaxFaults = 0
  MaxReplies = 0
  None = None
CHECK_DEADLOCK FALSE
INVARIANT NoFalseConflict
