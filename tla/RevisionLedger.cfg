SPECIFICATION Spec
CONSTANTS
  a1 = a1
  a2 = a2
  v1 = v1
  v2 = v2
  v3 = v3
  v4 = v4
  w1 = w1
  w2 = w2
  Artifacts = {a1, a2}
  Revisions = {v1, v2, v3, v4}
  Workers = {w1, w2}
  None = None
SYMMETRY Symmetry
CHECK_DEADLOCK FALSE
INVARIANTS
  LedgerInv
  OneCurrentRow
  PointerAgrees
  ReturnMatchesDraft
PROPERTIES
  NeverHeadless
  AcceptReplacesItsBase
  ImplementsHistory
