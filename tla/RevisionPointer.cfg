SPECIFICATION Spec
CONSTANTS
  a1 = a1
  a2 = a2
  v1 = v1
  v2 = v2
  v3 = v3
  v4 = v4
  w1 = w1
  w2 = w2
  Artifacts = {a1}
  Revisions = {v1, v2, v3}
  Workers = {w1}
  None = None
CHECK_DEADLOCK FALSE
PROPERTY PointerMovesOnlyByLifecycle
