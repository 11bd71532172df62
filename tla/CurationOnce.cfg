SPECIFICATION Spec
CONSTANTS
  c1 = c1
  c2 = c2
  i1 = i1
  i2 = i2
  o1 = o1
  o2 = o2
  o3 = o3
  a1 = a1
  a2 = a2
  k1 = k1
  k2 = k2
  v1 = v1
  v2 = v2
  v3 = v3
  Clients = {c1}
  Ops = {o1}
  Agents = {a1, a2}
  Patches = {k1}
  Drafting = {k1}
  SetIds = {i1, i2}
  Views = {v2, v3}
  Workspaces = {}
  Imported = {}
  Layouts = {0}
  MaxVersion = 3
  MaxEra = 0
  None = None
CHECK_DEADLOCK FALSE
INVARIANT CurationOnce
