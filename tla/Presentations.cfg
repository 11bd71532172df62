SPECIFICATION Spec
CONSTANTS
  c1 = c1
  c2 = c2
  i1 = i1
  i2 = i2
  o1 = o1
  o3 = o3
  o2 = o2
  a1 = a1
  a2 = a2
  k1 = k1
  k2 = k2
  v1 = v1
  v2 = v2
  v3 = v3
  Clients = {c1, c2}
  Ops = {o1, o2}
  Agents = {a1}
  Patches = {k1, k2}
  Drafting = {k1}
  SetIds = {i1, i2}
  Views = {v1, v2}
  Workspaces = {v1}
  Imported = {v1}
  Layouts = {0}
  MaxVersion = 2
  MaxEra = 1
  None = None
CHECK_DEADLOCK FALSE
SYMMETRY Symmetry
INVARIANTS
  Lineage
  OneEffect
  Announced
  CurationAtomic
PROPERTIES
  NoLostUpdate
  ToggleIsExact
