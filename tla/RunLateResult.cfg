SPECIFICATION Spec
CONSTANTS
  r1 = r1
  r2 = r2
  c1 = c1
  c2 = c2
  auto = auto
  q1 = q1
  q2 = q2
  o1 = o1
  o2 = o2
  Runs = {r1}
  Callers = {c1, auto}
  Loop = auto
  Questions = {q1}
  Outputs = {o1}
  Kinds = {"create"}
  Tracked = {}
  MaxCrashes = 0
  None = None
CHECK_DEADLOCK FALSE
PROPERTY LateResultQuarantined
