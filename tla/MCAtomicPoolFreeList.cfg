CONSTANTS
  c1 = c1
  c2 = c2
  c3 = c3
  o1 = o1
  o2 = o2
  o3 = o3
  NULL = NULL
  Clients = {c1, c2, c3}
  Objs = {o1, o2, o3}
  MaxGets = 6
SPECIFICATION Spec
INVARIANT NoSharedAtomic
