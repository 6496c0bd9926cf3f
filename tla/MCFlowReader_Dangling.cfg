CONSTANTS
  m = m
  p1 = p1
  p2 = p2
  A = A
  B = B
  C = C
  H = H
  s1 = s1
  s2 = s2
  G = G
  K = K
  NONE = NONE
  Root = Root
  Main = m
  Files = {m, p1, p2}
  Doc <- MCDoc
  Maps <- MCMaps
  Dir <- MCDir
SPECIFICATION Spec
INVARIANT CaseTargetsLive
