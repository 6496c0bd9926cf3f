CONSTANTS
  p1 = p1
  p2 = p2
  a1 = a1
  d1 = d1
  i1 = i1
  i2 = i2
  i3 = i3
  NULL = NULL
  ONE = ONE
  NoId = NoId
  NoAtomic = NoAtomic
  Threads <- MCThreads
  Atomics <- MCAtomics
  Ids <- MCIds
  Dummy <- MCDummy
  Hand0 <- MCHand0
SPECIFICATION Spec
INVARIANT NoLostEvent
CHECK_DEADLOCK FALSE
