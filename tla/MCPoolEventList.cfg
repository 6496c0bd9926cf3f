CONSTANTS
  c1 = c1
  c2 = c2
  c3 = c3
  r1 = r1
  r2 = r2
  n1 = n1
  n2 = n2
  h1 = h1
  h2 = h2
  h3 = h3
  h4 = h4
  h5 = h5
  h6 = h6
  h7 = h7
  h8 = h8
  h9 = h9
  h10 = h10
  NULL = NULL
  NoEv = NoEv
  NoLoc = NoLoc
  Sentinel0 = h1
  Clients <- MCClients2
  ResNode <- MCResNode
  Holders <- MCHolders
  Slot0 <- MCSlot02
  By0 <- MCBy02
  MaxAcquires = 6
SPECIFICATION Spec
INVARIANT TypeOK
INVARIANT ResourceConserved
INVARIANT NoLostWaiter
INVARIANT HolderHasResource
