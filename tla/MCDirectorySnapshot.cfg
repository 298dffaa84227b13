SPECIFICATION Spec
CONSTANTS
  A = A
  B = B
  tA = tA
  tB = tB
  u1 = u1
  k1 = k1
  NoUuid = NoUuid
  Nodes = {A, B}
  Threads = {tA, tB}
  Home <- MCHome
  Users <- MCOneUser
  Peer <- MCPeer
  MaxAttempts = 1
  Built = {TRUE}
  Overlapping = FALSE
  MaxUpdates = 1
  MaxBreaks = 0
INVARIANTS PeerBuiltAgrees
CHECK_DEADLOCK FALSE
