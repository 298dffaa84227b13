SPECIFICATION FairSpec
CONSTANTS
  A = A
  B = B
  tA = tA
  tB = tB
  u1 = u1
  k1 = k1
  NoUuid = NoUuid
  Nodes = {A, B}
  Threads = {tA, tB}
  Home <- MCHome
  Users <- MCOneUser
  Peer <- MCPeer
  MaxAttempts = 1
  Built = {TRUE, FALSE}
  Overlapping = FALSE
  MaxUpdates = 2
  MaxBreaks = 1
INVARIANT RedisBuiltAgrees
PROPERTY EventuallyConsistent
CHECK_DEADLOCK FALSE
