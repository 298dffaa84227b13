SPECIFICATION Spec
CONSTANTS
  A = A
  B = B
  tA = tA
  tB = tB
  u1 = u1
  k1 = k1
  NoUuid = NoUuid
  Nodes = {A, B}
  Threads = {tA, tB}
  Home <- MCHome
  Users <- MCOneUser
  Peer <- MCNoPeer
  MaxAttempts = 0
  Built = {TRUE}
  Overlapping = TRUE
  MaxUpdates = 2
  MaxBreaks = 0
INVARIANTS RedisBuiltAgrees
CHECK_DEADLOCK FALSE
