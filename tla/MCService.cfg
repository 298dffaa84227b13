SPECIFICATION ServiceSpec
CHECK_DEADLOCK FALSE
CONSTANTS
  Phones <- MCPhones
  Uuids = {1, 2}
  DELETED_E164 = 99
  StartingCapacity = 3
  LoadUnit = 20
  MinLoad = 15
  MaxLoad = 17
  p1 = p1
  p2 = p2
  u1 = u1
  u2 = u2
  c1 = c1
  c2 = c2
  b1 = b1
  b2 = b2
  NoUuid = NoUuid
  ZeroUuid = ZeroUuid
  MapPhones = {p1, p2}
  MapUuids = {u1, u2}
  Committers = {c1, c2}
  Borrowers = {b1, b2}
  Streams <- MCStreams
  Clients = {c1, c2}
  Amounts = {1, 2}
  BucketSize = 2
  RateNum = 2
  RateDen = 3
  Second = 2
  MaxTime = 7
  NoBucket = NoBucket
  Hashes = {0, 1, 2, 3, 4, 5}
  Configs <- MCConfigs
  Hosts = {b1, b2, c1}
  Undecided = Undecided
INVARIANTS
  TableSound ServedIsCurrent
  GrantsWithinRate RetryIsHonoured
  PartitionCovers FirstNormalWins
PROPERTIES ImplementsMap ImplementsRegister
