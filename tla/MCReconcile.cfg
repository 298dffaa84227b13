SPECIFICATION FairSpec
CONSTANTS
  MaxUuid = 2
  Numbers = {k1, k2}
  NoNumber = NoNumber
  Handlers = {h1, h2}
  BuiltAtStart = TRUE
  Accounts <- MCAccounts
  MaxChanges = 2
  MaxFaults = 2
  MaxEvents = 3
CHECK_DEADLOCK FALSE
INVARIANTS NoMessageLost BuiltMeansCovered
PROPERTIES Converges SetGetsBuilt
