SPECIFICATION LookupSpec
CHECK_DEADLOCK FALSE
CONSTANTS
  ChainBlocks = 4
  BlockPhones = 4
  MaxTable = 16
  MaxTries = 2
  Invalid = 99
  UuidBits = {1, 2}
  HashFns <- MCHashes
  Batches <- MCBatches
  Directories <- MCDirectories
INVARIANT LookupIsExact
