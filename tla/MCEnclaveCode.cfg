SPECIFICATION Spec
CHECK_DEADLOCK FALSE
CONSTANTS
  BlockLen = 2
  Lanes = 2
  CounterMod = 8
  MaxAad = 5
  MaxData = 11
  NoMessage = NoMessage
  Nonces <- MCNonces
  HashBlock = 4
  LengthBytes = 1
  DigestLen = 2
  MaxKey = 6
  MaxText = 9
  MaxExpand = 3
  Blocks <- MCBlocks
  HashKeys <- MCHashKeys
  Pieces <- MCPieces
  MaxPieces = 2
  AesKeys <- MCAesKeys
  AesBlocks <- MCAesBlocks
  Jobs <- MCJobs
  NoResult = NoResult
  Width = 4
  MsSize = 3
  HeaderSize = 2
  CallSizes = {0, 1, 2}
  TableOrder = 2
  Prks = {k1, k2}
  NoPrk = NoPrk
  MaxIds = 6
  ChainBlocks = 2
  BlockPhones = 2
  MaxTable = 8
  MaxTries = 2
  Invalid = 99
  UuidBits = {1, 2}
  HashFns <- MCHashFns
  Batches <- MCBatches
  Directories <- MCDirectories
INVARIANTS
  SealingIsExact DigestsAreExact PrimitivesMatchStandards CurveIsExact
  BridgeSound FindsOwnKey LookupSound
PROPERTY ImplementsTickets
