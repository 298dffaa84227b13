SPECIFICATION FairSpec
CONSTANTS
  TableOrder = 0
  Clients = {c1, c2}
  Refresher = refresher
  MaxDraws = 6
  MaxInstances = 2
  Limits <- MCLimits
  Prks <- MCPrks
  NoPrk = NoPrk
CHECK_DEADLOCK FALSE
INVARIANTS QuoteMatchesKey StoredQuoteIsCurrent NothingReused AnsweredOnce
PROPERTY MismatchIsRepaired
