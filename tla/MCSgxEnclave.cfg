CONSTANTS
  Threads = {t1}
  Callers = {c1}
  Batches <- MCBatches
  MaxStarts = 3
SPECIFICATION FairSpec
INVARIANTS
  AllAnswered
  AnswersRight
  NothingLeftBehind
PROPERTIES
  KilledIsDestroyed
  KilledIsReplaced
