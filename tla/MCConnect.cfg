SPECIFICATION FairSpec
CONSTANTS
  A = A
  B = B
  None = None
  Answers <- MCAnswers
  ConnectTimeout = 6
  AttemptCap = 3
  Lag = 1
  Drift = 1
  MaxLookupTime = 2
INVARIANTS
  TypeOK
  CandidatesSound
  DnsErrorSound
  BudgetKept
  FallbackTried
  DeadAttemptsReleased
  HandsOverSession
PROPERTIES
  ImplementsFallback
  ConnectSettles
