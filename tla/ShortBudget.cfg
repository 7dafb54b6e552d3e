SPECIFICATION Spec
CONSTANTS
  A = A
  B = B
  None = None
  Answers <- MCAnswers
  ConnectTimeout = 3
  AttemptCap = 3
  Lag = 1
  Drift = 1
  MaxLookupTime = 2
INVARIANT FallbackAlwaysTried
