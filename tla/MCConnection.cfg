SPECIFICATION FairSpec
CONSTANTS
  A = A
  B = B
  None = None
  Answers <- MCAnswers
  ConnectTimeout = 2
  AttemptCap = 1
  Lag = 0
  Drift = 0
  MaxLookupTime = 0
  Writers = {w1}
  Reads = {r1}
  MaxChunks = 2
  ReadEnabled = FALSE
  DataReactions = {"nothing", "read", "close"}
  ErrorReactions = {"nothing", "close"}
  OverlappingReads = FALSE
INVARIANTS
  ChunksInOrder
  ClosedByOwnSocket
  NothingLeftBehind
  AlwaysWatched
  ResolvedWritesLeft
PROPERTIES
  ImplementsTransport
  ConnectionEnds
