SPECIFICATION FairSpec
CONSTANTS
  None = None
  Writers = {w1, w2}
  Reads = {r1, r2}
  IdleEnabled = TRUE
  ReadEnabled = TRUE
  MaxChunks = 2
  DataReactions = {"nothing", "close"}
  ErrorReactions = {"nothing"}
  OverlappingReads = FALSE
  OverlappingWrites = FALSE
  EarlySocketEvents = TRUE
INVARIANTS
  ReadsAnsweredWhenGone
  ResolvedWritesLeft
PROPERTIES
  StrandedOnlyByEarlyDrain
  Settles
  ReadsAnswered
  IdleCloses
  IdleClosesWithTimeout
  CloseCompletes
