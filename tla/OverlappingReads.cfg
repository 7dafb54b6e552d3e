SPECIFICATION Spec
CONSTANTS
  None = None
  Writers = {w1}
  Reads = {r1, r2}
  IdleEnabled = TRUE
  ReadEnabled = TRUE
  MaxChunks = 1
  DataReactions = {"nothing"}
  ErrorReactions = {"nothing"}
  OverlappingReads = TRUE
  OverlappingWrites = FALSE
  EarlySocketEvents = TRUE
INVARIANTS
  ReadsAnsweredWhenGone
