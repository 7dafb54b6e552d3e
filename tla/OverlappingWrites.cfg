SPECIFICATION Spec
CONSTANTS
  None = None
  Writers = {w1, w2}
  Reads = {r1}
  IdleEnabled = TRUE
  ReadEnabled = TRUE
  MaxChunks = 1
  DataReactions = {"nothing"}
  ErrorReactions = {"nothing"}
  OverlappingReads = FALSE
  OverlappingWrites = TRUE
  EarlySocketEvents = FALSE
INVARIANTS
  NoStrandedWrite
