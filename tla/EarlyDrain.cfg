SPECIFICATION Spec
CONSTANTS
  None = None
  Writers = {w1}
  Reads = {r1}
  IdleEnabled = TRUE
  ReadEnabled = TRUE
  MaxChunks = 1
  DataReactions = {"nothing"}
  ErrorReactions = {"nothing"}
  OverlappingReads = FALSE
  OverlappingWrites = FALSE
  EarlySocketEvents = TRUE
INVARIANTS
  NoStrandedWrite
