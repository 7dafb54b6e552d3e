SPECIFICATION Spec
CONSTANTS
  None = None
  Writers = {w1}
  Reads = {r1, r2, r3}
  IdleEnabled = TRUE
  ReadEnabled = TRUE
  MaxChunks = 3
  DataReactions = {"nothing", "read", "close"}
  ErrorReactions = {"nothing", "close"}
  OverlappingReads = TRUE
  OverlappingWrites = FALSE
  EarlySocketEvents = TRUE
INVARIANTS
  TypeOK
  ChunksInOrder
  NoReadWaitsOnBuffer
  PendingReadIsTimed
  TimersAccounted
  IdleArmedWhileOpen
  QuietWhenGone
  ClosingWillEnd
PROPERTIES
  ClosedReasonKept
  ImplementsTransport
