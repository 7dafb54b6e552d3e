SPECIFICATION FairSpec
CONSTANTS
  Writers = {w1, w2, w3, w4}
  None = None
INVARIANTS TypeOK WaiterNeverLost NeverStuck FirstComeFirstServed
PROPERTIES HandedOn ImplementsBackpressureQueue
