\* Two threads race each other and the collector for rings of two events and
\* one detail.
SPECIFICATION Spec
CONSTANTS
  Threads = {t1, t2}
  t1 = t1
  t2 = t2
  RingEntries = 2
  DetailEntries = 1
  IndexModulus = 4
  EventBatch = 2
  DetailBatch = 2
  MaxSequence = 3
  MaxFaults = 1
SYMMETRY ThreadSymmetry
INVARIANTS
  LossLedger
  PerThreadOrder
  DetailAfterEvent
PROPERTIES
  EventRingIsLossyQueue
  DetailRingIsLossyQueue
CHECK_DEADLOCK FALSE
