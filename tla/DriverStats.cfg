\* Rings of one event whose indices wrap with the second push; GET_STATS may
\* be overtaken between any two of its reads.
SPECIFICATION FairStatsSpec
CONSTANTS
  Threads = {t1}
  t1 = t1
  RingEntries = 1
  DetailEntries = 1
  IndexModulus = 2
  EventBatch = 1
  DetailBatch = 1
  MaxSequence = 2
  MaxFaults = 1
  Unread = Unread
INVARIANTS
  TypeOK
  CapturedIsAccountedFor
PROPERTIES
  EventsLeaveDriver
CHECK_DEADLOCK FALSE
