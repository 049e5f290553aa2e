\* Two threads in the hook, two processes that open the device, every failure.
SPECIFICATION FairSpec
CONSTANTS
  Threads = {t1, t2}
  t1 = t1
  t2 = t2
  Clients = {c1, c2}
  c1 = c1
  c2 = c2
INVARIANTS
  TypeOK
  NoRingUseAfterFree
  NothingLeftBehind
  OriginalKnown
  NoCaptureWithoutGui
PROPERTIES
  UnloadCompletes
CHECK_DEADLOCK FALSE
