\* Two processes, a ring of one event and a memory limit of two.
SPECIFICATION SourcesSpec
CONSTANTS
  Pids = {p, q}
  Choices = {{}, {q}}
  EarlierTargets = {}
  EarlierPids = {p}
  StopCommand = StopCommand
  RingEntries = 1
  BatchEvents = 1
  MaxEvents = 2
  DrainLimit = 2
  MaxCaptured = 1
  MaxWidgets = 2
  MaxMessages = 2
  DemoOrders <- MCOrders
  DefaultConfig <- MCDefaultConfig
  DemoTable <- MCTable
  BatchSize = 4
  FirstPid = 42
  ArgumentStep = 16
  MaxSequence = 16
  MaxOrders = 2
INVARIANTS
  TypeOK
  HandleHasOwner
PROPERTIES
  CollectorIsEventSource
  OldEventsStayAway
  WindowConfigurationArrives
  ClosedWindowEndsSource
  DemoIsEventSource
CHECK_DEADLOCK FALSE
