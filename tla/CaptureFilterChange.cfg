\* Calls overlap, or fall between, three changes of the whole configuration.
SPECIFICATION Spec
CONSTANTS
  Threads = {t1}
  t1 = t1
  Calls <- SomeCalls
  Configs <- MixedConfigs
  Operations <- TwoOperations
  Categories <- TwoCategories
  CategoryOf <- CategoryByOperation
  MaxPids = 2
  MaxNames = 2
  NameWords = 2
  MaxRules = 2
  MaxConditions = 1
  GuiPid = 9
  MaxCalls = 2
  MaxRequests = 4
INVARIANTS
  QuietDecision
  FlushDecision
  FlushLeavesNoOldFilter
  MasksDecideBeforeQueue
  PidTargetsHold
CHECK_DEADLOCK FALSE
