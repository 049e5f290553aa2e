\* The same rules are installed again while a call is decided.
SPECIFICATION Spec
CONSTANTS
  Threads = {t1}
  t1 = t1
  Calls <- SomeCalls
  Configs <- SameRules
  Operations <- TwoOperations
  Categories <- TwoCategories
  CategoryOf <- CategoryByOperation
  MaxPids = 2
  MaxNames = 2
  NameWords = 2
  MaxRules = 2
  MaxConditions = 1
  GuiPid = 9
  MaxCalls = 1
  MaxRequests = 3
INVARIANTS
  RulesDecideBeforeQueue
CHECK_DEADLOCK FALSE
