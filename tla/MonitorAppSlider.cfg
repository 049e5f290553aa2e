\* The slider is moved while the table shows the end of the history.
SPECIFICATION Spec
CONSTANTS
  Operations <- TwoOperations
  Categories <- TwoCategories
  CategoryOf <- CategoryByOperation
  DefaultExcluded <- IoctlOnly
  DefaultMask <- TwoCategories
  Targets <- NobodyOrOne
  Limits = {1, 2}
  DrainLimit = 2
  InOrder = TRUE
  MaxSequence = 2
  MaxMessages = 2
  MaxWidgets = 1
INVARIANT VisibleInRange
CHECK_DEADLOCK FALSE
