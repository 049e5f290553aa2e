\* Frames with every widget, while events and details arrive in order.
SPECIFICATION Spec
CONSTANTS
  Operations <- TwoOperations
  Categories <- TwoCategories
  CategoryOf <- CategoryByOperation
  DefaultExcluded <- IoctlOnly
  DefaultMask <- TwoCategories
  Targets <- NobodyOrOne
  Limits = {1, 2}
  DrainLimit = 2
  InOrder = TRUE
  MaxSequence = 2
  MaxMessages = 2
  MaxWidgets = 3
INVARIANTS
  VisibleIsFiltered
  CountsAddUp
  ConfigIsCurrent
PROPERTIES
  SelectionStays
CHECK_DEADLOCK FALSE
