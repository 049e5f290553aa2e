\* Events reach the ring out of sequence order, as the driver allows.
SPECIFICATION Spec
CONSTANTS
  Operations <- TwoOperations
  Categories <- TwoCategories
  CategoryOf <- CategoryByOperation
  DefaultExcluded <- IoctlOnly
  DefaultMask <- TwoCategories
  Targets <- NobodyOrOne
  Limits = {1, 2}
  DrainLimit = 2
  InOrder = FALSE
  MaxSequence = 2
  MaxMessages = 2
  MaxWidgets = 1
PROPERTY DetailsKept
CHECK_DEADLOCK FALSE
