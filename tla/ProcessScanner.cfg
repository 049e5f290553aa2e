\* Two processes of two programs, one of which has an icon; two refreshes.
SPECIFICATION FairSpec
CONSTANTS
  Pids = {1, 2}
  Programs = {"A", "B"}
  WithIcon = {"A"}
  MaxHistory = 1
  MaxCaptured = 1
  MaxStarted = 2
  MaxScans = 2
  MaxWidgets = 1
INVARIANTS
  IconsAreShown
PROPERTIES
  RowsOfEventsStay
  RefreshEnds
CHECK_DEADLOCK FALSE
