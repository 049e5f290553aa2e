\* Every part of the window, one at a time.
SPECIFICATION Spec
CONSTANTS
  NoFile = NoFile
  Err = Err
  Ids = {0, 1}
  NameOf <- OperationName
  Spelled <- SpelledName
  DefaultExcluded = {"NtOpenProcess"}
  Files <- FilterFiles
  Values = {1, 16}
  MaxU64 = 255
  MaxArgumentRules = 3
  Texts <- MCTexts
  Processes <- MCProcesses
  NameBytes = 10
  ImageChars = 8
  MaxTargets = 2
  Histories <- MCHistories
  Rows <- MCRows
  Details <- MCDetails
  Controls = {"newline"}
  BufferSize = 8
\* Seven ticks and four "milliseconds" to a second, days of three seconds:
\* no tick is a whole number of milliseconds, every batch may see midnight.
  Frequency = 7
  Millis = 4
  Day = 3
  Offsets = {0, 3, 5, 10, 11}
  MaxTicks = 25
  MaxGap = 3
  MaxEvents = 2
  BitmapsHaveBits = TRUE
  MaxLoads = 3
INVARIANTS
  DriverDecidesAsWindow
  LoadedRulesMeanFile
  NamesDecideInKernel
  FileIsPrefix
  FileSaysWhatIsShown
  TimesAreClose
  IconLoadsAreClean
CHECK_DEADLOCK FALSE
