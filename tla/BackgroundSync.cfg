SPECIFICATION FairSpec
CONSTANTS
  t1 = t1
  t2 = t2
  b1 = b1
  b2 = b2
  h1 = h1
  h2 = h2
  NoThread = NoThread
  AllTables = AllTables
  Tables <- OneTable
  Loops = {b1, b2}
  Handlers = {h1}
  IntervalSecs = 1
  ClearBeforeSync = TRUE
  Fits <- AllFit
  Size <- NeverEmpty
  MaxVersion = 1
  MaxCount = 0
  Asks <- AskAll
  Budget <- Background
CHECK_DEADLOCK FALSE
INVARIANTS
  TypeOK
  WholeSnapshots
  QuietStatusIsTrue
  NoStuckSyncing
  OneThreadUntilStopped
  LoneSyncIsOrderly
PROPERTIES
  ServesReaders
  EventuallyFresh
  StopEndsLoops
  TriggersReturn
