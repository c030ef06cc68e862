SPECIFICATION Spec
CONSTANTS
  t1 = t1
  t2 = t2
  b1 = b1
  b2 = b2
  h1 = h1
  h2 = h2
  NoThread = NoThread
  AllTables = AllTables
  Tables <- TwoTables
  Loops = {}
  Handlers = {h1, h2}
  IntervalSecs = 0
  ClearBeforeSync = FALSE
  Fits <- FirstMisfit
  Size <- NeverEmpty
  MaxVersion = 1
  MaxCount = 2
  Asks <- AskTable
  Budget <- Manual
CHECK_DEADLOCK FALSE
INVARIANT NoStuckSyncing
PROPERTY SyncOnlyAppends
