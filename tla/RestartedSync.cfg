SPECIFICATION Spec
CONSTANTS
  t1 = t1
  t2 = t2
  b1 = b1
  b2 = b2
  h1 = h1
  h2 = h2
  NoThread = NoThread
  AllTables = AllTables
  Tables <- OneTable
  Loops = {b1, b2}
  Handlers = {}
  IntervalSecs = 1
  ClearBeforeSync = TRUE
  Fits <- AllFit
  Size <- Growing
  MaxVersion = 1
  MaxCount = 2
  Asks <- AskAll
  Budget <- Restarted
CHECK_DEADLOCK FALSE
INVARIANT OneBackgroundThread
