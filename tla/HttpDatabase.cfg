SPECIFICATION Spec
CONSTANTS
  t1 = t1
  once = once
  twice = twice
  Name = {t1}
  Kind = {once, twice}
  Copies <- MCCopies
  Number <- MCNumber
  Search <- MCSearch
  Width = {2, 3}
  MaxBatch = 2
  MaxBirths = 3
  Limit = 1
  Synced <- MCSynced
INVARIANTS TypeOK KeptIdsNameTheirRow BatchAnswersLineUp PagesTile
