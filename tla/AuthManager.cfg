SPECIFICATION FairSpec
CONSTANTS
  Unset = Unset
  Client = {c1, c2}
  Environment <- MCEnvironment
  Name <- MCName
  Secret <- MCSecret
  Hash <- MCHash
  Request <- MCRequest
  Code <- MCCode
  TableLists <- MCTableLists
INVARIANTS TypeOK EveryUserCanLogIn TablesAreRead
PROPERTIES RightsAsDocumented NoLicenceForTheAbsent LicenceLapsesOnlyByRemoval NoRightsOutOfNothing RemovalTakesEffect
