SPECIFICATION FairSpec
CONSTANTS
  Unset = Unset
  Client = {c1}
  Environment <- MCEnvironment
  Name <- MCName
  Secret <- MCSecret
  Hash <- MCHash
  Request <- MCRequest
  Code <- MCCode
  TableLists <- MCTableLists
PROPERTY AdminsOnly
