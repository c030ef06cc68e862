SPECIFICATION Spec
CONSTANTS
  Char <- MCChar
  AlphaNum <- MCAlphaNum
  White <- MCWhite
  Text <- MCText
  Word <- MCWord
  Blob <- MCBlob
  Digest <- MCDigest
  BloomHash <- MCBloomHash
  NumCols <- MCNumCols
  RowInput <- MCRowInput
  Query <- MCQuery
  MaxRowId = 2
  Capacities <- MCCapacities
INVARIANT ContainsFindsSubstring
CHECK_DEADLOCK FALSE
