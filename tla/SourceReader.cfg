SPECIFICATION FairSpec
CONSTANTS
  OneByte <- MCOneByte
  Body <- MCBody
  Framing <- AllFramings
CONSTANTS
  Letter <- MCLetter
  ColTypes <- ThreeTypes
  MaxText = 3
  Numeral <- MCNumeral
  SourceRow <- MixedRows
CHECK_DEADLOCK FALSE
INVARIANTS TypeOK OkMeansAllUnlessCut NothingInvented RowsComeBack
PROPERTIES LengthNoticesCut QueryReturns
