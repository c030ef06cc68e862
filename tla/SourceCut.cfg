SPECIFICATION Spec
CONSTANTS
  OneByte <- MCOneByte
  Body <- MCBody
  Framing = {"chunked", "length"}
CONSTANTS
  Letter <- MCLetter
  ColTypes <- ThreeTypes
  MaxText = 3
  Numeral <- MCNumeral
  SourceRow <- MixedRows
CHECK_DEADLOCK FALSE
INVARIANT OkMeansAll
