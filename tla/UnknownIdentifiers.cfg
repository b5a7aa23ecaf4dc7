SPECIFICATION Spec
CONSTANTS
  TextOrder <- MCTextOrder
  UuidTexts <- MCUuidTexts
  TimestampTexts <- MCTimestampTexts
  NumericTexts <- MCNumericTexts
  DecimalTexts <- MCDecimalTexts
  BooleanTexts <- MCBooleanTexts
  PlainTexts <- MCPlainTexts
  OtherQueries <- MCOtherQueries
  Null = Null
  FieldMap <- MCFieldMap
  Expressions <- MCExpressions
  Depth <- MCDepth
  AllColumns <- MCAllColumns
  Masks <- MCMasks
  Filters <- MCFilters
  NoFilter = NoFilter
  Rows <- MCRows
INVARIANT UnknownIdentifiersAreRejected
CHECK_DEADLOCK FALSE
