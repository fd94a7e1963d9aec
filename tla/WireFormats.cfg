SPECIFICATION Spec
CONSTANTS
  Less <- Before
  DigestLength = 2
  NumberLimit = 65536
  Underscored = {"x_b"}
  Hyphened = {"x-a"}
  Sent <- Messages
  OtherBytes <- SomeBytes
  OtherTokens <- SomeTokens
  OtherText <- SomeText
  Values <- FieldValues
  None = None
  Garbled = Garbled
  MaxChanges = 1
CHECK_DEADLOCK FALSE
INVARIANTS RoundTrip OnlyWholeDecodes DecodesToNormalForm
