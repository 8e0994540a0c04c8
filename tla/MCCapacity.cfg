SPECIFICATION PromptSpec
CONSTANTS
  TextBufferSize = 4
  Texts <- KeyTexts
  Continuation <- TailBytes
  Joins <- GraphemeJoins
CHECK_DEADLOCK FALSE
INVARIANT CapacityIsChecked
