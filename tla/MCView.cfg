SPECIFICATION ViewSpec
CONSTANTS
  TextBufferSize = 5
  Texts <- KeyTexts
  Continuation <- TailBytes
  Joins <- GraphemeJoins
  Outputs = {eDP1}
  Sizes <- Areas
  LineHeight = 2
CHECK_DEADLOCK FALSE
INVARIANTS
  TextBufferTypeOK
  CursorInText
  CStringIsText
  WordCountIsCorrect
  ColumnIsKept
  FrameShowsCursor
PROPERTIES
  ImplementsTextEditor
  ImplementsTextBuffer
