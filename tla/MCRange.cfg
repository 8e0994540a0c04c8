SPECIFICATION AppSpec
CONSTANTS
  Texts <- OneAndQ
  MaxPromptDigits = 7
  MaximumNumberOfChars = 1000000
  MaxDocument = 3
  MaxPrompt = 2
INVARIANT TargetInAdvertisedRange
