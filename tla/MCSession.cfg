SPECIFICATION Spec
CONSTANTS
  Texts <- OneAndSpace
  MaxPromptDigits = 7
  MaximumNumberOfChars = 1000000
  MaxDocument = 2
  MaxPrompt = 1
INVARIANTS
  QuitConsumed
  QuitReleasesSession
  DialogAfterSave
PROPERTIES
  KeepsPromise
  QuitHonoured
