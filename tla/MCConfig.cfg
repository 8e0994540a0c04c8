SPECIFICATION Spec
CONSTANTS
  Characters <- Alphabet
  Files <- AllFiles
  DefaultDirs <- Defaults
  SizeofBuffer = 9
  MaxFilePathLen = 3
INVARIANTS
  ConfigTypeOK
  LoadsWhatIsWritten
  RejectsOnlyInvalid
