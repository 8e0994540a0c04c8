SPECIFICATION FairSpec
CONSTANTS
  p = p
  q = q
  Instances <- Two
  MaxNames = 2
  MaxVersion <- Edits
  MaxLength <- Lengths
INVARIANTS
  RecoveryTypeOK
  NoSharedRecoveryFile
  DialogOffersWholeDocument
  FileIsBeginningOfOneVersion
PROPERTIES
  LeftFilesAreKept
  ChangesAreSaved
