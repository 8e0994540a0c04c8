SPECIFICATION FairSpec
CONSTANTS
  eDP1 = eDP1
  HDMI1 = HDMI1
  Outputs <- Two
  MaxConfigures <- Sizes
  MaxFaults = 1
  ReleasesInTime = TRUE
INVARIANTS
  StartupTypeOK
  OneFrameCallback
  BusyIsAccurate
  SoundWithoutFaults
  SetupCoversOutputs
PROPERTIES
  FailedSetupNeverLocks
  LocksOnlyWhenReady
  ScreenCatchesUp
