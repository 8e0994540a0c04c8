SPECIFICATION Spec
CONSTANTS
  eDP1 = eDP1
  HDMI1 = HDMI1
  Outputs <- Two
  MaxConfigures <- Sizes
  MaxFaults = 1
  ReleasesInTime = TRUE
INVARIANT BuffersFreedOnce
