CONSTANTS
  IoResults = {"ok", "err"}
  DMP_DR_KEY_SUPPORTED = TRUE
SPECIFICATION Spec
INVARIANT TypeOK
INVARIANT InterruptLineServesSources
INVARIANT CheckedFeaturesTrackCompass
