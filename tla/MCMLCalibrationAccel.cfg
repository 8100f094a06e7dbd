CONSTANTS
  Mounts <- MCMounts
  AccelMounts <- MCAccelMounts
  CompassMounts <- MCCompassMounts
  CompassMount <- MCCompassMount
  CPASS_MTX_SUPPORTED = TRUE
  IoResults = {"ok", "err"}
SPECIFICATION Spec
INVARIANT AccelCalIsMounting
