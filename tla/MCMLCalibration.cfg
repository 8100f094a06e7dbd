CONSTANTS
  Mounts <- MCMounts
  AccelMounts <- MCAccelMounts
  CompassMounts <- MCCompassMounts
  CompassMount <- MCCompassMount
  CPASS_MTX_SUPPORTED = TRUE
  IoResults = {"ok", "err"}
SPECIFICATION Spec
INVARIANT TypeOK
INVARIANT OrientationRoundTrip
INVARIANT GyroCalIsMounting
INVARIANT DmpConfigIsMounting
INVARIANT Mpu6050ProgramSelectsRows
INVARIANT FusionCaseIsPermutation
INVARIANT CompassDmpMatchesCal
INVARIANT FscaleProgramFitsRegs
