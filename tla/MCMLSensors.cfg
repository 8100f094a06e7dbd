CONSTANTS
  IoResults = {"ok", "err"}
  Slaves = {"accel", "compass"}
  ACCEL_IS_MPU6050 = FALSE
  Requests <- MCRequests
  NoMotionTimes <- MCNoMotionTimes
  NoMotionThreshs <- MCNoMotionThreshs
SPECIFICATION SensorsSpec
INVARIANT SensorsTypeOK
INVARIANT AccelIrqMatchesRequest
INVARIANT DurationInDmp
