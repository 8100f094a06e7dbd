CONSTANTS
  TotalBufferSize <- TwoSegTotalBufferSize
  SingleBufferSize <- TwoSegSingleBufferSize
  Lengths <- TwoSegLengths
  MaxRecords <- TwoSegMaxRecords
SPECIFICATION Spec
PROPERTY WriteCompletes
CHECK_DEADLOCK FALSE
