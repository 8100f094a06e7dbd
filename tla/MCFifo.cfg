CONSTANTS
  TotalBufferSize <- MCTotalBufferSize
  SingleBufferSize <- MCSingleBufferSize
  Lengths <- MCLengths
  MaxRecords <- MCMaxRecords
SPECIFICATION Spec
INVARIANT TypeOK
INVARIANT NoOverrun
INVARIANT DeliveredInOrder
INVARIANT EmptyMeansDrained
PROPERTY WriteCompletes
PROPERTY EndDrains
PROPERTY ImplementsChannel
CHECK_DEADLOCK FALSE
