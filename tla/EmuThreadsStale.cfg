SPECIFICATION Spec
CONSTANTS
  FullSpeedGuard = 1
  PaceGuard = 1
  MaxBatch = 2
  ParkMayTimeOut = FALSE
  SleepHandsOver = FALSE
  StoreBuffers = TRUE
INVARIANT AckedBodyAlone
