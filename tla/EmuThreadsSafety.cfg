SPECIFICATION Spec
CONSTANTS
  FullSpeedGuard = 1
  PaceGuard = 1
  MaxBatch = 3
  ParkMayTimeOut = TRUE
  SleepHandsOver = FALSE
  StoreBuffers = FALSE
INVARIANTS LockIsHonest ParkTakesEffect DestroyIsLast
