SPECIFICATION FairSpec
CONSTANTS
  FullSpeedGuard = 1
  PaceGuard = 1
  MaxBatch = 1
  ParkMayTimeOut = FALSE
  SleepHandsOver = TRUE
  StoreBuffers = TRUE
PROPERTIES QuitEndsInDestroy UiGetsTheLock PictureIsDrawn
