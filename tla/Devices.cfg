SPECIFICATION Spec
CONSTANTS
  Samples = 2
  RingChunks = 4
  Numbers = 16
  MaxPull = 3
  FrameClocks = {4, 7}
  FrameLines = {1, 3}
  Speeds = {1, 2}
  Pieces = {2, 5}
  MaxOp = 9
  MaxDrift = 9
  SubCpus = {TRUE, FALSE}
  NumDevices = 3
  MaxMoment = 2
  DiskFills = FALSE
  SmallPre = 2
  LargePre = 3
  Full = 2
  Careless = FALSE
  Wirings <- CtcWirings
  MaxWrites <- CtcWrites
  MaxEvent = 3
  Fraction = 2
  Timers = {seek, drive, blank}
  Loops = {drive}
  NoId = {blank}
  Delays = {0, 2}
  Periods = {3}
  Steps = {1, 3}
  MaxClock = 4
  Nobody = Nobody
  SoundDevices = {psg, opm}
  SoundSamples = 2
  MixLimit = 3
  MaxMixTicks = 8
  MaxMixCalls = 5
  Guns <- Guns2
  PalBytes <- PaletteBytes
  Fronts <- FrontCodes
  Mode2s <- BlackCodes
  AskedEntries <- PaletteEntries
  GunLevels = {7}
  TextLevels <- ThirdLevels
  MaxPortWrites = 3
  MaxInterrupts = 2
  Operands = {0, 1, 7, 9, 15, 16, 25, 57, 73, 99, 127, 128, 144, 152, 154, 240, 249, 255}
  seek = seek
  drive = drive
  blank = blank
INVARIANTS DevicesTypeOK RingBound FramesAreExact SubsKeepUp CrashKeepsAState TicksOnTime SlotsAreWhole ProcessorsAreRight OutputIsTrue SoundKeepsTime PaletteIsTrue
VIEW InUse
PROPERTIES IsAQueue IsAnEventQueue LoadIsAllOrNothing EnvelopesGoTheirWay
CHECK_DEADLOCK FALSE
