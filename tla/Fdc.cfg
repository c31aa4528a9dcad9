SPECIFICATION UnitSpec
CONSTANTS
  Drives = {0}
  MaxTrack = 2
  Size = 2
  AddrSize = 2
  TrackSize = 4
  Blank <- MCBlank
  Program <- MCProgram
  Overlaps = FALSE
  MaxCommands = 2
  MaxUpsets = 1
INVARIANTS BusyHasAnEvent EveryByteOnce
PROPERTIES HeadArrives CommandsEnd
CHECK_DEADLOCK FALSE
