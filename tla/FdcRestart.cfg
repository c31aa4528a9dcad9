SPECIFICATION UnitSpec
CONSTANTS
  Drives = {0}
  MaxTrack = 1
  Size = 2
  AddrSize = 2
  TrackSize = 4
  Blank <- MCBlank
  Program <- MCProgram
  Overlaps = TRUE
  MaxCommands = 2
  MaxUpsets = 0
INVARIANT EveryByteOnce
CHECK_DEADLOCK FALSE
