SPECIFICATION Spec
CONSTANTS
  Machines = {"disk"}
  SoundBoards = 0
  CtcChannels = 2
  SioChannels = 1
  SioCauses = {"err", "recv"}
  Nesting = {TRUE, FALSE}
  MaxDepth = 2
  Asked = {"set", "vector", "key"}
  Pressed = {"comma", "ctrl", "break"}
  MaxKeys = 2
  KeyRoom = 2
  Prompt = TRUE
  BlockSize = 2
  Room = 4
  AllBlocks = 3
  ImageSize = 6
  ListLength = 1
  MaxCommands = 2
  MaxUpsets = 1
  Abrupt = FALSE
  Resets = FALSE
  Careful = FALSE
INVARIANT DiskIsKept
VIEW InUse
CHECK_DEADLOCK FALSE
