SPECIFICATION Spec
CONSTANTS
  Machines = {"chain", "psub", "scsi", "tape", "dma", "disk", "print", "convert", "layout", "packed"}
  SoundBoards = 0
  CtcChannels = 1
  SioChannels = 1
  SioCauses = {"err", "recv"}
  Nesting = {TRUE, FALSE}
  MaxDepth = 2
  Asked = {"set", "vector", "key"}
  Pressed = {"comma", "ctrl", "break"}
  MaxKeys = 2
  KeyRoom = 2
  Prompt = TRUE
  BlockSize = 2
  Room = 4
  AllBlocks = 3
  ImageSize = 6
  ListLength = 1
  MaxCommands = 2
  MaxUpsets = 1
  Abrupt = FALSE
  Resets = FALSE
  Careful = TRUE
INVARIANTS MachinesTypeOK AcksAreTrue VectorNamesCause ServiceIsNested HandlersDoNotPile ExchangesAreWhole TransfersAreWhole DiskIsKept
VIEW InUse
CHECK_DEADLOCK FALSE
