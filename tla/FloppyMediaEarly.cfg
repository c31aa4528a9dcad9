SPECIFICATION Spec
CONSTANTS
  Drives = {fd0, fd1}
  Disks = {x, y}
  NoDisk = NoDisk
  Wait = 2
  Guard = 3
  SavesSettled = FALSE
  fd0 = fd0
  fd1 = fd1
  x = x
  y = y
INVARIANT DrivesRestored
