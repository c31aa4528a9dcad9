SPECIFICATION FairSpec
CONSTANTS
  HostKeys = {"RShift", "Kana", "Left"}
  TextKeys = {"Return"}
  BufSize = 1
INVARIANTS ModifiersHold LockIsRomajis
PROPERTY LockIsGivenBack
