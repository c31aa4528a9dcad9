SPECIFICATION Spec
CONSTANTS
  HostKeys = {"A"}
  TextKeys = {"A"}
  BufSize = 2
INVARIANT NoStuckKey
