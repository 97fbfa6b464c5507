\* The standard files, one of which may be closed and its slot used again.
SPECIFICATION Spec
CONSTANTS
  XOPEN_MAX = 3
  XBUFSIZ = 3
  Opens <- MCOpens
  Std <- MCStd
  Chunks = {1, 4}
  MaxPorts = 5
  MaxUsed = 2
  MaxClosed = 1
  MaxBelow = 2
CHECK_DEADLOCK FALSE
INVARIANTS BufferSound
PROPERTIES ImplementsStreams CallsReturn
