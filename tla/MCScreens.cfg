SPECIFICATION Spec
CONSTANTS
  Adapters = {"bga", "rpi"}
  NoBuffer = NoBuffer
INVARIANT FreeIsNotShown
CHECK_DEADLOCK FALSE
