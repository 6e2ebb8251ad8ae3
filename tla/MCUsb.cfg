CONSTANTS
  keyboard = keyboard
  stick = stick
  other = other
  Null = Null
  s1 = s1
  s2 = s2
  Devices = {keyboard, stick, other}
  Info <- MCInfo
  Slots = {s1, s2}
  MayFail = {"enable", "address", "string", "string length", "configuration", "report"}
  RingBlocks = 64
SPECIFICATION Spec
INVARIANTS
  TypeOK
  OwnAnswers
  EndpointsConfigured
  SlotsOwned
PROPERTIES
  Settles
CHECK_DEADLOCK FALSE
