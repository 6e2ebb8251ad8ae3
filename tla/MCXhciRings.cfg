CONSTANTS
  a = a
  b = b
  endpoint = endpoint
  Clients = {a, b}
  Endpoints = {endpoint}
  CommandRing = commands
  Uses <- MCUses
  RingSize = 3
  EventSize = 4
  MaxCommands = 1
  MaxChanges = 1
  EarlyLook = FALSE
  Nobody = nobody
SPECIFICATION Spec
INVARIANTS
  TypeOK
  OneCallbackEach
PROPERTIES
  ImplementsQueues
  IsServed
